-------------------------------- MODULE Crm --------------------------------
(***************************************************************************)
(* The support console: apps/support-crm/src/App.tsx and lib/api.ts, with  *)
(* the handlers of the admin API it calls (services/admin-api/main.go and  *)
(* handlers/organizations.go). An operator suspends and                    *)
(* reactivates organisations, sets their seats and starts resets: the page *)
(* shows the change at once and takes it back when the request fails. A    *)
(* request is a call; the server serves it in one transaction, and the     *)
(* page takes its answer in a later step. Seats are small numbers, an      *)
(* audit id is the number of the call that wrote the entry.                *)
(***************************************************************************)
EXTENDS Naturals, Sequences, FiniteSets

CONSTANTS
  Orgs,       \* organisations
  Stalled,    \* rows of the stalled queue, each about one mailbox
  Nobody,     \* null
  MaxSeats,   \* bound on the seats asked for
  MaxCalls,   \* bound on requests in flight
  MaxUses     \* bound on what the operator does

ASSUME CrmAssumption ==
  /\ Nobody \notin Orgs \cup Stalled
  /\ MaxSeats \in Nat \ {0} /\ MaxCalls \in Nat /\ MaxUses \in Nat

VARIABLES
  dbRow,     \* organizations: status and seat_count
  ledger,    \* support_audit_logs, oldest first
  page,      \* the organizations resource
  audit,     \* how much of the ledger the auditLogs resource shows
  pane,      \* currentTab
  filter,    \* statusFilter
  menu,      \* openDropdownId
  resizing,  \* selectedOrgForCapacity as it was when the modal opened
  resetting, \* selectedOrgForRecovery
  thread,    \* ticketOrgFilter
  stall,     \* stalledTxs: the status of each
  health,    \* healthData: the mailbox it is about
  looked,    \* activeLookupUuid
  looking,   \* loadingHealth
  notice,    \* actionNotification
  calls,     \* requests of the page
  crossed,   \* history: the organisations two of whose calls overlapped, or whose answer was lost
  uses       \* what the operator did so far

crmVars == <<dbRow, ledger, page, audit, pane, filter, menu, resizing, resetting, thread, stall,
             health, looked, looking, notice, calls, crossed, uses>>
dialogs == <<menu, resizing, resetting>>
diagnosis == <<health, looked, looking>>
server == <<dbRow, ledger>>

Status == {"active", "suspended"}
Row == [status : Status, seats : 1..MaxSeats]
Blank == [status |-> "active", seats |-> 1]
NavTab == {"organizations", "telemetry", "mailboxes", "tickets", "audit_logs"}
Kinds == {"suspend", "capacity", "reset", "intervene", "health", "orgs", "audit"}
NoNotice == [type |-> "none", auditId |-> 0]

(* A request: what it asks, for whom, the row it asks for, the row to go   *)
(* back to, and how far it is: sent, served, or failed. Lists carry the    *)
(* table as it was when it was read.                                       *)
Call == [n : 1..MaxUses, kind : Kinds, of : Orgs \cup Stalled \cup {Nobody},
         new : Row, old : Row,
         st : {"sent", "served", "failed"}, table : [Orgs -> Row], upTo : 0..MaxUses]

CrmTypeOK ==
  /\ dbRow \in [Orgs -> Row] /\ page \in [Orgs -> Row]
  /\ \A i \in DOMAIN ledger : ledger[i].auditId \in 1..MaxUses
  /\ audit \in 0..MaxUses
  /\ pane \in NavTab /\ filter \in Status \cup {"all"}
  /\ menu \in Orgs \cup {Nobody} /\ resetting \in Orgs \cup {Nobody}
  /\ thread \in Orgs \cup {Nobody}
  /\ resizing.org \in Orgs \cup {Nobody} /\ resizing.seats \in 1..MaxSeats
  /\ stall \in [Stalled -> {"stalled", "processing", "resolved"}]
  /\ {health, looked} \subseteq Stalled \cup {Nobody} /\ looking \in BOOLEAN
  /\ calls \subseteq Call /\ Cardinality(calls) <= MaxCalls
  /\ crossed \subseteq Orgs
  /\ uses \in 0..MaxUses

----------------------------------------------------------------------------
(* Requests.                                                               *)

Use == uses < MaxUses /\ uses' = uses + 1

(* adminFetch: the call is sent; one that refetches a resource supersedes  *)
(* the fetch of it under way, whose answer is then dropped.                *)
NewCall(kind, of, new, old) ==
  [n |-> uses', kind |-> kind, of |-> of, new |-> new, old |-> old, st |-> "sent",
   table |-> page, upTo |-> 0]
adminFetch(c) ==
  /\ Cardinality(calls) < MaxCalls
  /\ calls' = {d \in calls : d.kind # c.kind \/ c.kind \notin {"orgs", "audit"}} \cup {c}

(* The calls that change or replace what the page shows of o. *)
Touching(o) == {c \in calls : c.kind = "orgs" \/ (c.kind \in {"suspend", "capacity"} /\ c.of = o)}
Crossing(c) ==
  crossed' = crossed \cup {o \in Orgs : Touching(o) # {} /\ (c.kind = "orgs" \/ c.of = o)}

(* The field of the organisation a call is about, taken from r. *)
Put(rows, c, r) ==
  CASE c.kind = "suspend"  -> [rows EXCEPT ![c.of].status = r.status]
    [] c.kind = "capacity" -> [rows EXCEPT ![c.of].seats = r.seats]
    [] OTHER               -> rows

(* The answer is taken: refetchAuditLogs follows every success. *)
Success(c) == notice' = [type |-> "success", auditId |-> c.n]
Failure == notice' = [type |-> "error", auditId |-> 0]
refetchAuditLogs(c) ==
  calls' = {d \in calls : d # c /\ d.kind # "audit"}
             \cup {[c EXCEPT !.kind = "audit", !.of = Nobody, !.st = "sent",
                            !.new = Blank, !.old = Blank]}

----------------------------------------------------------------------------
(* What the operator does.                                                 *)

NoModal == resizing.org = Nobody /\ resetting = Nobody

setCurrentTab(t) ==
  /\ Use /\ NoModal /\ pane # t
  /\ pane' = t
  /\ thread' = IF t = "tickets" THEN Nobody ELSE thread
  /\ menu' = Nobody
  /\ UNCHANGED <<server, page, audit, filter, resizing, resetting, stall, diagnosis, notice,
                 calls, crossed>>

setStatusFilter(s) ==
  /\ Use /\ NoModal /\ pane = "organizations" /\ filter # s
  /\ filter' = s
  /\ menu' = Nobody
  /\ UNCHANGED <<server, page, audit, pane, resizing, resetting, thread, stall, diagnosis, notice,
                 calls, crossed>>

filteredOrganizations == {o \in Orgs : filter \in {"all", page[o].status}}

handleExportCSV ==
  /\ Use /\ NoModal /\ pane = "organizations"
  /\ notice' = [type |-> "success", auditId |-> 0]
  /\ menu' = Nobody
  /\ UNCHANGED <<server, page, audit, pane, filter, resizing, resetting, thread, stall, diagnosis,
                 calls, crossed>>

(* The row's menu, and what its entries open. *)
OpenDropdown(o) ==
  /\ Use /\ NoModal /\ pane = "organizations" /\ o \in filteredOrganizations /\ menu # o
  /\ menu' = o
  /\ UNCHANGED <<server, page, audit, pane, filter, resizing, resetting, thread, stall, diagnosis,
                 notice, calls, crossed>>
Chosen(o) == menu = o /\ pane = "organizations" /\ o \in filteredOrganizations

AdjustCapacity(o) ==
  /\ Use /\ NoModal /\ Chosen(o)
  /\ resizing' = [org |-> o, seats |-> page[o].seats]
  /\ menu' = Nobody
  /\ UNCHANGED <<server, page, audit, pane, filter, resetting, thread, stall, diagnosis, notice,
                 calls, crossed>>

InitiateRecovery(o) ==
  /\ Use /\ NoModal /\ Chosen(o)
  /\ resetting' = o
  /\ menu' = Nobody
  /\ UNCHANGED <<server, page, audit, pane, filter, resizing, thread, stall, diagnosis, notice,
                 calls, crossed>>

OpenSupportThread(o) ==
  /\ Use /\ NoModal /\ Chosen(o)
  /\ thread' = o /\ pane' = "tickets"
  /\ menu' = Nobody
  /\ UNCHANGED <<server, page, audit, filter, resizing, resetting, stall, diagnosis, notice,
                 calls, crossed>>

(* The row shows the target at once; the answer confirms it or puts the   *)
(* status read at the click back.                                          *)
handleToggleSuspend(o) ==
  /\ Use /\ NoModal /\ Chosen(o)
  /\ LET target == IF page[o].status = "suspended" THEN "active" ELSE "suspended"
         c == NewCall("suspend", o, [page[o] EXCEPT !.status = target], page[o])
     IN /\ page' = Put(page, c, c.new)
        /\ adminFetch(c)
        /\ Crossing(c)
  /\ menu' = Nobody
  /\ UNCHANGED <<server, audit, pane, filter, resizing, resetting, thread, stall, diagnosis, notice>>

(* The modal's organisation is the row as it was when the modal opened. *)
handleConfirmCapacityUpdate(seats) ==
  /\ Use /\ resizing.org # Nobody
  /\ LET o == resizing.org
         c == NewCall("capacity", o, [page[o] EXCEPT !.seats = seats],
                      [page[o] EXCEPT !.seats = resizing.seats])
     IN /\ page' = Put(page, c, c.new)
        /\ adminFetch(c)
        /\ Crossing(c)
  /\ resizing' = [org |-> Nobody, seats |-> 1]
  /\ UNCHANGED <<server, audit, pane, filter, menu, resetting, thread, stall, diagnosis, notice>>

handleConfirmStateReset ==
  /\ Use /\ resetting # Nobody
  /\ adminFetch(NewCall("reset", resetting, Blank, Blank))
  /\ resetting' = Nobody
  /\ UNCHANGED <<server, page, audit, pane, filter, menu, resizing, thread, stall, diagnosis, notice,
                 crossed>>

CloseModal ==
  /\ Use /\ ~NoModal
  /\ resizing' = [org |-> Nobody, seats |-> 1] /\ resetting' = Nobody
  /\ UNCHANGED <<server, page, audit, pane, filter, menu, thread, stall, diagnosis, notice, calls,
                 crossed>>

(* The buttons of a row are disabled while it is processing and gone once  *)
(* it is resolved.                                                         *)
Intervenable(x) == pane = "telemetry" /\ stall[x] = "stalled"
handleExecuteIntervention(x) ==
  /\ Use /\ NoModal /\ Intervenable(x)
  /\ stall' = [stall EXCEPT ![x] = "processing"]
  /\ adminFetch(NewCall("intervene", x, Blank, Blank))
  /\ UNCHANGED <<server, page, audit, pane, filter, dialogs, thread, diagnosis, notice, crossed>>

(* A lookup keeps the diagnosis on screen until its own arrives. *)
triggerGlobalSearch(x) ==
  /\ Use /\ NoModal
  /\ looking' = TRUE /\ looked' = x
  /\ adminFetch(NewCall("health", x, Blank, Blank))
  /\ UNCHANGED <<server, page, audit, pane, filter, dialogs, thread, stall, health, notice, crossed>>

InvalidSearch ==
  /\ Use /\ NoModal
  /\ health' = Nobody /\ looked' = Nobody
  /\ UNCHANGED <<server, page, audit, pane, filter, dialogs, thread, stall, looking, notice, calls,
                 crossed>>

handleDecryptTicket(ok) ==
  /\ Use /\ NoModal /\ pane = "tickets"
  /\ notice' = [type |-> IF ok THEN "success" ELSE "error", auditId |-> 0]
  /\ UNCHANGED <<server, page, audit, pane, filter, dialogs, thread, stall, diagnosis, calls, crossed>>

refetchOrgs ==
  /\ Use /\ NoModal /\ pane = "organizations"
  /\ LET c == NewCall("orgs", Nobody, Blank, Blank)
     IN adminFetch(c) /\ Crossing(c)
  /\ menu' = Nobody
  /\ UNCHANGED <<server, page, audit, pane, filter, resizing, resetting, thread, stall, diagnosis,
                 notice>>

(* The notification is dismissed, or its timer does it. *)
DismissNotice ==
  /\ notice # NoNotice
  /\ notice' = NoNotice
  /\ UNCHANGED <<server, page, audit, pane, filter, dialogs, thread, stall, diagnosis, calls, crossed,
                 uses>>

----------------------------------------------------------------------------
(* The server.                                                             *)

Entry(c) == [auditId |-> c.n, kind |-> c.kind, of |-> c.of, new |-> c.new]
Move(c, st) == calls' = (calls \ {c}) \cup {[c EXCEPT !.st = st]}

(* One transaction updates the organisation and writes the ledger, or      *)
(* neither; what the page is told may be lost after the commit.            *)
LedgerApart(c) ==
  /\ dbRow' = Put(dbRow, c, c.new)
  /\ ledger' \in {ledger, Append(ledger, Entry(c))}
OrganizationTransaction(c) ==
  /\ dbRow' = Put(dbRow, c, c.new)
  /\ ledger' = Append(ledger, Entry(c))

ServeOrganization(c) ==
  /\ c.st = "sent" /\ c.kind \in {"suspend", "capacity", "reset"}
  /\ \/ OrganizationTransaction(c) /\ Move(c, "served") /\ UNCHANGED crossed
     \/ /\ OrganizationTransaction(c) /\ Move(c, "failed")
        /\ crossed' = crossed \cup {c.of}
     \/ Move(c, "failed") /\ UNCHANGED <<server, crossed>>
  /\ UNCHANGED <<page, audit, pane, filter, dialogs, thread, stall, diagnosis, notice, uses>>

(* interventionHandler ignores the result of its INSERT. *)
interventionHandler(c) ==
  /\ c.st = "sent" /\ c.kind = "intervene"
  /\ ledger' \in {ledger, Append(ledger, Entry(c))}
  /\ \E st \in {"served", "failed"} : Move(c, st)
  /\ UNCHANGED <<dbRow, page, audit, pane, filter, dialogs, thread, stall, diagnosis, notice, crossed,
                 uses>>

(* The reads: the tables as they are now, or a failure. *)
ServeRead(c) ==
  /\ c.st = "sent" /\ c.kind \in {"health", "orgs", "audit"}
  /\ \/ calls' = (calls \ {c}) \cup {[c EXCEPT !.st = "served", !.table = dbRow, !.upTo = Len(ledger)]}
     \/ Move(c, "failed")
  /\ UNCHANGED <<server, page, audit, pane, filter, dialogs, thread, stall, diagnosis, notice, crossed,
                 uses>>

----------------------------------------------------------------------------
(* The answers.                                                            *)

(* A failed change puts the old value back. *)
KeepsTarget(c) ==
  /\ c.st = "failed"
  /\ page' = page
  /\ Failure
  /\ calls' = calls \ {c}
Rollback(c) ==
  /\ c.st = "failed"
  /\ page' = Put(page, c, c.old)
  /\ Failure
  /\ calls' = calls \ {c}

OrganizationAnswer(c) ==
  /\ c.kind \in {"suspend", "capacity", "reset"}
  /\ \/ c.st = "served" /\ Success(c) /\ refetchAuditLogs(c) /\ UNCHANGED page
     \/ Rollback(c)
  /\ UNCHANGED <<server, audit, pane, filter, dialogs, thread, stall, diagnosis, crossed, uses>>

StaysProcessing(c) ==
  /\ c.kind = "intervene" /\ c.st # "sent"
  /\ IF c.st = "served"
       THEN /\ stall' = [stall EXCEPT ![c.of] = "resolved"]
            /\ Success(c) /\ refetchAuditLogs(c)
       ELSE Failure /\ calls' = calls \ {c} /\ UNCHANGED stall
  /\ UNCHANGED <<server, page, audit, pane, filter, dialogs, thread, diagnosis, crossed, uses>>
MarksDone(c) ==
  /\ c.kind = "intervene" /\ c.st # "sent"
  /\ stall' = [stall EXCEPT ![c.of] = IF c.st = "served" THEN "done" ELSE "stalled"]
  /\ Failure /\ calls' = calls \ {c}
  /\ UNCHANGED <<server, page, audit, pane, filter, dialogs, thread, diagnosis, crossed, uses>>
InterventionAnswer(c) ==
  /\ c.kind = "intervene" /\ c.st # "sent"
  /\ IF c.st = "served"
       THEN /\ stall' = [stall EXCEPT ![c.of] = "resolved"]
            /\ Success(c) /\ refetchAuditLogs(c)
       ELSE /\ stall' = [stall EXCEPT ![c.of] = "stalled"]
            /\ Failure /\ calls' = calls \ {c}
  /\ UNCHANGED <<server, page, audit, pane, filter, dialogs, thread, diagnosis, crossed, uses>>

HealthAnswer(c) ==
  /\ c.kind = "health" /\ c.st # "sent"
  /\ health' = IF c.st = "served" THEN c.of ELSE Nobody
  /\ looking' = FALSE
  /\ calls' = calls \ {c}
  /\ UNCHANGED <<server, page, audit, pane, filter, dialogs, thread, stall, looked, notice, crossed,
                 uses>>

ResourceAnswer(c) ==
  /\ c.kind \in {"orgs", "audit"} /\ c.st # "sent"
  /\ page' = IF c.kind = "orgs" /\ c.st = "served" THEN c.table ELSE page
  /\ audit' = IF c.kind = "audit" /\ c.st = "served" THEN c.upTo ELSE audit
  /\ calls' = calls \ {c}
  /\ UNCHANGED <<server, pane, filter, dialogs, thread, stall, diagnosis, notice, crossed, uses>>

----------------------------------------------------------------------------
CrmInit ==
  /\ dbRow = [o \in Orgs |-> Blank]
  /\ ledger = <<>>
  /\ page = dbRow /\ audit = 0
  /\ pane = "organizations" /\ filter = "all" /\ thread = Nobody
  /\ menu = Nobody /\ resizing = [org |-> Nobody, seats |-> 1] /\ resetting = Nobody
  /\ stall = [x \in Stalled |-> "stalled"]
  /\ health = Nobody /\ looked = Nobody /\ looking = FALSE
  /\ notice = NoNotice
  /\ calls = {} /\ crossed = {} /\ uses = 0

(* The parts of the page. *)
RowMenu(o) ==
  \/ OpenDropdown(o)
  \/ AdjustCapacity(o)
  \/ InitiateRecovery(o)
  \/ OpenSupportThread(o)
  \/ handleToggleSuspend(o)
CapacityModal == \E n \in 1..MaxSeats : handleConfirmCapacityUpdate(n)
RecoveryModal == handleConfirmStateReset \/ CloseModal
SearchForm == InvalidSearch \/ \E x \in Stalled : triggerGlobalSearch(x)
FilterBar ==
  \/ \E s \in Status \cup {"all"} : setStatusFilter(s)
  \/ handleExportCSV
  \/ refetchOrgs
StalledQueue == \E x \in Stalled : handleExecuteIntervention(x)
TicketList == \E ok \in BOOLEAN : handleDecryptTicket(ok)

OperatorStep ==
  \/ \E t \in NavTab : setCurrentTab(t)
  \/ SearchForm \/ FilterBar
  \/ \E o \in Orgs : RowMenu(o)
  \/ CapacityModal \/ RecoveryModal
  \/ StalledQueue \/ TicketList
  \/ DismissNotice

CallStep(c) ==
  \/ ServeOrganization(c)
  \/ interventionHandler(c)
  \/ ServeRead(c)
  \/ OrganizationAnswer(c)
  \/ InterventionAnswer(c)
  \/ HealthAnswer(c)
  \/ ResourceAnswer(c)

CrmNext == OperatorStep \/ \E c \in calls : CallStep(c)
CrmSpec == CrmInit /\ [][CrmNext]_crmVars

(* Every request is answered or fails in the end, so a waiting handler     *)
(* always resumes.                                                         *)
CrmFairness == WF_crmVars(\E c \in calls : CallStep(c))

----------------------------------------------------------------------------
(* "If the audit log fails to write, the transaction rolls back"           *)
(* (handlers/organizations.go): whatever calls overlap, fail or lose their *)
(* answers, the last ledger entry about an organisation's status, or its   *)
(* seats, is what its row holds.                                           *)
Last(o, kind) == {i \in DOMAIN ledger : ledger[i].of = o /\ ledger[i].kind = kind}
Latest(o, kind) ==
  IF Last(o, kind) = {} THEN Blank
  ELSE ledger[CHOOSE i \in Last(o, kind) : \A j \in Last(o, kind) : j <= i].new
LedgerExplains ==
  \A o \in Orgs : dbRow[o] = [status |-> Latest(o, "suspend").status,
                            seats  |-> Latest(o, "capacity").seats]

(* "Optimistic mutate + atomic backend rollback" (handleToggleSuspend): an *)
(* organisation whose calls never overlapped and whose answers all arrived *)
(* is shown with the status the server has, once its last call is over.    *)
StatusRollsBack ==
  \A o \in Orgs \ crossed : Touching(o) = {} => page[o].status = dbRow[o].status

(* Row, ledger and page of an organisation say the same wherever the code  *)
(* promises it.                                                            *)
ConsoleMatchesServer == LedgerExplains /\ StatusRollsBack

(* No row of the queue is in processing, its buttons disabled:             *)
(* handleExecuteIntervention has resolved it or given it back.             *)
NothingProcessing == \A x \in Stalled : stall[x] # "processing"
=============================================================================
