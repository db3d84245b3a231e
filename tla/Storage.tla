------------------------------ MODULE Storage ------------------------------
(***************************************************************************)
(* The storage connections of BYOS organisations (services/api/storage.go) *)
(* and their health: the connection handlers, the connection test a user   *)
(* starts, and the background monitor of services/api/storage_monitor.go.  *)
(*                                                                         *)
(* The handlers serialise on the row lock of their organisation; the       *)
(* monitor and the Google callback do not take it, and a provider is       *)
(* tested outside every transaction. updated_at is a clock that advances   *)
(* with every write that sets it; a configuration is its ciphertext.       *)
(***************************************************************************)
EXTENDS Naturals, FiniteSets

CONSTANTS
  Orgs,        \* organisations
  Conns,       \* rows storage_connections may come to hold
  OrgOf,       \* the organisation of each row
  Configs,     \* configurations a user may enter
  Drive,       \* the configuration the Google callback writes
  NoConfig,    \* no configuration: before INSERT, or a tombstone
  NoConn,      \* "no connection" of an idle request
  Reqs,        \* concurrent requests of the connection endpoints
  MaxOAuth,    \* authorisations per organisation; 0: Google not configured
  MayBe,       \* what the provider behind each configuration may do
  TickBudget,  \* hanging providers the 30 seconds of a monitor tick outlast
  MaxLost,     \* bound on monitor ticks cut off by a failure or a restart
  MaxClock     \* bound on the writes that set updated_at

ASSUME StorageAssumption ==
  /\ OrgOf \in [Conns -> Orgs]
  /\ Drive \notin Configs
  /\ NoConfig \notin Configs \cup {Drive}
  /\ NoConn \notin Conns
  /\ MaxOAuth \in Nat
  /\ MayBe \in [Configs \cup {Drive} -> SUBSET {"ok", "refuses", "hangs"}]
  /\ TickBudget \in Nat
  /\ MaxLost \in Nat
  /\ MaxClock \in Nat

VARIABLES
  status,     \* of each row, "none" before its INSERT
  config,     \* its configuration
  stamp,      \* its updated_at
  checked,    \* the configuration its recorded check was run with
  clock,      \* now()
  oauth,      \* valid google_drive_oauth_states of each organisation
  provider,   \* what the provider behind each configuration does
  req,        \* the requests in progress
  tick,       \* what the monitor's tick has still to check
  verdict,    \* the check the monitor is about to record
  spent,      \* hanging providers the tick has met
  lost        \* ticks cut off so far

connVars == <<status, config, stamp, checked, clock>>
tickVars == <<tick, verdict, spent, lost>>
storageVars == <<connVars, oauth, provider, req, tickVars>>

AllConfigs == Configs \cup {Drive, NoConfig}
Statuses == {"none", "pending", "active", "error", "deleted"}
Usable == {"active", "error"}
Answers == {"ok", "refuses", "hangs"}
Codes == {"none", "verified", "failed"}

Requests ==
  [op : {"none", "test", "update", "delete"},
   pc : {"idle", "testing", "answered", "locked"},
   conn : Conns \cup {NoConn}, config : AllConfigs, stamp : Nat, code : Codes]
Idle == [op |-> "none", pc |-> "idle", conn |-> NoConn, config |-> NoConfig,
         stamp |-> 0, code |-> "none"]
Moved(q, pc, code) ==
  [op |-> q.op, pc |-> pc, conn |-> q.conn, config |-> q.config,
   stamp |-> q.stamp, code |-> code]

Checks == [conn : Conns, config : AllConfigs, stamp : Nat]
Verdicts == [conn : Conns, config : AllConfigs, code : Codes]

StorageTypeOK ==
  /\ status \in [Conns -> Statuses]
  /\ config \in [Conns -> AllConfigs]
  /\ stamp \in [Conns -> 0..MaxClock]
  /\ checked \in [Conns -> AllConfigs]
  /\ clock \in 0..MaxClock
  /\ oauth \in [Orgs -> 0..MaxOAuth]
  /\ provider \in [Configs \cup {Drive} -> Answers]
  /\ req \in [Reqs -> Requests]
  /\ tick \in SUBSET Checks
  /\ verdict \in SUBSET Verdicts
  /\ spent \in Nat
  /\ lost \in 0..MaxLost

StorageInit ==
  /\ status = [c \in Conns |-> "none"]
  /\ config = [c \in Conns |-> NoConfig]
  /\ stamp = [c \in Conns |-> 0]
  /\ checked = [c \in Conns |-> NoConfig]
  /\ clock = 0
  /\ oauth = [o \in Orgs |-> 0]
  /\ provider = [k \in Configs \cup {Drive} |-> "ok"]
  /\ req = [r \in Reqs |-> Idle]
  /\ tick = {}
  /\ verdict = {}
  /\ spent = 0
  /\ lost = 0

Own(o) == {c \in Conns : OrgOf[c] = o}
UsableOf(o) == {c \in Own(o) : status[c] \in Usable}

\* WHERE status IN ('active','error') ORDER BY updated_at DESC LIMIT 1
Latest(o) == {c \in UsableOf(o) : \A d \in UsableOf(o) : stamp[d] <= stamp[c]}

\* SELECT ... FROM organizations ... FOR UPDATE has to wait.
OrgLocked(o) == \E r \in Reqs : req[r].pc = "locked" /\ OrgOf[req[r].conn] = o

\* The code the storage worker's test of a configuration answers with, and the
\* status it is recorded as.
CodeOf(k) == IF provider[k] = "ok" THEN "verified" ELSE "failed"
StatusFor(code) == IF code = "verified" THEN "active" ELSE "error"

\* Any statement with updated_at = now().
Now == clock < MaxClock /\ clock' = clock + 1

-----------------------------------------------------------------------------
(* The connection handlers.                                                 *)

storageConnectionCreateHandler(o, c, k) ==
  /\ ~OrgLocked(o)
  /\ \A d \in Own(o) : status[d] # "active"
  /\ c \in Own(o) /\ status[c] = "none"
  /\ Now
  /\ status' = [status EXCEPT ![c] = "active"]
  /\ config' = [config EXCEPT ![c] = k]
  /\ stamp' = [stamp EXCEPT ![c] = clock']
  /\ UNCHANGED <<checked, oauth, provider, req, tickVars>>

\* PUT and DELETE lock the organisation and select the row they will write.
Select(r, o, op, k) ==
  /\ req[r].pc = "idle"
  /\ ~OrgLocked(o)
  /\ \E c \in Latest(o) :
       req' = [req EXCEPT ![r] =
         [op |-> op, pc |-> "locked", conn |-> c, config |-> k,
          stamp |-> 0, code |-> "none"]]
  /\ UNCHANGED <<connVars, oauth, provider, tickVars>>

UpdateSelect(r, o, k) == Select(r, o, "update", k)
DeleteSelect(r, o) == Select(r, o, "delete", NoConfig)

Holding(r, op) == req[r].pc = "locked" /\ req[r].op = op

\* Rotation: the new configuration is active and has not been checked.
storageConnectionUpdateHandler(r) ==
  /\ Holding(r, "update")
  /\ Now
  /\ status' = [status EXCEPT ![req[r].conn] = "active"]
  /\ config' = [config EXCEPT ![req[r].conn] = req[r].config]
  /\ stamp' = [stamp EXCEPT ![req[r].conn] = clock']
  /\ checked' = [checked EXCEPT ![req[r].conn] = NoConfig]
  /\ req' = [req EXCEPT ![r] = Idle]
  /\ UNCHANGED <<oauth, provider, tickVars>>

\* Soft delete: the tombstone replaces the configuration.
storageConnectionDeleteHandler(r) ==
  /\ Holding(r, "delete")
  /\ Now
  /\ status' = [status EXCEPT ![req[r].conn] = "deleted"]
  /\ config' = [config EXCEPT ![req[r].conn] = NoConfig]
  /\ stamp' = [stamp EXCEPT ![req[r].conn] = clock']
  /\ req' = [req EXCEPT ![r] = Idle]
  /\ UNCHANGED <<checked, oauth, provider, tickVars>>

\* The request ends without its write: its client, a statement, the worker or
\* the API itself fails, and the transaction rolls back.
RequestLost(r) ==
  /\ req[r].pc # "idle"
  /\ req' = [req EXCEPT ![r] = Idle]
  /\ UNCHANGED <<connVars, oauth, provider, tickVars>>

-----------------------------------------------------------------------------
(* The Google Drive authorisation.                                          *)

googleDriveAuthorizeHandler(o) ==
  /\ oauth[o] < MaxOAuth
  /\ oauth' = [oauth EXCEPT ![o] = @ + 1]
  /\ UNCHANGED <<connVars, provider, req, tickVars>>

\* Ten minutes pass before the user comes back from Google.
OAuthStateExpires(o) ==
  /\ oauth[o] > 0
  /\ oauth' = [oauth EXCEPT ![o] = @ - 1]
  /\ UNCHANGED <<connVars, provider, req, tickVars>>

\* The state is used up and every connection that is not deleted is turned
\* into the new one, or one is created, all without the organisation's lock.
googleDriveCallbackHandler(o) ==
  /\ oauth[o] > 0
  /\ oauth' = [oauth EXCEPT ![o] = @ - 1]
  /\ Now
  /\ \E found \in {{c \in Own(o) : status[c] \notin {"none", "deleted"}}} :
     \E new \in IF found # {} THEN {found}
                ELSE {{c} : c \in {d \in Own(o) : status[d] = "none"}} :
       /\ status' = [c \in Conns |-> IF c \in new THEN "pending" ELSE status[c]]
       /\ config' = [c \in Conns |-> IF c \in new THEN Drive ELSE config[c]]
       /\ stamp' = [c \in Conns |-> IF c \in new THEN clock' ELSE stamp[c]]
  /\ UNCHANGED <<checked, provider, req, tickVars>>

-----------------------------------------------------------------------------
(* The connection test a user starts.                                       *)

\* The row and its updated_at are read before the provider is tested.
storageConnectionTestHandler(r, o) ==
  /\ req[r].pc = "idle"
  /\ \E c \in Latest(o) :
       req' = [req EXCEPT ![r] =
         [op |-> "test", pc |-> "testing", conn |-> c, config |-> config[c],
          stamp |-> stamp[c], code |-> "none"]]
  /\ UNCHANGED <<connVars, oauth, provider, tickVars>>

testEncryptedHandler(r) ==
  /\ req[r].pc = "testing"
  /\ req' = [req EXCEPT ![r] = Moved(req[r], "answered", CodeOf(req[r].config))]
  /\ UNCHANGED <<connVars, oauth, provider, tickVars>>

\* Mutant: the result is recorded whatever happened during the test.
VerifyNothing(r) ==
  /\ req[r].pc = "answered"
  /\ ~OrgLocked(OrgOf[req[r].conn])
  /\ req' = [req EXCEPT ![r] = Moved(req[r], "locked", req[r].code)]
  /\ UNCHANGED <<connVars, oauth, provider, tickVars>>

\* Under the lock: a changed updated_at is a 409.
TestVerify(r) ==
  /\ req[r].pc = "answered"
  /\ ~OrgLocked(OrgOf[req[r].conn])
  /\ req' = [req EXCEPT ![r] =
       IF stamp[req[r].conn] = req[r].stamp
       THEN Moved(req[r], "locked", req[r].code) ELSE Idle]
  /\ UNCHANGED <<connVars, oauth, provider, tickVars>>

TestRecord(r) ==
  /\ Holding(r, "test")
  /\ Now
  /\ status' = [status EXCEPT ![req[r].conn] = StatusFor(req[r].code)]
  /\ stamp' = [stamp EXCEPT ![req[r].conn] = clock']
  /\ checked' = [checked EXCEPT ![req[r].conn] = req[r].config]
  /\ req' = [req EXCEPT ![r] = Idle]
  /\ UNCHANGED <<config, oauth, provider, tickVars>>

-----------------------------------------------------------------------------
(* The monitor: a snapshot of every usable connection, then one after the   *)
(* other a test and an UPDATE, in the order of updated_at.                  *)

\* Mutant: connections found broken are not checked again.
ActiveOnly ==
  /\ tick = {} /\ verdict = {}
  /\ tick' = {[conn |-> c, config |-> config[c], stamp |-> stamp[c]] :
                c \in {d \in Conns : status[d] = "active"}}
  /\ UNCHANGED <<connVars, oauth, provider, req, verdict, spent, lost>>

runStorageHealthCheck ==
  /\ tick = {} /\ verdict = {}
  /\ tick' = {[conn |-> c, config |-> config[c], stamp |-> stamp[c]] :
                c \in {d \in Conns : status[d] \in Usable /\ config[d] # NoConfig}}
  /\ UNCHANGED <<connVars, oauth, provider, req, verdict, spent, lost>>

First == {x \in tick : \A y \in tick : x.stamp <= y.stamp}

testEncryptedStorage(x) ==
  /\ x \in First /\ verdict = {}
  /\ verdict' = {[conn |-> x.conn, config |-> x.config,
                  code |-> CodeOf(x.config)]}
  /\ spent' = IF provider[x.config] = "hangs" THEN spent + 1 ELSE spent
  /\ tick' = tick \ {x}
  /\ UNCHANGED <<connVars, oauth, provider, req, lost>>

Record(v) ==
  /\ status' = [status EXCEPT ![v.conn] = StatusFor(v.code)]
  /\ checked' = [checked EXCEPT ![v.conn] = v.config]

\* Mutant: the UPDATE is not restricted to active and error rows.
RecordAnyStatus(v) ==
  /\ v \in verdict
  /\ verdict' = {}
  /\ IF spent <= TickBudget THEN Record(v) ELSE UNCHANGED <<status, checked>>
  /\ spent' = IF tick = {} THEN 0 ELSE spent
  /\ UNCHANGED <<config, stamp, clock, oauth, provider, req, tick,
                 lost>>

\* The UPDATE of one row; it fails when the tick's 30 seconds are over.
MonitorRecord(v) ==
  /\ v \in verdict
  /\ verdict' = {}
  /\ IF spent <= TickBudget /\ status[v.conn] \in Usable
     THEN Record(v) ELSE UNCHANGED <<status, checked>>
  /\ spent' = IF tick = {} THEN 0 ELSE spent
  /\ UNCHANGED <<config, stamp, clock, oauth, provider, req, tick,
                 lost>>

\* The tick loses its database connection, or the API restarts.
TickLost ==
  /\ tick # {} \/ verdict # {}
  /\ lost < MaxLost /\ lost' = lost + 1
  /\ tick' = {} /\ verdict' = {} /\ spent' = 0
  /\ UNCHANGED <<connVars, oauth, provider, req>>

-----------------------------------------------------------------------------
\* A provider comes, goes or stops answering.
ProviderChanges(k, a) ==
  /\ a \in MayBe[k] /\ provider[k] # a
  /\ provider' = [provider EXCEPT ![k] = a]
  /\ UNCHANGED <<connVars, oauth, req, tickVars>>

HandlerStep ==
  \/ \E o \in Orgs, c \in Conns, k \in Configs : storageConnectionCreateHandler(o, c, k)
  \/ \E o \in Orgs : googleDriveAuthorizeHandler(o) \/ OAuthStateExpires(o)
                     \/ googleDriveCallbackHandler(o)
  \/ \E r \in Reqs, o \in Orgs :
       \/ \E k \in Configs : UpdateSelect(r, o, k)
       \/ DeleteSelect(r, o)
       \/ storageConnectionTestHandler(r, o)
  \/ \E r \in Reqs :
       \/ storageConnectionUpdateHandler(r)
       \/ storageConnectionDeleteHandler(r)
       \/ testEncryptedHandler(r)
       \/ TestVerify(r)
       \/ TestRecord(r)
       \/ RequestLost(r)

MonitorStep ==
  \/ runStorageHealthCheck
  \/ \E x \in tick : testEncryptedStorage(x)
  \/ \E v \in verdict : MonitorRecord(v)

StorageNext ==
  \/ HandlerStep
  \/ MonitorStep
  \/ TickLost
  \/ \E k \in Configs \cup {Drive}, a \in Answers : ProviderChanges(k, a)

StorageSpec == StorageInit /\ [][StorageNext]_storageVars

\* The ticker fires for ever.
StorageFairness == WF_storageVars(MonitorStep)

-----------------------------------------------------------------------------
(* What the connections promise.                                            *)

\* A disconnected storage stays disconnected, its credentials gone, whatever
\* test or monitor tick was under way when the user deleted it.
DeletedForGood ==
  [][\A c \in Conns : status[c] = "deleted" =>
       status'[c] = "deleted" /\ config'[c] = NoConfig]_storageVars

\* The 409 configuration_changed works: the result a test handler is about to
\* record was obtained with the configuration the row holds at that moment,
\* however many rotations and deletions ran during the test. Only the Google
\* callback, which takes no lock, can come between; its rows are pending.
TestedIsCurrent ==
  \A r \in Reqs :
    Holding(r, "test") /\ status[req[r].conn] # "pending" =>
      config[req[r].conn] = req[r].config

Hangs(c) == provider[config[c]] = "hangs"
Works(c) == config[c] # NoConfig /\ provider[config[c]] = "ok"

\* The monitor finds out by itself that a provider works again, as long as the
\* tick's 30 seconds are enough: a usable connection whose provider works is
\* shown as active again when all connections that go on hanging are among
\* TickBudget ones, wherever they stand in the order of the checks. Behind more
\* hanging ones a connection may stay in error for ever.
MonitorHeals ==
  \A c \in Conns, S \in {T \in SUBSET Conns : Cardinality(T) <= TickBudget} :
    <>[](/\ status[c] \in Usable /\ Works(c)
         /\ \A d \in Conns \ S : config[d] # NoConfig => ~Hangs(d))
      => []<>(status[c] = "active")
=============================================================================
