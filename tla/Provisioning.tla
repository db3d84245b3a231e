---------------------------- MODULE Provisioning ----------------------------
(***************************************************************************)
(* Mailboxes and aliases of an organisation, as its administrators manage  *)
(* them: the page routes/dashboard/mailboxes.tsx with lib/api/mailboxes.ts *)
(* and the handlers it calls (services/api/invitations.go, mailboxes.go).  *)
(*                                                                         *)
(* A request is served in as many steps as another transaction can come    *)
(* between. A row lock is held by the requests in the middle of their      *)
(* transaction, so it needs no variable. The page awaits the answer, then  *)
(* fetches its lists again one after the other; a resource drops the       *)
(* answer of any fetch but the last one begun. A mailbox's address stands  *)
(* for its domain too, and a setup link is named by its mailbox. An answer *)
(* is lost only once the server has ended the request. The administrators  *)
(* keep their role, so no fetch is refused with 403. The banner, the tabs  *)
(* and the clipboard only show and are left out.                           *)
(***************************************************************************)
EXTENDS Naturals, Sequences, FiniteSets

CONSTANTS
  Admins,      \* administrators, each with the page open
  Addresses,   \* addresses of mailboxes
  AliasNames,  \* addresses of aliases
  SeatLimit,   \* MailboxLimit of the organisation's plan
  AliasLimit,  \* AliasesPerMail of the plan
  MaxAsks      \* bound on what the administrators ask of the server

ASSUME ProvisioningAssumption ==
  /\ IsFiniteSet(Admins) /\ Admins # {} /\ Addresses # {}
  /\ SeatLimit \in Nat \ {0} /\ AliasLimit \in Nat /\ MaxAsks \in Nat

Boxes == 1 .. MaxAsks + 1
None == 0
Managed == {1}   \* org_managed: the mailbox the organisation starts with

VARIABLES
  box,      \* mailboxes: the address and the status of each
  invites,  \* account_invitations: the link of each mailbox
  aliases,  \* rows of aliases
  claims,   \* mailboxes whose claim holds the invitation's row
  desk,     \* the page of each administrator
  asks,     \* requests of the pages
  asked,    \* how many there were so far
  crowd     \* history: the most invitations that were counted and not yet made, at once

provisioningVars == <<box, invites, aliases, claims, desk, asks, asked, crowd>>
tables == <<box, invites, aliases>>

Resources == {"list", "aliases", "billing"}
Alias == [id : 1 .. MaxAsks, name : AliasNames, of : Boxes, on : BOOLEAN]

(* A request: who asks what of which mailbox or alias, how far it is, the  *)
(* count its transaction read (or the alias it is about), the fetches that *)
(* are to follow, and what the one under way read.                         *)
Unread == [list |-> {}, aliases |-> {}, used |-> None, ok |-> TRUE]
Ask == [n : 1 .. MaxAsks, by : Admins, kind : {"invite", "delete", "alias", "unalias", "recover"},
        of : Boxes \cup {None}, name : Addresses \cup AliasNames \cup {None},
        at : {"sent", "counted", "locked", "done", "failed", "fetch", "read"},
        seen : 0 .. MaxAsks + 1, todo : Seq(Resources),
        got : [list : SUBSET Boxes, aliases : SUBSET Alias, used : 0 .. MaxAsks + 1, ok : BOOLEAN]]

(* The page: its resources and the last fetch of each, whether the list    *)
(* came from the server, the links it knows by mailbox and by address, the *)
(* invitation on show, the mailbox about to be deleted, the alias form's   *)
(* target, what is under way, and history: the mailboxes it was told were  *)
(* made and deleted.                                                       *)
Desk == [list : SUBSET Boxes, fresh : BOOLEAN, aliases : SUBSET Alias, used : 0 .. MaxAsks + 1,
         last : [Resources -> 0 .. MaxAsks],
         known : SUBSET Boxes, mail : [Addresses -> Boxes \cup {None}],
         created : Boxes \cup {None}, confirm : Boxes \cup {None}, target : Boxes \cup {None},
         creating : BOOLEAN, deleting : BOOLEAN, aliasing : BOOLEAN,
         dropping : 0 .. MaxAsks, recovering : BOOLEAN,
         made : SUBSET Boxes, removed : SUBSET Boxes]

ProvisioningTypeOK ==
  /\ box \in [Boxes -> [addr : Addresses, st : {"none", "pending", "active", "gone"}]]
  /\ invites \in [Boxes -> {"none", "live", "expired", "used"}]
  /\ aliases \subseteq Alias /\ claims \subseteq Boxes
  /\ desk \in [Admins -> Desk]
  /\ asks \subseteq Ask /\ asked \in 0 .. MaxAsks /\ crowd \in 0 .. MaxAsks

-----------------------------------------------------------------------------
(* The tables.                                                             *)

\* The mailboxes with is_active, which the quota counts.
Live == {i \in Boxes : box[i].st \in {"pending", "active"}}
Taken(a) == \E i \in Live : box[i].addr = a
Fresh == CHOOSE i \in Boxes : box[i].st = "none" /\ \A j \in Boxes : box[j].st = "none" => i <= j
AliasesOf(i) == {a \in aliases : a.of = i /\ a.on}

\* The requests that hold the row of mailbox i, SELECT ... FOR UPDATE.
Holders(i) == {r \in asks : r.of = i /\ (r.at = "locked" \/ (r.kind = "alias" /\ r.at = "counted"))}
Unlocked(i) == Holders(i) = {}

Step(r, at) == asks' = (asks \ {r}) \cup {[r EXCEPT !.at = at]}
\* The transaction is over: the page is told, or the answer is lost.
Told(r) == Step(r, "done") \/ Step(r, "failed")

-----------------------------------------------------------------------------
(* What an administrator does on the page.                                 *)

isQuotaFull(g) == desk[g].used # None /\ desk[g].used >= SeatLimit

request(g, kind, i, name, seen) ==
  /\ asked < MaxAsks
  /\ asked' = asked + 1
  /\ asks' = asks \cup {[n |-> asked', by |-> g, kind |-> kind, of |-> i, name |-> name,
                         at |-> "sent", seen |-> seen, todo |-> <<>>, got |-> Unread]}
  /\ UNCHANGED <<tables, claims, crowd>>

OnlyPage == UNCHANGED <<tables, claims, asks, asked, crowd>>

\* The overlay of the modal takes every click.
Clickable(g) == desk[g].confirm = None

handleCreate(g, a) ==
  /\ Clickable(g) /\ ~desk[g].creating /\ desk[g].created = None /\ ~isQuotaFull(g)
  /\ desk' = [desk EXCEPT ![g].creating = TRUE]
  /\ request(g, "invite", None, a, 0)

CreateAnother(g) ==
  /\ Clickable(g) /\ desk[g].created # None /\ asked < MaxAsks
  /\ desk' = [desk EXCEPT ![g].created = None]
  /\ OnlyPage

setDeleteTargetMailbox(g, i) ==
  /\ Clickable(g) /\ i \in desk[g].list /\ asked < MaxAsks
  /\ desk' = [desk EXCEPT ![g].confirm = i]
  /\ OnlyPage

CancelDelete(g) ==
  /\ ~Clickable(g) /\ ~desk[g].deleting
  /\ desk' = [desk EXCEPT ![g].confirm = None]
  /\ OnlyPage

handleDeleteMailbox(g) ==
  /\ ~Clickable(g) /\ ~desk[g].deleting
  /\ desk' = [desk EXCEPT ![g].deleting = TRUE]
  /\ request(g, "delete", desk[g].confirm, None, 0)

\* The select of the alias form, and "+ Add Alias" in the row of a mailbox.
setAliasTargetMailboxId(g, i) ==
  /\ Clickable(g) /\ i \in desk[g].list \ {desk[g].target} /\ asked < MaxAsks
  /\ desk' = [desk EXCEPT ![g].target = i]
  /\ OnlyPage

handleCreateAlias(g, name) ==
  /\ Clickable(g) /\ desk[g].target # None /\ ~desk[g].aliasing
  /\ desk' = [desk EXCEPT ![g].aliasing = TRUE]
  /\ request(g, "alias", desk[g].target, name, 0)

\* Only the button of the alias whose deletion began last is disabled.
handleDeleteAlias(g, a) ==
  /\ Clickable(g) /\ a \in desk[g].aliases /\ desk[g].dropping # a.id
  /\ desk' = [desk EXCEPT ![g].dropping = a.id]
  /\ request(g, "unalias", a.of, a.name, a.id)

\* The secret key of a managed mailbox is opened in the browser and saved to a file.
handleRecovery(g, i) ==
  /\ Clickable(g) /\ i \in desk[g].list \cap Managed /\ ~desk[g].recovering
  /\ desk' = [desk EXCEPT ![g].recovering = TRUE]
  /\ request(g, "recover", i, None, 0)

-----------------------------------------------------------------------------
(* The server.                                                             *)

\* As WithinPlan below, one seat too many.
OneSeatOver(r) == r.seen <= SeatLimit
WithinPlan(r) == r.seen < SeatLimit

\* The invitations that have been counted and may still be made.
Counted == {r \in asks : r.kind = "invite" /\ r.at = "counted" /\ WithinPlan(r)}

\* mailboxInviteHandler counts the mailboxes before it locks the organisation.
CountMailboxes(r) ==
  /\ r.kind = "invite" /\ r.at = "sent"
  /\ asks' = (asks \ {r}) \cup {[r EXCEPT !.at = "counted", !.seen = Cardinality(Live)]}
  /\ crowd' = IF Cardinality(Counted') > crowd THEN Cardinality(Counted') ELSE crowd
  /\ UNCHANGED <<tables, claims, desk, asked>>

\* The rest, under the lock: refused by the plan or as a duplicate, or made.
mailboxInviteHandler(r) ==
  /\ r.kind = "invite" /\ r.at = "counted"
  /\ IF WithinPlan(r) /\ ~Taken(r.name)
     THEN /\ box' = [box EXCEPT ![Fresh] = [addr |-> r.name, st |-> "pending"]]
          /\ invites' = [invites EXCEPT ![Fresh] = "live"]
          /\ \E at \in {"done", "failed"} :
                asks' = (asks \ {r}) \cup {[r EXCEPT !.at = at, !.of = Fresh]}
     ELSE Step(r, "failed") /\ UNCHANGED <<box, invites>>
  /\ UNCHANGED <<aliases, claims, desk, asked, crowd>>

\* deleteMailbox: the row of the mailbox first; one that is not active is not found.
LockMailbox(r) ==
  /\ r.kind = "delete" /\ r.at = "sent" /\ Unlocked(r.of)
  /\ Step(r, IF r.of \in Live THEN "locked" ELSE "failed")
  /\ UNCHANGED <<tables, claims, desk, asked, crowd>>

\* As Decommission below, leaving the invitations alone.
LeavesInvitation(r) ==
  /\ box' = [box EXCEPT ![r.of].st = "gone"]
  /\ aliases' = {IF a.of = r.of THEN [a EXCEPT !.on = FALSE] ELSE a : a \in aliases}
  /\ Told(r)
  /\ UNCHANGED invites
\* The mailbox is suspended, its aliases are switched off and its link expires.
Decommission(r) ==
  /\ box' = [box EXCEPT ![r.of].st = "gone"]
  /\ aliases' = {IF a.of = r.of THEN [a EXCEPT !.on = FALSE] ELSE a : a \in aliases}
  /\ invites' = [invites EXCEPT ![r.of] = IF @ = "live" THEN "expired" ELSE @]
  /\ Told(r)

\* Then the rest; the row of an invitation that a claim holds is waited for.
deleteMailbox(r) ==
  /\ r.kind = "delete" /\ r.at = "locked" /\ r.of \notin claims
  /\ Decommission(r)
  /\ UNCHANGED <<claims, desk, asked, crowd>>

\* As LockAndCount below, without FOR UPDATE.
CountUnlocked(r) ==
  /\ r.kind = "alias" /\ r.at = "sent"
  /\ asks' = (asks \ {r}) \cup {[r EXCEPT !.at = "counted", !.seen = Cardinality(AliasesOf(r.of))]}
  /\ UNCHANGED <<tables, claims, desk, asked, crowd>>
\* mailboxAliasesHandler: the mailbox may be deleted, its row is there.
LockAndCount(r) ==
  /\ r.kind = "alias" /\ r.at = "sent" /\ Unlocked(r.of)
  /\ asks' = (asks \ {r}) \cup {[r EXCEPT !.at = "counted", !.seen = Cardinality(AliasesOf(r.of))]}
  /\ UNCHANGED <<tables, claims, desk, asked, crowd>>

\* A released alias keeps its row, and so its address.
mailboxAliasesHandler(r) ==
  /\ r.kind = "alias" /\ r.at = "counted"
  /\ IF r.seen < AliasLimit /\ \A a \in aliases : a.name # r.name
     THEN /\ aliases' = aliases \cup {[id |-> r.n, name |-> r.name, of |-> r.of, on |-> TRUE]}
          /\ Told(r)
     ELSE Step(r, "failed") /\ UNCHANGED aliases
  /\ UNCHANGED <<box, invites, claims, desk, asked, crowd>>

mailboxAliasItemHandler(r) ==
  /\ r.kind = "unalias" /\ r.at = "sent"
  /\ aliases' = {a \in aliases : a.id # r.seen}
  /\ IF aliases' # aliases THEN Told(r) ELSE Step(r, "failed")
  /\ UNCHANGED <<box, invites, claims, desk, asked, crowd>>

\* recoverMailboxSecret only reads.
openMailboxSecret(r) ==
  /\ r.kind = "recover" /\ r.at = "sent"
  /\ Told(r)
  /\ UNCHANGED <<tables, claims, desk, asked, crowd>>

\* The request is lost, or refused for another reason, before it changes anything.
Refused(r) ==
  /\ r.at \in {"sent", "counted", "locked"}
  /\ Step(r, "failed")
  /\ UNCHANGED <<tables, claims, desk, asked, crowd>>

-----------------------------------------------------------------------------
(* The invited user: invitationClaimHandler.                               *)

\* The link the row of mailbox i copies: the mailbox's, or the address's.
pendingInviteUrl(g, i) == IF i \in desk[g].known THEN i ELSE desk[g].mail[box[i].addr]
Shared(j) == \E g \in Admins : \/ desk[g].created = j
                              \/ \E i \in desk[g].list : pendingInviteUrl(g, i) = j

\* The invitation's row is locked, and neither used nor expired.
ClaimInvitation(i) ==
  /\ i \notin claims /\ invites[i] = "live" /\ Shared(i)
  /\ claims' = claims \cup {i}
  /\ UNCHANGED <<tables, desk, asks, asked, crowd>>

\* The mailbox is updated whatever its status; its row is waited for.
invitationClaimHandler(i) ==
  /\ i \in claims /\ Unlocked(i)
  /\ box' = [box EXCEPT ![i].st = "active"]
  /\ invites' = [invites EXCEPT ![i] = "used"]
  /\ claims' = claims \ {i}
  /\ UNCHANGED <<aliases, desk, asks, asked, crowd>>

ClaimFails(i) ==
  /\ i \in claims
  /\ claims' = claims \ {i}
  /\ UNCHANGED <<tables, desk, asks, asked, crowd>>

\* A deletion and a claim wait for each other: the database ends one of them,
\* and the deletion, which waits for the invitation, has its row when the claim ends.
DeadlockBroken(r) ==
  /\ r.kind = "delete" /\ r.at = "locked" /\ r.of \in claims
  /\ \/ Step(r, "failed") /\ UNCHANGED <<tables, claims>>
     \/ Decommission(r) /\ claims' = claims \ {r.of}
  /\ UNCHANGED <<desk, asked, crowd>>

-----------------------------------------------------------------------------
(* The answers.                                                            *)

Refetches == [invite |-> <<"list", "billing">>, delete |-> <<"list", "aliases", "billing">>,
              alias |-> <<"aliases">>, unalias |-> <<"aliases">>, recover |-> <<>>]

\* finally: what the handler marked as under way no longer is.
Ended(d, r) ==
  CASE r.kind = "invite"  -> [d EXCEPT !.creating = FALSE]
    [] r.kind = "delete"  -> [d EXCEPT !.deleting = FALSE]
    [] r.kind = "alias"   -> [d EXCEPT !.aliasing = FALSE]
    [] r.kind = "unalias" -> [d EXCEPT !.dropping = None]
    [] r.kind = "recover" -> [d EXCEPT !.recovering = FALSE]

\* The handler goes on: the next fetch, which is then the resource's last, or the end.
Resume(r, todo, d) ==
  IF todo = <<>>
  THEN /\ asks' = asks \ {r}
       /\ desk' = [desk EXCEPT ![r.by] = Ended(d, r)]
  ELSE /\ asks' = (asks \ {r}) \cup {[r EXCEPT !.at = "fetch", !.todo = todo, !.got = Unread]}
       /\ desk' = [desk EXCEPT ![r.by] = [d EXCEPT !.last[Head(todo)] = r.n]]

Succeeded(r) ==
  LET d == desk[r.by]
  IN CASE r.kind = "invite" -> [d EXCEPT !.created = r.of, !.known = @ \cup {r.of},
                                         !.mail[r.name] = r.of, !.made = @ \cup {r.of}]
       [] r.kind = "delete" -> [d EXCEPT !.confirm = None, !.removed = @ \cup {r.of}]
       [] OTHER             -> d

Answered(r) ==
  /\ \/ r.at = "done" /\ Resume(r, Refetches[r.kind], Succeeded(r))
     \/ r.at = "failed" /\ Resume(r, <<>>, desk[r.by])
  /\ UNCHANGED <<tables, claims, asked, crowd>>

\* The server answers a fetch with what there is now. The page catches a
\* failure: the list is then empty, the billing unknown. (After the last
\* request only the list's failures are followed.)
ServeFetch(r) ==
  /\ r.at = "fetch"
  /\ \E ok \in {TRUE} \cup {asked = MaxAsks /\ Head(r.todo) # "list"} :
        LET res == Head(r.todo)
        IN asks' = (asks \ {r}) \cup
             {[r EXCEPT !.at = "read",
                        !.got = [list |-> IF ok /\ res = "list" THEN Live ELSE {},
                                 aliases |-> IF ok /\ res = "aliases"
                                             THEN {a \in aliases : a.of \in Live} ELSE {},
                                 used |-> IF ok /\ res = "billing" THEN Cardinality(Live) ELSE None,
                                 ok |-> ok]]}
  /\ UNCHANGED <<tables, claims, desk, asked, crowd>>

\* The effect that selects a mailbox for aliases when none is selected.
Targets(d, list) == IF d.target = None /\ list # {} THEN list ELSE {d.target}

\* What the page may show once it takes the answer of a fetch.
ShownAnyway(d, r) ==
  CASE Head(r.todo) = "list" ->
         {[d EXCEPT !.list = r.got.list, !.fresh = r.got.ok, !.target = i] :
            i \in Targets(d, r.got.list)}
    [] Head(r.todo) = "aliases" -> {[d EXCEPT !.aliases = r.got.aliases]}
    [] Head(r.todo) = "billing" -> {[d EXCEPT !.used = r.got.used]}
\* Only the answer of the resource's last fetch counts.
Shown(d, r) == IF d.last[Head(r.todo)] = r.n THEN ShownAnyway(d, r) ELSE {d}

Fetched(r) ==
  /\ r.at = "read"
  /\ \E d \in Shown(desk[r.by], r) : Resume(r, Tail(r.todo), d)
  /\ UNCHANGED <<tables, claims, asked, crowd>>

-----------------------------------------------------------------------------
MailboxesPage ==
  [list |-> Managed, fresh |-> TRUE, aliases |-> {}, used |-> 1,
   last |-> [res \in Resources |-> 0], known |-> {}, mail |-> [a \in Addresses |-> None],
   created |-> None, confirm |-> None, target |-> 1, creating |-> FALSE, deleting |-> FALSE,
   aliasing |-> FALSE, dropping |-> None, recovering |-> FALSE, made |-> {}, removed |-> {}]

\* One active mailbox, at one of the addresses, and the pages have been loaded.
ProvisioningInit ==
  /\ box = [i \in Boxes |-> [addr |-> CHOOSE a \in Addresses : TRUE,
                              st |-> IF i \in Managed THEN "active" ELSE "none"]]
  /\ invites = [i \in Boxes |-> "none"]
  /\ aliases = {} /\ claims = {} /\ crowd = 0
  /\ desk = [g \in Admins |-> MailboxesPage]
  /\ asks = {} /\ asked = 0

(* The parts of the page. *)
CreationForm(g) == \E a \in Addresses : handleCreate(g, a)
InviteCard(g) == CreateAnother(g)
MailboxRows(g) ==
  \E i \in desk[g].list : setDeleteTargetMailbox(g, i) \/ setAliasTargetMailboxId(g, i)
DeleteModal(g) == CancelDelete(g) \/ handleDeleteMailbox(g)
RecoveryCard(g) == \E i \in Managed : handleRecovery(g, i)
AliasForm(g) == \E name \in AliasNames : handleCreateAlias(g, name)
AliasRows(g) == \E a \in desk[g].aliases : handleDeleteAlias(g, a)

AdminStep(g) ==
  \/ CreationForm(g) \/ InviteCard(g) \/ MailboxRows(g) \/ DeleteModal(g)
  \/ RecoveryCard(g) \/ AliasForm(g) \/ AliasRows(g)

AskStep(r) ==
  \/ CountMailboxes(r) \/ mailboxInviteHandler(r)
  \/ LockMailbox(r) \/ deleteMailbox(r) \/ DeadlockBroken(r)
  \/ LockAndCount(r) \/ mailboxAliasesHandler(r)
  \/ mailboxAliasItemHandler(r)
  \/ openMailboxSecret(r)
  \/ Refused(r)
  \/ Answered(r) \/ ServeFetch(r) \/ Fetched(r)

ClaimStep(i) == invitationClaimHandler(i) \/ ClaimFails(i)

ProvisioningNext ==
  \/ \E g \in Admins : AdminStep(g)
  \/ \E r \in asks : AskStep(r)
  \/ \E i \in Boxes : ClaimInvitation(i) \/ ClaimStep(i)

ProvisioningSpec == ProvisioningInit /\ [][ProvisioningNext]_provisioningVars

(* Every request is answered or fails in the end, and a transaction ends.  *)
ProvisioningFairness ==
  /\ WF_provisioningVars(\E r \in asks : AskStep(r))
  /\ WF_provisioningVars(\E i \in Boxes : ClaimStep(i))

-----------------------------------------------------------------------------
(* mailboxInviteHandler counts before it locks the organisation, so the    *)
(* plan's limit can be passed; but only by as many mailboxes as other      *)
(* invitations were between count and commit at the same time: whoever     *)
(* invites alone keeps to the plan, whatever its page believes.            *)
OverrunBounded ==
  Cardinality(Live) + Cardinality(Counted) <= SeatLimit + (IF crowd = 0 THEN 0 ELSE crowd - 1)

(* "concurrent creates cannot jointly overrun the limit": no mailbox ever  *)
(* has more active aliases than the plan allows (mailboxAliasesHandler).   *)
AliasQuotaKept == \A i \in Boxes : Cardinality(AliasesOf(i)) <= AliasLimit

(* A mailbox whose deletion the page was told of is never active again and *)
(* has no link that works, though claims ignore the mailbox's status.      *)
DeletedStaysGone ==
  \A g \in Admins : \A i \in desk[g].removed : box[i].st = "gone" /\ invites[i] # "live"

Loading(g, res) ==
  \E r \in asks : r.by = g /\ r.at \in {"fetch", "read"} /\ Head(r.todo) = res /\ desk[g].last[res] = r.n

(* Once the list has been fetched, it shows no mailbox the page was told   *)
(* was deleted and every one it was told was made, unless another deleted  *)
(* it: no answer of an earlier fetch is shown over a later one.            *)
OwnWritesShown ==
  \A g \in Admins :
    desk[g].fresh /\ ~Loading(g, "list") =>
      /\ desk[g].list \cap desk[g].removed = {}
      /\ desk[g].made \cap Live \subseteq desk[g].list

(* No handler of a page is under way, whatever rows its requests had to    *)
(* wait for.                                                               *)
PagesFree == \A g \in Admins : ~desk[g].creating /\ ~desk[g].deleting /\ ~desk[g].aliasing
=============================================================================
