----------------------------- MODULE Placement -----------------------------
(***************************************************************************)
(* Where the objects of one organisation are: the mapping of its mailboxes *)
(* to storage connections, the objects the mail router and the API hand to *)
(* the storage worker (services/storage-worker/main.go), and the migration *)
(* of a connection's objects to another provider with its retry and        *)
(* cutover (services/api/storage.go).                                      *)
(*                                                                         *)
(* A connection is its bucket; what the health of a connection depends on  *)
(* is module Storage. The target bucket of a migration is called after it. *)
(***************************************************************************)
EXTENDS Naturals, FiniteSets

CONSTANTS
  Mailboxes,     \* mailboxes the organisation may come to have
  Keys,          \* object keys, each drawn once
  BoxOf,         \* the mailbox in the prefix of each key
  Connections,   \* rows storage_connections may come to hold
  Migs,          \* rows storage_migrations may come to hold
  PrefixOf,      \* the mailboxes the object_prefix of a migration covers
  Default,       \* the storage worker's own storage
  NoConnection,  \* NULL
  NoMig,         \* "no migration" of an idle request
  Attempts,      \* concurrent migration requests
  MaxGlitches    \* bound on failed or abandoned calls

ASSUME PlacementAssumption ==
  /\ BoxOf \in [Keys -> Mailboxes]
  /\ PrefixOf \in [Migs -> SUBSET Mailboxes]
  /\ NoConnection \notin Connections
  /\ NoMig \notin Migs
  /\ Connections \cap Migs = {}
  /\ Default \notin Connections \cup Migs
  /\ MaxGlitches \in Nat

VARIABLES
  condition,  \* of each connection, "none" before its INSERT
  bucket,     \* where the objects of each connection are
  mapping,    \* mailbox_storage: the connection of each mailbox
  object,     \* the objects at each place
  store,      \* how far the storing of each key has come
  place,      \* where the storage worker puts it
  inbound,    \* keys the mail router stores; the others are the API's
  job,        \* status of each migration
  source,     \* its source_connection_id
  target,     \* its target_connection_id
  listed,     \* what its last listing of the source found
  attempt,    \* the migration requests in progress
  glitches    \* failures so far

connectionVars == <<condition, bucket, mapping>>
storeVars == <<store, place, inbound>>
jobVars == <<job, source, target, listed, attempt>>
placementVars == <<connectionVars, object, storeVars, jobVars, glitches>>

Places == Connections \cup Migs \cup {Default}
MaybeConn == Connections \cup {NoConnection}
AttemptStates ==
  [pc : {"idle", "listing", "copying", "ok", "bad"},
   mig : Migs \cup {NoMig}, from : Places, todo : SUBSET Keys]
NoAttempt == [pc |-> "idle", mig |-> NoMig, from |-> Default, todo |-> {}]

PlacementTypeOK ==
  /\ condition \in [Connections -> {"none", "active", "error", "deleted"}]
  /\ bucket \in [Connections -> Places]
  /\ mapping \in [Mailboxes -> MaybeConn]
  /\ object \in [Places -> SUBSET Keys]
  /\ store \in [Keys -> {"none", "resolved", "put", "row", "lost", "gone"}]
  /\ place \in [Keys -> Places]
  /\ inbound \in SUBSET Keys
  /\ job \in [Migs -> {"none", "running", "completed", "failed"}]
  /\ source \in [Migs -> MaybeConn]
  /\ target \in [Migs -> MaybeConn]
  /\ listed \in [Migs -> SUBSET Keys]
  /\ attempt \in [Attempts -> AttemptStates]
  /\ glitches \in 0..MaxGlitches

PlacementInit ==
  /\ condition = [c \in Connections |-> "none"]
  /\ bucket = [c \in Connections |-> Default]
  /\ mapping = [b \in Mailboxes |-> NoConnection]
  /\ object = [p \in Places |-> {}]
  /\ store = [k \in Keys |-> "none"]
  /\ place = [k \in Keys |-> Default]
  /\ inbound = {}
  /\ job = [m \in Migs |-> "none"]
  /\ source = [m \in Migs |-> NoConnection]
  /\ target = [m \in Migs |-> NoConnection]
  /\ listed = [m \in Migs |-> {}]
  /\ attempt = [r \in Attempts |-> NoAttempt]
  /\ glitches = 0

Glitch == glitches < MaxGlitches /\ glitches' = glitches + 1

-----------------------------------------------------------------------------
(* Connections and mailboxes.                                               *)

Connect(c, p) ==
  /\ condition[c] = "none"
  /\ condition' = [condition EXCEPT ![c] = "active"]
  /\ bucket' = [bucket EXCEPT ![c] = p]

createConnection(c) ==
  /\ \A d \in Connections : condition[d] # "active"
  /\ Connect(c, c)
  /\ UNCHANGED <<mapping, object, storeVars, jobVars, glitches>>

\* DELETE keeps the mailbox_storage rows; tests and the monitor move the status
\* between active and error.
ConnectionChanges(c, s) ==
  /\ condition[c] \in {"active", "error"} /\ s # condition[c]
  /\ condition' = [condition EXCEPT ![c] = s]
  /\ UNCHANGED <<bucket, mapping, object, storeVars, jobVars, glitches>>

mailboxesHandler(b, c) ==
  /\ mapping[b] = NoConnection
  /\ condition[c] = "active"
  /\ mapping' = [mapping EXCEPT ![b] = c]
  /\ UNCHANGED <<condition, bucket, object, storeVars, jobVars, glitches>>

-----------------------------------------------------------------------------
(* Storing an object: the worker resolves the mailbox, puts the object, and *)
(* the caller inserts the row. Keys are drawn from a sequence.              *)

Resolved(k, p) ==
  /\ store[k] = "none" /\ mapping[BoxOf[k]] # NoConnection
  /\ store' = [store EXCEPT ![k] = "resolved"]
  /\ place' = [place EXCEPT ![k] = p]
  /\ UNCHANGED <<connectionVars, object, jobVars>>

\* The mail router's request carries no mailbox_id.
storeCiphertext(k) ==
  /\ Resolved(k, Default)
  /\ inbound' = inbound \cup {k}
  /\ UNCHANGED glitches

\* Imported messages and attachments: 503 when the connection is not usable.
getStorageForMailbox(k) ==
  /\ \E c \in Connections :
       /\ c = mapping[BoxOf[k]] /\ condition[c] = "active"
       /\ Resolved(k, bucket[c])
  /\ UNCHANGED <<inbound, glitches>>

\* The worker cannot reach the database.
getStorageForMailbox_fallback(k) ==
  /\ Resolved(k, Default)
  /\ Glitch
  /\ UNCHANGED inbound

storeHandler(k) ==
  /\ store[k] = "resolved"
  /\ object' = [object EXCEPT ![place[k]] = @ \cup {k}]
  /\ store' = [store EXCEPT ![k] = "put"]
  /\ UNCHANGED <<connectionVars, place, inbound, jobVars, glitches>>

InsertRow(k) ==
  /\ store[k] = "put"
  /\ store' = [store EXCEPT ![k] = "row"]
  /\ UNCHANGED <<connectionVars, object, place, inbound, jobVars, glitches>>

StoreFails(k) ==
  /\ store[k] \in {"resolved", "put"}
  /\ Glitch
  /\ store' = [store EXCEPT ![k] = "lost"]
  /\ UNCHANGED <<connectionVars, object, place, inbound, jobVars>>

\* An attachment that is not linked is deleted where its mailbox is now.
deleteHandler(k) ==
  /\ store[k] = "row" /\ k \notin inbound
  /\ \E c \in Connections :
       /\ c = mapping[BoxOf[k]] /\ condition[c] = "active"
       /\ object' = [object EXCEPT ![bucket[c]] = @ \ {k}]
  /\ store' = [store EXCEPT ![k] = "gone"]
  /\ UNCHANGED <<connectionVars, place, inbound, jobVars, glitches>>

\* The worker cannot reach the database, and finds nothing to delete.
deleteHandler_fallback(k) ==
  /\ store[k] = "row" /\ k \notin inbound
  /\ Glitch
  /\ object' = [object EXCEPT ![Default] = @ \ {k}]
  /\ store' = [store EXCEPT ![k] = "gone"]
  /\ UNCHANGED <<connectionVars, place, inbound, jobVars>>

-----------------------------------------------------------------------------
(* The migration of a connection's objects.                                 *)

Start(r, m, c) ==
  /\ job' = [job EXCEPT ![m] = "running"]
  /\ attempt' = [attempt EXCEPT ![r] =
       [pc |-> "listing", mig |-> m, from |-> bucket[c], todo |-> {}]]

storageMigrationCopyHandler(r, m, c) ==
  /\ attempt[r].pc = "idle" /\ job[m] = "none"
  /\ condition[c] \in {"active", "error"}
  /\ source' = [source EXCEPT ![m] = c]
  /\ Start(r, m, c)
  /\ UNCHANGED <<connectionVars, object, storeVars, target, listed, glitches>>

\* Mutant: the status of the migration is not looked at.
RetryAnyStatus(r, m) ==
  /\ attempt[r].pc = "idle" /\ job[m] # "none"
  /\ \E c \in Connections : c = source[m] /\ condition[c] # "deleted" /\ Start(r, m, c)
  /\ UNCHANGED <<connectionVars, object, storeVars, source, target, listed, glitches>>

\* Under the row lock; the tombstone of a deleted source has no ciphertext.
storageMigrationRetryHandler(r, m) ==
  /\ attempt[r].pc = "idle" /\ job[m] = "failed"
  /\ \E c \in Connections : c = source[m] /\ condition[c] # "deleted" /\ Start(r, m, c)
  /\ UNCHANGED <<connectionVars, object, storeVars, source, target, listed, glitches>>

Under(m) == {k \in Keys : BoxOf[k] \in PrefixOf[m]}

migrateEncryptedHandler_list(r) ==
  /\ attempt[r].pc = "listing"
  /\ \E found \in {object[attempt[r].from] \cap Under(attempt[r].mig)} :
       /\ listed' = [listed EXCEPT ![attempt[r].mig] = found]
       /\ attempt' = [attempt EXCEPT ![r] =
            [pc |-> "copying", mig |-> attempt[r].mig, from |-> attempt[r].from,
             todo |-> found]]
  /\ UNCHANGED <<connectionVars, object, storeVars, job, source, target, glitches>>

\* Mutant: an object that cannot be read is skipped.
SkipUnreadable(r, k) ==
  /\ attempt[r].pc = "copying" /\ k \in attempt[r].todo
  /\ object' \in {object, [object EXCEPT ![attempt[r].mig] = @ \cup {k}]}
  /\ attempt' = [attempt EXCEPT ![r] =
       [pc |-> "copying", mig |-> attempt[r].mig, from |-> attempt[r].from,
        todo |-> attempt[r].todo \ {k}]]
  /\ UNCHANGED <<connectionVars, storeVars, job, source, target, listed, glitches>>

\* One object is read, written and its size verified.
migrateEncryptedHandler_copy(r, k) ==
  /\ attempt[r].pc = "copying" /\ k \in attempt[r].todo
  /\ k \in object[attempt[r].from]
  /\ object' = [object EXCEPT ![attempt[r].mig] = @ \cup {k}]
  /\ attempt' = [attempt EXCEPT ![r] =
       [pc |-> "copying", mig |-> attempt[r].mig, from |-> attempt[r].from,
        todo |-> attempt[r].todo \ {k}]]
  /\ UNCHANGED <<connectionVars, storeVars, job, source, target, listed, glitches>>

Answer(r, pc) ==
  /\ attempt' = [attempt EXCEPT ![r] =
       [pc |-> pc, mig |-> attempt[r].mig, from |-> attempt[r].from, todo |-> {}]]
  /\ UNCHANGED <<connectionVars, object, storeVars, job, source, target, listed>>

Copied(r) ==
  /\ attempt[r].pc = "copying" /\ attempt[r].todo = {}
  /\ Answer(r, "ok")
  /\ UNCHANGED glitches

\* The object was deleted after the listing.
SourceReadFails(r) ==
  /\ attempt[r].pc = "copying" /\ ~(attempt[r].todo \subseteq object[attempt[r].from])
  /\ Answer(r, "bad")
  /\ UNCHANGED glitches

CopyFails(r) ==
  /\ attempt[r].pc \in {"listing", "copying"}
  /\ Glitch
  /\ Answer(r, "bad")

RecordOutcome(r) ==
  /\ attempt[r].pc \in {"ok", "bad"}
  /\ job' = [job EXCEPT ![attempt[r].mig] =
       IF attempt[r].pc = "ok" THEN "completed" ELSE "failed"]
  /\ attempt' = [attempt EXCEPT ![r] = NoAttempt]
  /\ UNCHANGED <<connectionVars, object, storeVars, source, target, listed, glitches>>

\* The API restarts, its client goes away, or the five minutes are over: the
\* UPDATE that follows uses the same context, and its error is not looked at.
MigrationRequestLost(r) ==
  /\ attempt[r].pc # "idle"
  /\ Glitch
  /\ attempt' = [attempt EXCEPT ![r] = NoAttempt]
  /\ UNCHANGED <<connectionVars, object, storeVars, job, source, target, listed>>

Switch(m, c) ==
  /\ Connect(c, m)
  /\ mapping' = [b \in Mailboxes |->
       IF mapping[b] = source[m] THEN c ELSE mapping[b]]
  /\ target' = [target EXCEPT ![m] = c]
  /\ UNCHANGED <<object, storeVars, job, source, listed, attempt, glitches>>

\* Mutant: an unfinished migration can be cut over.
CutoverAnyStatus(m, c) ==
  /\ target[m] = NoConnection
  /\ job[m] # "none"
  /\ Switch(m, c)

\* Mutant: a second cutover is not recognised.
CutoverAgain(m, c) ==
  /\ job[m] = "completed"
  /\ Switch(m, c)

\* One transaction under the organisation's and the migration's row locks.
storageMigrationCutoverHandler(m, c) ==
  /\ target[m] = NoConnection
  /\ job[m] = "completed"
  /\ Switch(m, c)

-----------------------------------------------------------------------------
StoreStep(k) ==
  \/ storeCiphertext(k)
  \/ getStorageForMailbox(k)
  \/ getStorageForMailbox_fallback(k)
  \/ storeHandler(k)
  \/ InsertRow(k)
  \/ StoreFails(k)
  \/ deleteHandler(k)
  \/ deleteHandler_fallback(k)

MigrationStep(r) ==
  \/ \E m \in Migs, c \in Connections : storageMigrationCopyHandler(r, m, c)
  \/ \E m \in Migs : storageMigrationRetryHandler(r, m)
  \/ migrateEncryptedHandler_list(r)
  \/ \E k \in Keys : migrateEncryptedHandler_copy(r, k)
  \/ Copied(r)
  \/ SourceReadFails(r)
  \/ CopyFails(r)
  \/ RecordOutcome(r)
  \/ MigrationRequestLost(r)

PlacementNext ==
  \/ \E c \in Connections : createConnection(c)
  \/ \E c \in Connections, s \in {"active", "error", "deleted"} : ConnectionChanges(c, s)
  \/ \E b \in Mailboxes, c \in Connections : mailboxesHandler(b, c)
  \/ \E k \in Keys : StoreStep(k)
  \/ \E r \in Attempts : MigrationStep(r)
  \/ \E m \in Migs, c \in Connections : storageMigrationCutoverHandler(m, c)

PlacementSpec == PlacementInit /\ [][PlacementNext]_placementVars

-----------------------------------------------------------------------------
(* What migration and placement promise.                                    *)

\* A migration that is reported as completed has copied every object that its
\* listing of the source found and that has not been deleted since, whatever
\* attempts failed before.
CompletedIsCopied ==
  \A m \in Migs : job[m] = "completed" =>
    \A k \in listed[m] : k \in object[m] \/ store[k] = "gone"

\* A completed migration stays completed: no request that started earlier or is
\* repeated reports it as running or failed again.
CompletedStays ==
  [][\A m \in Migs : job[m] = "completed" => job'[m] = "completed"]_placementVars

\* Cutover loses nothing that the listing found: a mailbox that was switched
\* finds those of its objects in the bucket it reads from now.
CutoverKeepsListed ==
  \A m \in Migs, b \in Mailboxes :
    target[m] # NoConnection /\ mapping[b] = target[m] =>
      \A k \in listed[m] : BoxOf[k] = b =>
        k \in object[bucket[mapping[b]]] \/ store[k] = "gone"

\* Cutover is idempotent: a migration gives rise to one connection only.
CutoverOnce ==
  \A m \in Migs :
    Cardinality({c \in Connections : condition[c] # "none" /\ bucket[c] = m}) <= 1
=============================================================================
