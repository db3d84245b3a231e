-------------------------- MODULE PlacementProofs --------------------------
(***************************************************************************)
(* Theorems about Placement, for every set of mailboxes, objects,          *)
(* connections, migrations and concurrent requests, and every number of    *)
(* failures.                                                               *)
(***************************************************************************)
EXTENDS Placement, FiniteSetTheorems, TLAPS

-----------------------------------------------------------------------------
(* The inductive invariant. That a completed migration stays completed, and *)
(* that its copy is complete, both rest on one request at a time working on *)
(* a migration: the status "running" is what keeps a second one away.       *)

\* A request under way works on a migration that is running.
Working ==
  \A r \in Attempts : attempt[r].pc # "idle" =>
    attempt[r].mig \in Migs /\ job[attempt[r].mig] = "running"

\* No two requests work on one migration.
Alone ==
  \A r, s \in Attempts :
    attempt[r].pc # "idle" /\ attempt[s].pc # "idle" /\ attempt[r].mig = attempt[s].mig => r = s

\* What has been listed is copied, deleted, or still to be copied.
Copying ==
  \A r \in Attempts : attempt[r].pc \in {"copying", "ok"} =>
    \A k \in listed[attempt[r].mig] :
      \/ k \in object[attempt[r].mig]
      \/ store[k] = "gone"
      \/ attempt[r].pc = "copying" /\ k \in attempt[r].todo

\* The target connection of a migration is the one with its bucket, and is
\* only there once the copy is complete.
Switched ==
  /\ \A m \in Migs : target[m] # NoConnection =>
       job[m] = "completed" /\ bucket[target[m]] = m /\ condition[target[m]] # "none"
  /\ \A c \in Connections : condition[c] # "none" /\ bucket[c] \in Migs =>
       target[bucket[c]] = c

PlacementInv ==
  /\ PlacementTypeOK
  /\ Working
  /\ Alone
  /\ Copying
  /\ CompletedIsCopied
  /\ Switched

\* Storing and deleting objects and changing connections keep the invariant:
\* no object leaves a migration's bucket unless it is deleted, and no
\* connection gets the bucket of a migration.
LEMMA Frame ==
  ASSUME PlacementInv, PlacementTypeOK', UNCHANGED jobVars,
         \A m \in Migs : \A k \in object[m] : k \in object'[m] \/ store'[k] = "gone",
         \A k \in Keys : store[k] = "gone" => store'[k] = "gone",
         \A c \in Connections : condition[c] # "none" =>
           condition'[c] # "none" /\ bucket'[c] = bucket[c],
         \A c \in Connections : condition[c] = "none" /\ condition'[c] # "none" =>
           bucket'[c] \notin Migs
  PROVE  PlacementInv'
<1> USE PlacementAssumption
    DEF PlacementInv, PlacementTypeOK, jobVars, Places, MaybeConn, AttemptStates
<1>1. Working' /\ Alone'
  BY DEF Working, Alone
<1>2. Copying'
  BY DEF Copying, Working
<1>3. CompletedIsCopied'
  BY DEF CompletedIsCopied
<1>4. Switched'
  BY DEF Switched
<1> QED
  BY <1>1, <1>2, <1>3, <1>4

\* Every step keeps the invariant.
LEMMA PlacementStep == PlacementInv /\ [PlacementNext]_placementVars => PlacementInv'
<1> SUFFICES ASSUME PlacementInv, [PlacementNext]_placementVars PROVE PlacementInv'
  OBVIOUS
<1> USE PlacementAssumption
    DEF PlacementInv, PlacementTypeOK, Places, MaybeConn, AttemptStates, jobVars,
        connectionVars, storeVars
<1>1. ASSUME NEW c \in Connections, createConnection(c)
      PROVE  PlacementInv'
  <2>1. PlacementTypeOK'
    BY <1>1 DEF createConnection, Connect
  <2> QED
    BY <1>1, <2>1, Frame DEF createConnection, Connect
<1>2. ASSUME NEW c \in Connections, NEW s \in {"active", "error", "deleted"}, ConnectionChanges(c, s)
      PROVE  PlacementInv'
  <2>1. PlacementTypeOK'
    BY <1>2 DEF ConnectionChanges
  <2> QED
    BY <1>2, <2>1, Frame DEF ConnectionChanges
<1>3. ASSUME NEW b \in Mailboxes, NEW c \in Connections, mailboxesHandler(b, c)
      PROVE  PlacementInv'
  <2>1. PlacementTypeOK'
    BY <1>3 DEF mailboxesHandler
  <2> QED
    BY <1>3, <2>1, Frame DEF mailboxesHandler
<1>4. ASSUME NEW k \in Keys, storeCiphertext(k)
      PROVE  PlacementInv'
  <2>1. PlacementTypeOK'
    BY <1>4 DEF storeCiphertext, Resolved
  <2> QED
    BY <1>4, <2>1, Frame DEF storeCiphertext, Resolved
<1>5. ASSUME NEW k \in Keys, getStorageForMailbox(k)
      PROVE  PlacementInv'
  <2>1. PlacementTypeOK'
    BY <1>5 DEF getStorageForMailbox, Resolved
  <2> QED
    BY <1>5, <2>1, Frame DEF getStorageForMailbox, Resolved
<1>6. ASSUME NEW k \in Keys, getStorageForMailbox_fallback(k)
      PROVE  PlacementInv'
  <2>1. PlacementTypeOK'
    BY <1>6 DEF getStorageForMailbox_fallback, Resolved, Glitch
  <2> QED
    BY <1>6, <2>1, Frame DEF getStorageForMailbox_fallback, Resolved, Glitch
<1>7. ASSUME NEW k \in Keys, storeHandler(k)
      PROVE  PlacementInv'
  <2>1. PlacementTypeOK'
    BY <1>7 DEF storeHandler
  <2> QED
    BY <1>7, <2>1, Frame DEF storeHandler
<1>8. ASSUME NEW k \in Keys, InsertRow(k)
      PROVE  PlacementInv'
  <2>1. PlacementTypeOK'
    BY <1>8 DEF InsertRow
  <2> QED
    BY <1>8, <2>1, Frame DEF InsertRow
<1>9. ASSUME NEW k \in Keys, StoreFails(k)
      PROVE  PlacementInv'
  <2>1. PlacementTypeOK'
    BY <1>9 DEF StoreFails, Glitch
  <2> QED
    BY <1>9, <2>1, Frame DEF StoreFails, Glitch
<1>10. ASSUME NEW k \in Keys, deleteHandler(k)
      PROVE  PlacementInv'
  <2>1. PlacementTypeOK'
    BY <1>10 DEF deleteHandler
  <2> QED
    BY <1>10, <2>1, Frame DEF deleteHandler
<1>11. ASSUME NEW k \in Keys, deleteHandler_fallback(k)
      PROVE  PlacementInv'
  <2>1. PlacementTypeOK'
    BY <1>11 DEF deleteHandler_fallback, Glitch
  <2> QED
    BY <1>11, <2>1, Frame DEF deleteHandler_fallback, Glitch
<1>12. ASSUME NEW r \in Attempts, NEW m \in Migs, NEW c \in Connections, storageMigrationCopyHandler(r, m, c)
      PROVE  PlacementInv'
  <2>1. PlacementTypeOK'
    BY <1>12 DEF storageMigrationCopyHandler, Start, Working
  <2>2. Working'
    BY <1>12, <2>1 DEF storageMigrationCopyHandler, Start, Working, Alone
  <2>3. Alone'
    BY <1>12, <2>1 DEF storageMigrationCopyHandler, Start, Working, Alone
  <2>4. Copying'
    BY <1>12, <2>1 DEF storageMigrationCopyHandler, Start, Working, Alone, Copying
  <2>5. CompletedIsCopied'
    BY <1>12, <2>1 DEF storageMigrationCopyHandler, Start, Working, Copying, CompletedIsCopied
  <2>6. Switched'
    BY <1>12, <2>1 DEF storageMigrationCopyHandler, Start, Working, Switched
  <2> QED
    BY <2>1, <2>2, <2>3, <2>4, <2>5, <2>6
<1>13. ASSUME NEW r \in Attempts, NEW m \in Migs, storageMigrationRetryHandler(r, m)
      PROVE  PlacementInv'
  <2>1. PlacementTypeOK'
    BY <1>13 DEF storageMigrationRetryHandler, Start, Working
  <2>2. Working'
    BY <1>13, <2>1 DEF storageMigrationRetryHandler, Start, Working, Alone
  <2>3. Alone'
    BY <1>13, <2>1 DEF storageMigrationRetryHandler, Start, Working, Alone
  <2>4. Copying'
    BY <1>13, <2>1 DEF storageMigrationRetryHandler, Start, Working, Alone, Copying
  <2>5. CompletedIsCopied'
    BY <1>13, <2>1 DEF storageMigrationRetryHandler, Start, Working, Copying, CompletedIsCopied
  <2>6. Switched'
    BY <1>13, <2>1 DEF storageMigrationRetryHandler, Start, Working, Switched
  <2> QED
    BY <2>1, <2>2, <2>3, <2>4, <2>5, <2>6
<1>14. ASSUME NEW r \in Attempts, migrateEncryptedHandler_list(r)
      PROVE  PlacementInv'
  <2>1. PlacementTypeOK'
    BY <1>14 DEF migrateEncryptedHandler_list, Under, Working
  <2>2. Working'
    BY <1>14, <2>1 DEF migrateEncryptedHandler_list, Under, Working, Alone
  <2>3. Alone'
    BY <1>14, <2>1 DEF migrateEncryptedHandler_list, Under, Working, Alone
  <2>4. Copying'
    BY <1>14, <2>1 DEF migrateEncryptedHandler_list, Under, Working, Alone, Copying
  <2>5. CompletedIsCopied'
    BY <1>14, <2>1 DEF migrateEncryptedHandler_list, Under, Working, Copying, CompletedIsCopied
  <2>6. Switched'
    BY <1>14, <2>1 DEF migrateEncryptedHandler_list, Under, Working, Switched
  <2> QED
    BY <2>1, <2>2, <2>3, <2>4, <2>5, <2>6
<1>15. ASSUME NEW r \in Attempts, NEW k \in Keys, migrateEncryptedHandler_copy(r, k)
      PROVE  PlacementInv'
  <2>1. PlacementTypeOK'
    BY <1>15 DEF migrateEncryptedHandler_copy, Working
  <2>2. Working'
    BY <1>15, <2>1 DEF migrateEncryptedHandler_copy, Working, Alone
  <2>3. Alone'
    BY <1>15, <2>1 DEF migrateEncryptedHandler_copy, Working, Alone
  <2>4. Copying'
    BY <1>15, <2>1 DEF migrateEncryptedHandler_copy, Working, Alone, Copying
  <2>5. CompletedIsCopied'
    BY <1>15, <2>1 DEF migrateEncryptedHandler_copy, Working, Copying, CompletedIsCopied
  <2>6. Switched'
    BY <1>15, <2>1 DEF migrateEncryptedHandler_copy, Working, Switched
  <2> QED
    BY <2>1, <2>2, <2>3, <2>4, <2>5, <2>6
<1>16. ASSUME NEW r \in Attempts, Copied(r)
      PROVE  PlacementInv'
  <2>1. PlacementTypeOK'
    BY <1>16 DEF Copied, Answer, Working
  <2>2. Working'
    BY <1>16, <2>1 DEF Copied, Answer, Working, Alone
  <2>3. Alone'
    BY <1>16, <2>1 DEF Copied, Answer, Working, Alone
  <2>4. Copying'
    BY <1>16, <2>1 DEF Copied, Answer, Working, Alone, Copying
  <2>5. CompletedIsCopied'
    BY <1>16, <2>1 DEF Copied, Answer, Working, Copying, CompletedIsCopied
  <2>6. Switched'
    BY <1>16, <2>1 DEF Copied, Answer, Working, Switched
  <2> QED
    BY <2>1, <2>2, <2>3, <2>4, <2>5, <2>6
<1>17. ASSUME NEW r \in Attempts, SourceReadFails(r)
      PROVE  PlacementInv'
  <2>1. PlacementTypeOK'
    BY <1>17 DEF SourceReadFails, Answer, Working
  <2>2. Working'
    BY <1>17, <2>1 DEF SourceReadFails, Answer, Working, Alone
  <2>3. Alone'
    BY <1>17, <2>1 DEF SourceReadFails, Answer, Working, Alone
  <2>4. Copying'
    BY <1>17, <2>1 DEF SourceReadFails, Answer, Working, Alone, Copying
  <2>5. CompletedIsCopied'
    BY <1>17, <2>1 DEF SourceReadFails, Answer, Working, Copying, CompletedIsCopied
  <2>6. Switched'
    BY <1>17, <2>1 DEF SourceReadFails, Answer, Working, Switched
  <2> QED
    BY <2>1, <2>2, <2>3, <2>4, <2>5, <2>6
<1>18. ASSUME NEW r \in Attempts, CopyFails(r)
      PROVE  PlacementInv'
  <2>1. PlacementTypeOK'
    BY <1>18 DEF CopyFails, Answer, Glitch, Working
  <2>2. Working'
    BY <1>18, <2>1 DEF CopyFails, Answer, Glitch, Working, Alone
  <2>3. Alone'
    BY <1>18, <2>1 DEF CopyFails, Answer, Glitch, Working, Alone
  <2>4. Copying'
    BY <1>18, <2>1 DEF CopyFails, Answer, Glitch, Working, Alone, Copying
  <2>5. CompletedIsCopied'
    BY <1>18, <2>1 DEF CopyFails, Answer, Glitch, Working, Copying, CompletedIsCopied
  <2>6. Switched'
    BY <1>18, <2>1 DEF CopyFails, Answer, Glitch, Working, Switched
  <2> QED
    BY <2>1, <2>2, <2>3, <2>4, <2>5, <2>6
<1>19. ASSUME NEW r \in Attempts, RecordOutcome(r)
      PROVE  PlacementInv'
  <2>1. PlacementTypeOK'
    BY <1>19 DEF RecordOutcome, NoAttempt, Working
  <2>2. Working'
    BY <1>19, <2>1 DEF RecordOutcome, NoAttempt, Working, Alone
  <2>3. Alone'
    BY <1>19, <2>1 DEF RecordOutcome, NoAttempt, Working, Alone
  <2>4. Copying'
    BY <1>19, <2>1 DEF RecordOutcome, NoAttempt, Working, Alone, Copying
  <2>5. CompletedIsCopied'
    BY <1>19, <2>1 DEF RecordOutcome, NoAttempt, Working, Copying, CompletedIsCopied
  <2>6. Switched'
    BY <1>19, <2>1 DEF RecordOutcome, NoAttempt, Working, Switched
  <2> QED
    BY <2>1, <2>2, <2>3, <2>4, <2>5, <2>6
<1>20. ASSUME NEW r \in Attempts, MigrationRequestLost(r)
      PROVE  PlacementInv'
  <2>1. PlacementTypeOK'
    BY <1>20 DEF MigrationRequestLost, NoAttempt, Glitch, Working
  <2>2. Working'
    BY <1>20, <2>1 DEF MigrationRequestLost, NoAttempt, Glitch, Working, Alone
  <2>3. Alone'
    BY <1>20, <2>1 DEF MigrationRequestLost, NoAttempt, Glitch, Working, Alone
  <2>4. Copying'
    BY <1>20, <2>1 DEF MigrationRequestLost, NoAttempt, Glitch, Working, Alone, Copying
  <2>5. CompletedIsCopied'
    BY <1>20, <2>1 DEF MigrationRequestLost, NoAttempt, Glitch, Working, Copying, CompletedIsCopied
  <2>6. Switched'
    BY <1>20, <2>1 DEF MigrationRequestLost, NoAttempt, Glitch, Working, Switched
  <2> QED
    BY <2>1, <2>2, <2>3, <2>4, <2>5, <2>6
<1>21. ASSUME NEW m \in Migs, NEW c \in Connections, storageMigrationCutoverHandler(m, c)
      PROVE  PlacementInv'
  <2>1. PlacementTypeOK'
    BY <1>21 DEF storageMigrationCutoverHandler, Switch, Connect, Working
  <2>2. Working'
    BY <1>21, <2>1 DEF storageMigrationCutoverHandler, Switch, Connect, Working, Alone
  <2>3. Alone'
    BY <1>21, <2>1 DEF storageMigrationCutoverHandler, Switch, Connect, Working, Alone
  <2>4. Copying'
    BY <1>21, <2>1 DEF storageMigrationCutoverHandler, Switch, Connect, Working, Alone, Copying
  <2>5. CompletedIsCopied'
    BY <1>21, <2>1 DEF storageMigrationCutoverHandler, Switch, Connect, Working, Copying, CompletedIsCopied
  <2>6. Switched'
    BY <1>21, <2>1 DEF storageMigrationCutoverHandler, Switch, Connect, Working, Switched
  <2> QED
    BY <2>1, <2>2, <2>3, <2>4, <2>5, <2>6
<1>22. CASE UNCHANGED placementVars
  <2>1. PlacementTypeOK'
    BY <1>22 DEF placementVars
  <2> QED
    BY <1>22, <2>1, Frame DEF placementVars
<1> HIDE DEF PlacementInv, PlacementTypeOK, Places, MaybeConn, AttemptStates, jobVars,
      connectionVars, storeVars
<1>23. CASE \E k \in Keys : StoreStep(k)
  BY <1>23, <1>4, <1>5, <1>6, <1>7, <1>8, <1>9, <1>10, <1>11 DEF StoreStep
<1>24. CASE \E r \in Attempts : MigrationStep(r)
  BY <1>24, <1>12, <1>13, <1>14, <1>15, <1>16, <1>17, <1>18, <1>19, <1>20 DEF MigrationStep
<1> QED
  BY <1>1, <1>2, <1>3, <1>21, <1>22, <1>23, <1>24 DEF PlacementNext

\* The invariant holds in every reachable state.
LEMMA PlacementAlways == PlacementSpec => []PlacementInv
<1>1. PlacementInit => PlacementInv
  BY PlacementAssumption
  DEF PlacementInit, PlacementInv, PlacementTypeOK, Places, MaybeConn, AttemptStates,
      NoAttempt, Working, Alone, Copying, CompletedIsCopied, Switched
<1> QED
  BY <1>1, PlacementStep, PTL DEF PlacementSpec

\* The placement of objects and its migrations are type correct.
THEOREM PlacementTypeCorrect == PlacementSpec => []PlacementTypeOK
<1>1. PlacementInv => PlacementTypeOK
  BY DEF PlacementInv
<1> QED
  BY <1>1, PlacementAlways, PTL

-----------------------------------------------------------------------------
(* The theorems.                                                            *)

\* A completed migration has copied everything its listing found, for any
\* number of failed attempts before it and of requests beside it.
THEOREM CopyComplete == PlacementSpec => []CompletedIsCopied
<1>1. PlacementInv => CompletedIsCopied
  BY DEF PlacementInv
<1> QED
  BY <1>1, PlacementAlways, PTL

\* A mailbox that was switched to the target of a migration reads there every
\* object that the migration's listing found.
THEOREM NothingListedLost == PlacementSpec => []CutoverKeepsListed
<1>1. PlacementInv => CutoverKeepsListed
  BY PlacementAssumption
  DEF PlacementInv, PlacementTypeOK, Switched, CompletedIsCopied,
      CutoverKeepsListed, MaybeConn
<1> QED
  BY <1>1, PlacementAlways, PTL

\* Cutover is idempotent: a repeated or concurrent cutover of a migration makes
\* no second connection.
THEOREM OneTarget == PlacementSpec => []CutoverOnce
<1>1. PlacementInv => CutoverOnce
  <2> SUFFICES ASSUME PlacementInv, NEW m \in Migs
               PROVE  Cardinality({c \in Connections : condition[c] # "none" /\ bucket[c] = m}) <= 1
    BY DEF CutoverOnce
  <2> DEFINE S == {c \in Connections : condition[c] # "none" /\ bucket[c] = m}
  <2>1. S \subseteq {target[m]}
    BY DEF PlacementInv, Switched
  <2>2. S = {} \/ S = {target[m]}
    BY <2>1
  <2>3. Cardinality({}) = 0 /\ Cardinality({target[m]}) = 1
    BY FS_EmptySet, FS_Singleton
  <2>4. Cardinality(S) <= 1
    BY <2>2, <2>3
  <2> QED
    BY <2>4
<1> QED
  BY <1>1, PlacementAlways, PTL

\* No request, late or repeated, takes a completed migration back.
THEOREM CompletedIsFinal == PlacementSpec => CompletedStays
<1> DEFINE Stays == \A m \in Migs : job[m] = "completed" => job'[m] = "completed"
<1>1. PlacementInv /\ [PlacementNext]_placementVars => [Stays]_placementVars
  <2> SUFFICES ASSUME PlacementInv, PlacementNext, NEW m \in Migs,
                      job[m] = "completed"
               PROVE  job'[m] = "completed"
    OBVIOUS
  <2> USE DEF PlacementInv, PlacementTypeOK, AttemptStates
  <2>1. ASSUME NEW r \in Attempts, MigrationStep(r) PROVE job'[m] = "completed"
    <3>1. CASE RecordOutcome(r)
      BY <3>1 DEF RecordOutcome, Working
    <3>2. CASE UNCHANGED job
      BY <3>2
    <3>3. CASE \E n \in Migs, c \in Connections : storageMigrationCopyHandler(r, n, c)
      BY <3>3 DEF storageMigrationCopyHandler, Start
    <3>4. CASE \E n \in Migs : storageMigrationRetryHandler(r, n)
      BY <3>4 DEF storageMigrationRetryHandler, Start
    <3> QED
      BY <2>1, <3>1, <3>2, <3>3, <3>4
      DEF MigrationStep, migrateEncryptedHandler_list, migrateEncryptedHandler_copy,
          Copied, SourceReadFails, CopyFails, Answer, MigrationRequestLost
  <2>2. CASE \E k \in Keys : StoreStep(k)
    BY <2>2
    DEF StoreStep, storeCiphertext, getStorageForMailbox, Resolved,
        getStorageForMailbox_fallback, storeHandler, InsertRow, StoreFails,
        deleteHandler, deleteHandler_fallback, jobVars
  <2>3. CASE \E n \in Migs, c \in Connections : storageMigrationCutoverHandler(n, c)
    BY <2>3 DEF storageMigrationCutoverHandler, Switch
  <2> QED
    BY <2>1, <2>2, <2>3
    DEF PlacementNext, createConnection, ConnectionChanges,
        mailboxesHandler, jobVars
<1> QED
  BY <1>1, PlacementAlways, PTL DEF PlacementSpec, CompletedStays
=============================================================================
