--------------------------- MODULE InboundProofs ---------------------------
(***************************************************************************)
(* Theorems about Inbound, for every set of messages, addresses, mailboxes *)
(* and concurrent requests, every pool and every number of failures.       *)
(***************************************************************************)
EXTENDS Inbound, FiniteSetTheorems, TLAPS

USE DEF MtaStates, Locking, Open, Pcs

-----------------------------------------------------------------------------
(* Type correctness, which is inductive by itself.                          *)

\* Every step of the bridge, the router and the environment keeps the types.
LEMMA TypeStep == TypeOK /\ [Next]_vars => TypeOK'
<1> SUFFICES ASSUME TypeOK, [Next]_vars PROVE TypeOK'
  OBVIOUS
<1> USE ConstantsAssumption DEF TypeOK, smtpVars, requestVars, taskVars,
        dbVars, replyVars
<1>1. ASSUME NEW e \in Env, Data(e)
      PROVE  TypeOK'
  BY <1>1 DEF Data
<1>2. ASSUME NEW e \in Env, checkRspamd_unavailable(e)
      PROVE  TypeOK'
  BY <1>2 DEF checkRspamd_unavailable, Glitch
<1>3. ASSUME NEW e \in Env, checkRspamd_reject(e)
      PROVE  TypeOK'
  BY <1>3 DEF checkRspamd_reject
<1>4. ASSUME NEW h \in Handlers, NEW e \in Env, inboundHandler(h, e)
      PROVE  TypeOK'
  BY <1>4 DEF inboundHandler
<1>5. ASSUME NEW h \in Handlers, CallTimeout(h)
      PROVE  TypeOK'
  BY <1>5 DEF CallTimeout, Glitch
<1>6. ASSUME NEW h \in Handlers, inboundReply(h)
      PROVE  TypeOK'
  BY <1>6 DEF inboundReply, EndRequest, Finished, AllStored, NoTasks, NoSeqs
<1>7. ASSUME NEW h \in Handlers, NEW a \in Addr, processRecipient_begin(h, a)
      PROVE  TypeOK'
  BY <1>7 DEF processRecipient_begin, At, Goto
<1>8. ASSUME NEW h \in Handlers, NEW a \in Addr, lookupMailboxRoute(h, a)
      PROVE  TypeOK'
  BY <1>8 DEF lookupMailboxRoute, At, Goto
<1>9. ASSUME NEW h \in Handlers, NEW a \in Addr, processRecipient_lock(h, a)
      PROVE  TypeOK'
  BY <1>9 DEF processRecipient_lock, Locked, At, Goto
<1>10. ASSUME NEW h \in Handlers, NEW a \in Addr, processRecipient_duplicate(h, a)
      PROVE  TypeOK'
  BY <1>10 DEF processRecipient_duplicate, At, Goto
<1>11. ASSUME NEW h \in Handlers, NEW a \in Addr, processRecipient_new(h, a)
      PROVE  TypeOK'
  BY <1>11 DEF processRecipient_new, At, Goto
<1>12. ASSUME NEW h \in Handlers, NEW a \in Addr, storeCiphertext(h, a)
      PROVE  TypeOK'
  <2>1. tseq[h][a] \in Nat
    OBVIOUS
  <2>2. objects' = objects \cup {tseq[h][a]}
    BY <1>12 DEF storeCiphertext
  <2>3. objects' \in SUBSET Nat
    BY <2>1, <2>2
  <2> QED
    BY <1>12, <2>3 DEF storeCiphertext, At, Goto
<1>13. ASSUME NEW h \in Handlers, NEW a \in Addr, processRecipient_insert(h, a)
      PROVE  TypeOK'
  <2>1. CASE row[BoxOf[a]][req[h]] = 0
    <3>1. /\ req[h] # NoEnv /\ task[h][a] = "insert"
          /\ row' = [row EXCEPT ![BoxOf[a]][req[h]] = tseq[h][a]]
          /\ auto' = [auto EXCEPT ![BoxOf[a]][req[h]] = "check"]
          /\ task' = [task EXCEPT ![h][a] = "done"]
      BY <1>13, <2>1 DEF processRecipient_insert, At, Goto
    <3> QED
      BY <1>13, <2>1, <3>1 DEF processRecipient_insert
  <2>2. CASE row[BoxOf[a]][req[h]] # 0
    <3>1. /\ req[h] # NoEnv /\ task[h][a] = "insert"
          /\ row' = row /\ auto' = auto
          /\ task' = [task EXCEPT ![h][a] = "failed"]
      BY <1>13, <2>2 DEF processRecipient_insert, At, Goto
    <3> QED
      BY <1>13, <2>2, <3>1 DEF processRecipient_insert
  <2> QED
    BY <2>1, <2>2
<1>14. ASSUME NEW h \in Handlers, NEW a \in Addr, storeCiphertext_lost(h, a)
      PROVE  TypeOK'
  <2>1. tseq[h][a] \in Nat
    OBVIOUS
  <2>2. objects' = objects \cup {tseq[h][a]}
    BY <1>14 DEF storeCiphertext_lost
  <2>3. objects' \in SUBSET Nat
    BY <2>1, <2>2
  <2> QED
    BY <1>14, <2>3 DEF storeCiphertext_lost, MayFail, Glitch, At, Goto
<1>15. ASSUME NEW h \in Handlers, NEW a \in Addr, processRecipient_commit_lost(h, a)
      PROVE  TypeOK'
  BY <1>15 DEF processRecipient_commit_lost, MayFail, Glitch, At, Goto
<1>16. ASSUME NEW h \in Handlers, NEW a \in Addr, processRecipient_error(h, a)
      PROVE  TypeOK'
  BY <1>16 DEF processRecipient_error, MayFail, Glitch, At, Goto
<1>17. ASSUME NEW b \in Boxes, NEW e \in Env, evaluateAutoReply(b, e)
      PROVE  TypeOK'
  BY <1>17 DEF evaluateAutoReply
<1>18. ASSUME NEW b \in Boxes, NEW e \in Env, evaluateAutoReply_log(b, e)
      PROVE  TypeOK'
  BY <1>18 DEF evaluateAutoReply_log
<1>19. ASSUME NEW b \in Boxes, NEW e \in Env, evaluateAutoReply_error(b, e)
      PROVE  TypeOK'
  BY <1>19 DEF evaluateAutoReply_error, Glitch
<1>20. ASSUME NEW b \in Boxes, deleteMailbox(b)
      PROVE  TypeOK'
  BY <1>20 DEF deleteMailbox
<1>21. ASSUME RouterCrash
      PROVE  TypeOK'
  BY <1>21 DEF RouterCrash, Glitch, NoTasks, NoSeqs
<1>22. CASE UNCHANGED vars
  BY <1>22 DEF vars
<1> QED
  BY <1>1, <1>2, <1>3, <1>4, <1>5, <1>6, <1>7, <1>8, <1>9, <1>10, <1>11,
     <1>12, <1>13, <1>14, <1>15, <1>16, <1>17, <1>18, <1>19, <1>20, <1>21,
     <1>22
     DEF Next, BridgeStep, TaskStep, TaskFailure, AutoStep

\* Inbound is type correct.
THEOREM InboundTypeCorrect == Spec => []TypeOK
<1>1. Init => TypeOK
  BY ConstantsAssumption DEF Init, TypeOK, NoTasks, NoSeqs
<1> QED
  BY <1>1, TypeStep, PTL DEF Spec

-----------------------------------------------------------------------------
(* Who is being served: the MTA of a request that still has its caller is   *)
(* waiting, no two such requests carry the same message, and goroutines     *)
(* exist only for the recipients of the request.                            *)

FlowInv ==
  /\ \A h \in Handlers : req[h] # NoEnv /\ h \notin cut => mta[req[h]] = "calling"
  /\ \A g, h \in Handlers :
       req[g] # NoEnv /\ req[g] = req[h] /\ g \notin cut /\ h \notin cut => g = h
  /\ \A h \in Handlers, a \in Addr :
       task[h][a] # "none" => req[h] # NoEnv /\ a \in Rcpt[req[h]]

\* Every step keeps it, a timeout or a crash included.
LEMMA FlowStep == TypeOK /\ FlowInv /\ [Next]_vars => FlowInv'
<1> SUFFICES ASSUME TypeOK, FlowInv, [Next]_vars PROVE FlowInv'
  OBVIOUS
<1> USE ConstantsAssumption DEF TypeOK, FlowInv, smtpVars, requestVars, taskVars,
        dbVars, replyVars
<1>1. ASSUME NEW e \in Env, Data(e)
      PROVE  FlowInv'
  BY <1>1 DEF Data
<1>2. ASSUME NEW e \in Env, checkRspamd_unavailable(e)
      PROVE  FlowInv'
  BY <1>2 DEF checkRspamd_unavailable, Glitch
<1>3. ASSUME NEW e \in Env, checkRspamd_reject(e)
      PROVE  FlowInv'
  BY <1>3 DEF checkRspamd_reject
<1>4. ASSUME NEW h \in Handlers, NEW e \in Env, inboundHandler(h, e)
      PROVE  FlowInv'
  BY <1>4 DEF inboundHandler
<1>5. ASSUME NEW h \in Handlers, CallTimeout(h)
      PROVE  FlowInv'
  BY <1>5 DEF CallTimeout, Glitch
<1>6. ASSUME NEW h \in Handlers, inboundReply(h)
      PROVE  FlowInv'
  BY <1>6 DEF inboundReply, EndRequest, Finished, AllStored, NoTasks, NoSeqs
<1>7. ASSUME NEW h \in Handlers, NEW a \in Addr, processRecipient_begin(h, a)
      PROVE  FlowInv'
  BY <1>7 DEF processRecipient_begin, At, Goto
<1>8. ASSUME NEW h \in Handlers, NEW a \in Addr, lookupMailboxRoute(h, a)
      PROVE  FlowInv'
  BY <1>8 DEF lookupMailboxRoute, At, Goto
<1>9. ASSUME NEW h \in Handlers, NEW a \in Addr, processRecipient_lock(h, a)
      PROVE  FlowInv'
  BY <1>9 DEF processRecipient_lock, Locked, At, Goto
<1>10. ASSUME NEW h \in Handlers, NEW a \in Addr, processRecipient_duplicate(h, a)
      PROVE  FlowInv'
  BY <1>10 DEF processRecipient_duplicate, At, Goto
<1>11. ASSUME NEW h \in Handlers, NEW a \in Addr, processRecipient_new(h, a)
      PROVE  FlowInv'
  BY <1>11 DEF processRecipient_new, At, Goto
<1>12. ASSUME NEW h \in Handlers, NEW a \in Addr, storeCiphertext(h, a)
      PROVE  FlowInv'
  BY <1>12 DEF storeCiphertext, At, Goto
<1>13. ASSUME NEW h \in Handlers, NEW a \in Addr, processRecipient_insert(h, a)
      PROVE  FlowInv'
  <2>1. CASE row[BoxOf[a]][req[h]] = 0
    <3>1. /\ req[h] # NoEnv /\ task[h][a] = "insert"
          /\ row' = [row EXCEPT ![BoxOf[a]][req[h]] = tseq[h][a]]
          /\ auto' = [auto EXCEPT ![BoxOf[a]][req[h]] = "check"]
          /\ task' = [task EXCEPT ![h][a] = "done"]
      BY <1>13, <2>1 DEF processRecipient_insert, At, Goto
    <3> QED
      BY <1>13, <2>1, <3>1 DEF processRecipient_insert
  <2>2. CASE row[BoxOf[a]][req[h]] # 0
    <3>1. /\ req[h] # NoEnv /\ task[h][a] = "insert"
          /\ row' = row /\ auto' = auto
          /\ task' = [task EXCEPT ![h][a] = "failed"]
      BY <1>13, <2>2 DEF processRecipient_insert, At, Goto
    <3> QED
      BY <1>13, <2>2, <3>1 DEF processRecipient_insert
  <2> QED
    BY <2>1, <2>2
<1>14. ASSUME NEW h \in Handlers, NEW a \in Addr, storeCiphertext_lost(h, a)
      PROVE  FlowInv'
  BY <1>14 DEF storeCiphertext_lost, MayFail, Glitch, At, Goto
<1>15. ASSUME NEW h \in Handlers, NEW a \in Addr, processRecipient_commit_lost(h, a)
      PROVE  FlowInv'
  BY <1>15 DEF processRecipient_commit_lost, MayFail, Glitch, At, Goto
<1>16. ASSUME NEW h \in Handlers, NEW a \in Addr, processRecipient_error(h, a)
      PROVE  FlowInv'
  BY <1>16 DEF processRecipient_error, MayFail, Glitch, At, Goto
<1>17. ASSUME NEW b \in Boxes, NEW e \in Env, evaluateAutoReply(b, e)
      PROVE  FlowInv'
  BY <1>17 DEF evaluateAutoReply
<1>18. ASSUME NEW b \in Boxes, NEW e \in Env, evaluateAutoReply_log(b, e)
      PROVE  FlowInv'
  BY <1>18 DEF evaluateAutoReply_log
<1>19. ASSUME NEW b \in Boxes, NEW e \in Env, evaluateAutoReply_error(b, e)
      PROVE  FlowInv'
  BY <1>19 DEF evaluateAutoReply_error, Glitch
<1>20. ASSUME NEW b \in Boxes, deleteMailbox(b)
      PROVE  FlowInv'
  BY <1>20 DEF deleteMailbox
<1>21. ASSUME RouterCrash
      PROVE  FlowInv'
  BY <1>21 DEF RouterCrash, Glitch, NoTasks, NoSeqs
<1>22. CASE UNCHANGED vars
  BY <1>22 DEF vars
<1> QED
  BY <1>1, <1>2, <1>3, <1>4, <1>5, <1>6, <1>7, <1>8, <1>9, <1>10, <1>11,
     <1>12, <1>13, <1>14, <1>15, <1>16, <1>17, <1>18, <1>19, <1>20, <1>21,
     <1>22
     DEF Next, BridgeStep, TaskStep, TaskFailure, AutoStep

-----------------------------------------------------------------------------
(* The heart of the matter. The advisory lock is exclusive, so the result   *)
(* of the duplicate check is still true at the INSERT; a goroutine that      *)
(* inserts has stored its object; a goroutine that reports success has a row.*)

LockExclusive ==
  \A g, h \in Handlers, a, c \in Addr :
    /\ req[g] # NoEnv /\ req[g] = req[h] /\ BoxOf[a] = BoxOf[c]
    /\ task[g][a] \in Locking /\ task[h][c] \in Locking
    => g = h /\ a = c

TaskKnows ==
  \A h \in Handlers, a \in Addr :
    /\ task[h][a] \in {"store", "insert"} => tseq[h][a] # 0
    /\ task[h][a] = "insert" => tseq[h][a] \in objects
    /\ task[h][a] = "done" => row[BoxOf[a]][req[h]] # 0

RowsAddressed ==
  \A b \in Boxes, e \in Env :
    row[b][e] # 0 => \E a \in Rcpt[e] : BoxOf[a] = b

StoreInv ==
  /\ LockExclusive
  /\ InsertNeverConflicts
  /\ TaskKnows
  /\ RowHasObject
  /\ RowsAddressed
  /\ AcceptedIsStored

\* Every step keeps the six parts together.
LEMMA StoreStep == TypeOK /\ FlowInv /\ StoreInv /\ [Next]_vars => StoreInv'
<1> SUFFICES ASSUME TypeOK, FlowInv, StoreInv, [Next]_vars PROVE StoreInv'
  OBVIOUS
<1> USE ConstantsAssumption DEF TypeOK, FlowInv, StoreInv, LockExclusive,
        InsertNeverConflicts, TaskKnows, RowHasObject, RowsAddressed,
        AcceptedIsStored, smtpVars, requestVars, taskVars,
        dbVars, replyVars
<1>1. ASSUME NEW e \in Env, Data(e)
      PROVE  StoreInv'
  BY <1>1 DEF Data
<1>2. ASSUME NEW e \in Env, checkRspamd_unavailable(e)
      PROVE  StoreInv'
  BY <1>2 DEF checkRspamd_unavailable, Glitch
<1>3. ASSUME NEW e \in Env, checkRspamd_reject(e)
      PROVE  StoreInv'
  BY <1>3 DEF checkRspamd_reject
<1>4. ASSUME NEW h \in Handlers, NEW e \in Env, inboundHandler(h, e)
      PROVE  StoreInv'
  BY <1>4 DEF inboundHandler
<1>5. ASSUME NEW h \in Handlers, CallTimeout(h)
      PROVE  StoreInv'
  BY <1>5 DEF CallTimeout, Glitch
<1>6. ASSUME NEW h \in Handlers, inboundReply(h)
      PROVE  StoreInv'
  BY <1>6 DEF inboundReply, EndRequest, Finished, AllStored, NoTasks, NoSeqs
<1>7. ASSUME NEW h \in Handlers, NEW a \in Addr, processRecipient_begin(h, a)
      PROVE  StoreInv'
  BY <1>7 DEF processRecipient_begin, At, Goto
<1>8. ASSUME NEW h \in Handlers, NEW a \in Addr, lookupMailboxRoute(h, a)
      PROVE  StoreInv'
  BY <1>8 DEF lookupMailboxRoute, At, Goto
<1>9. ASSUME NEW h \in Handlers, NEW a \in Addr, processRecipient_lock(h, a)
      PROVE  StoreInv'
  BY <1>9 DEF processRecipient_lock, Locked, At, Goto
<1>10. ASSUME NEW h \in Handlers, NEW a \in Addr, processRecipient_duplicate(h, a)
      PROVE  StoreInv'
  BY <1>10 DEF processRecipient_duplicate, At, Goto
<1>11. ASSUME NEW h \in Handlers, NEW a \in Addr, processRecipient_new(h, a)
      PROVE  StoreInv'
  BY <1>11 DEF processRecipient_new, At, Goto
<1>12. ASSUME NEW h \in Handlers, NEW a \in Addr, storeCiphertext(h, a)
      PROVE  StoreInv'
  BY <1>12 DEF storeCiphertext, At, Goto
<1>13. ASSUME NEW h \in Handlers, NEW a \in Addr, processRecipient_insert(h, a)
      PROVE  StoreInv'
  <2>1. CASE row[BoxOf[a]][req[h]] = 0
    <3>1. /\ req[h] # NoEnv /\ task[h][a] = "insert"
          /\ row' = [row EXCEPT ![BoxOf[a]][req[h]] = tseq[h][a]]
          /\ auto' = [auto EXCEPT ![BoxOf[a]][req[h]] = "check"]
          /\ task' = [task EXCEPT ![h][a] = "done"]
      BY <1>13, <2>1 DEF processRecipient_insert, At, Goto
    <3> QED
      BY <1>13, <2>1, <3>1 DEF processRecipient_insert
  <2>2. CASE row[BoxOf[a]][req[h]] # 0
    <3>1. /\ req[h] # NoEnv /\ task[h][a] = "insert"
          /\ row' = row /\ auto' = auto
          /\ task' = [task EXCEPT ![h][a] = "failed"]
      BY <1>13, <2>2 DEF processRecipient_insert, At, Goto
    <3> QED
      BY <1>13, <2>2, <3>1 DEF processRecipient_insert
  <2> QED
    BY <2>1, <2>2
<1>14. ASSUME NEW h \in Handlers, NEW a \in Addr, storeCiphertext_lost(h, a)
      PROVE  StoreInv'
  BY <1>14 DEF storeCiphertext_lost, MayFail, Glitch, At, Goto
<1>15. ASSUME NEW h \in Handlers, NEW a \in Addr, processRecipient_commit_lost(h, a)
      PROVE  StoreInv'
  BY <1>15 DEF processRecipient_commit_lost, MayFail, Glitch, At, Goto
<1>16. ASSUME NEW h \in Handlers, NEW a \in Addr, processRecipient_error(h, a)
      PROVE  StoreInv'
  BY <1>16 DEF processRecipient_error, MayFail, Glitch, At, Goto
<1>17. ASSUME NEW b \in Boxes, NEW e \in Env, evaluateAutoReply(b, e)
      PROVE  StoreInv'
  BY <1>17 DEF evaluateAutoReply
<1>18. ASSUME NEW b \in Boxes, NEW e \in Env, evaluateAutoReply_log(b, e)
      PROVE  StoreInv'
  BY <1>18 DEF evaluateAutoReply_log
<1>19. ASSUME NEW b \in Boxes, NEW e \in Env, evaluateAutoReply_error(b, e)
      PROVE  StoreInv'
  BY <1>19 DEF evaluateAutoReply_error, Glitch
<1>20. ASSUME NEW b \in Boxes, deleteMailbox(b)
      PROVE  StoreInv'
  BY <1>20 DEF deleteMailbox
<1>21. ASSUME RouterCrash
      PROVE  StoreInv'
  BY <1>21 DEF RouterCrash, Glitch, NoTasks, NoSeqs
<1>22. CASE UNCHANGED vars
  BY <1>22 DEF vars
<1> QED
  BY <1>1, <1>2, <1>3, <1>4, <1>5, <1>6, <1>7, <1>8, <1>9, <1>10, <1>11,
     <1>12, <1>13, <1>14, <1>15, <1>16, <1>17, <1>18, <1>19, <1>20, <1>21,
     <1>22
     DEF Next, BridgeStep, TaskStep, TaskFailure, AutoStep

Inv == TypeOK /\ FlowInv /\ StoreInv

\* The three invariants hold in every reachable state.
LEMMA InvAlways == Spec => []Inv
<1>1. Init => Inv
  <2> SUFFICES ASSUME Init PROVE Inv
    OBVIOUS
  <2>1. TypeOK
    BY ConstantsAssumption DEF Init, TypeOK, NoTasks, NoSeqs
  <2>2. FlowInv
    BY ConstantsAssumption DEF Init, FlowInv, NoTasks
  <2>3. \A e \in Env : mta[e] \in {"none", "queued"}
    BY DEF Init
  <2>4. AcceptedIsStored
    BY <2>3 DEF AcceptedIsStored
  <2>5. StoreInv
    BY <2>4, ConstantsAssumption DEF Init, StoreInv, LockExclusive, InsertNeverConflicts,
       TaskKnows, RowHasObject, RowsAddressed, NoTasks, NoSeqs
  <2> QED BY <2>1, <2>2, <2>5 DEF Inv
<1>2. Inv /\ [Next]_vars => Inv'
  BY TypeStep, FlowStep, StoreStep DEF Inv
<1> QED
  BY <1>1, <1>2, PTL DEF Spec

\* The MTA is told 250 only when every recipient's mailbox holds the message.
THEOREM NoMailLost == Spec => []AcceptedIsStored
<1>1. Inv => AcceptedIsStored
  BY DEF Inv, StoreInv
<1> QED
  BY <1>1, InvAlways, PTL

\* A listed message always has its ciphertext in storage.
THEOREM RowsReadable == Spec => []RowHasObject
<1>1. Inv => RowHasObject
  BY DEF Inv, StoreInv
<1> QED
  BY <1>1, InvAlways, PTL

\* The advisory lock makes check-then-insert safe for any number of requests.
THEOREM LockWorks == Spec => []InsertNeverConflicts
<1>1. Inv => InsertNeverConflicts
  BY DEF Inv, StoreInv
<1> QED
  BY <1>1, InvAlways, PTL

-----------------------------------------------------------------------------
(* Orphans. Without a failure no context is cancelled, so every goroutine    *)
(* that has stored an object goes on to insert its row.                      *)

OrphanInv == OrphansNeedGlitch /\ (glitches = 0 => cut = {}) /\ 0 \notin objects

\* What is reachable stays reachable while no row, no object and no goroutine
\* about to insert is touched.
LEMMA StillReachable ==
  ASSUME OrphanInv, row' = row, objects' = objects, glitches' = glitches,
         cut' \subseteq cut,
         \A g \in Handlers, c \in Addr : task[g][c] = "insert" =>
           task'[g][c] = "insert" /\ tseq'[g][c] = tseq[g][c]
  PROVE  OrphanInv'
BY DEF OrphanInv, OrphansNeedGlitch

\* Every step keeps every object reachable until something fails.
LEMMA OrphanStep == Inv /\ OrphanInv /\ [Next]_vars => OrphanInv'
<1> SUFFICES ASSUME Inv, OrphanInv, [Next]_vars PROVE OrphanInv'
  OBVIOUS
<1> USE ConstantsAssumption DEF Inv, TypeOK, FlowInv, StoreInv,
        InsertNeverConflicts, TaskKnows, OrphanInv, OrphansNeedGlitch,
        smtpVars, requestVars, taskVars, dbVars, replyVars
<1>1. ASSUME NEW e \in Env, Data(e)
      PROVE  OrphanInv'
  <2>1. /\ row' = row /\ objects' = objects /\ glitches' = glitches
        /\ cut' \subseteq cut
        /\ \A g \in Handlers, c \in Addr : task[g][c] = "insert" =>
             task'[g][c] = "insert" /\ tseq'[g][c] = tseq[g][c]
    BY <1>1 DEF Data
  <2> QED
    BY <2>1, StillReachable
<1>2. ASSUME NEW e \in Env, checkRspamd_unavailable(e)
      PROVE  OrphanInv'
  BY <1>2 DEF checkRspamd_unavailable, Glitch
<1>3. ASSUME NEW e \in Env, checkRspamd_reject(e)
      PROVE  OrphanInv'
  <2>1. /\ row' = row /\ objects' = objects /\ glitches' = glitches
        /\ cut' \subseteq cut
        /\ \A g \in Handlers, c \in Addr : task[g][c] = "insert" =>
             task'[g][c] = "insert" /\ tseq'[g][c] = tseq[g][c]
    BY <1>3 DEF checkRspamd_reject
  <2> QED
    BY <2>1, StillReachable
<1>4. ASSUME NEW h \in Handlers, NEW e \in Env, inboundHandler(h, e)
      PROVE  OrphanInv'
  <2>1. /\ row' = row /\ objects' = objects /\ glitches' = glitches
        /\ cut' \subseteq cut
        /\ \A g \in Handlers, c \in Addr : task[g][c] = "insert" =>
             task'[g][c] = "insert" /\ tseq'[g][c] = tseq[g][c]
    BY <1>4 DEF inboundHandler
  <2> QED
    BY <2>1, StillReachable
<1>5. ASSUME NEW h \in Handlers, CallTimeout(h)
      PROVE  OrphanInv'
  BY <1>5 DEF CallTimeout, Glitch
<1>6. ASSUME NEW h \in Handlers, inboundReply(h)
      PROVE  OrphanInv'
  <2>0. \A c \in Addr : task[h][c] # "insert"
    BY <1>6 DEF inboundReply, Finished
  <2>1. /\ row' = row /\ objects' = objects /\ glitches' = glitches
        /\ cut' \subseteq cut
        /\ \A g \in Handlers, c \in Addr : task[g][c] = "insert" =>
             task'[g][c] = "insert" /\ tseq'[g][c] = tseq[g][c]
    BY <1>6, <2>0 DEF inboundReply, EndRequest
  <2> QED
    BY <2>1, StillReachable
<1>7. ASSUME NEW h \in Handlers, NEW a \in Addr, processRecipient_begin(h, a)
      PROVE  OrphanInv'
  <2>1. /\ row' = row /\ objects' = objects /\ glitches' = glitches
        /\ cut' \subseteq cut
        /\ \A g \in Handlers, c \in Addr : task[g][c] = "insert" =>
             task'[g][c] = "insert" /\ tseq'[g][c] = tseq[g][c]
    BY <1>7 DEF processRecipient_begin, At, Goto
  <2> QED
    BY <2>1, StillReachable
<1>8. ASSUME NEW h \in Handlers, NEW a \in Addr, lookupMailboxRoute(h, a)
      PROVE  OrphanInv'
  <2>1. /\ row' = row /\ objects' = objects /\ glitches' = glitches
        /\ cut' \subseteq cut
        /\ \A g \in Handlers, c \in Addr : task[g][c] = "insert" =>
             task'[g][c] = "insert" /\ tseq'[g][c] = tseq[g][c]
    BY <1>8 DEF lookupMailboxRoute, At, Goto
  <2> QED
    BY <2>1, StillReachable
<1>9. ASSUME NEW h \in Handlers, NEW a \in Addr, processRecipient_lock(h, a)
      PROVE  OrphanInv'
  <2>1. /\ row' = row /\ objects' = objects /\ glitches' = glitches
        /\ cut' \subseteq cut
        /\ \A g \in Handlers, c \in Addr : task[g][c] = "insert" =>
             task'[g][c] = "insert" /\ tseq'[g][c] = tseq[g][c]
    BY <1>9 DEF processRecipient_lock, At, Goto
  <2> QED
    BY <2>1, StillReachable
<1>10. ASSUME NEW h \in Handlers, NEW a \in Addr, processRecipient_duplicate(h, a)
      PROVE  OrphanInv'
  <2>1. /\ row' = row /\ objects' = objects /\ glitches' = glitches
        /\ cut' \subseteq cut
        /\ \A g \in Handlers, c \in Addr : task[g][c] = "insert" =>
             task'[g][c] = "insert" /\ tseq'[g][c] = tseq[g][c]
    BY <1>10 DEF processRecipient_duplicate, At, Goto
  <2> QED
    BY <2>1, StillReachable
<1>11. ASSUME NEW h \in Handlers, NEW a \in Addr, processRecipient_new(h, a)
      PROVE  OrphanInv'
  <2>1. /\ row' = row /\ objects' = objects /\ glitches' = glitches
        /\ cut' \subseteq cut
        /\ \A g \in Handlers, c \in Addr : task[g][c] = "insert" =>
             task'[g][c] = "insert" /\ tseq'[g][c] = tseq[g][c]
    BY <1>11 DEF processRecipient_new, At, Goto
  <2> QED
    BY <2>1, StillReachable
<1>12. ASSUME NEW h \in Handlers, NEW a \in Addr, storeCiphertext(h, a)
      PROVE  OrphanInv'
  <2>1. /\ row' = row /\ glitches' = glitches /\ cut' = cut /\ tseq' = tseq
        /\ objects' = objects \cup {tseq[h][a]} /\ tseq[h][a] # 0
        /\ task'[h][a] = "insert"
        /\ \A g \in Handlers, c \in Addr :
             task[g][c] = "insert" => task'[g][c] = "insert"
    BY <1>12 DEF storeCiphertext, At, Goto
  <2>2. ASSUME glitches' = 0, NEW o \in objects'
        PROVE  \/ \E b \in Boxes, e \in Env : row'[b][e] = o
               \/ \E g \in Handlers, c \in Addr :
                    task'[g][c] = "insert" /\ tseq'[g][c] = o
    <3>1. CASE o = tseq[h][a]
      BY <2>1, <3>1
    <3>2. CASE o \in objects
      <4>1. \/ \E b \in Boxes, e \in Env : row[b][e] = o
            \/ \E g \in Handlers, c \in Addr :
                 task[g][c] = "insert" /\ tseq[g][c] = o
        BY <2>1, <2>2, <3>2
      <4> QED
        BY <2>1, <4>1
    <3> QED
      BY <2>1, <2>2, <3>1, <3>2
  <2>3. (glitches' = 0 => cut' = {}) /\ 0 \notin objects'
    BY <2>1
  <2> QED
    BY ONLY <2>2, <2>3 DEF OrphanInv, OrphansNeedGlitch
<1>13. ASSUME NEW h \in Handlers, NEW a \in Addr, processRecipient_insert(h, a)
      PROVE  OrphanInv'
  <2> DEFINE box == BoxOf[a]
  <2> DEFINE m == req[h]
  <2>1. /\ m \in Env /\ box \in Boxes /\ row[box][m] = 0
        /\ glitches' = glitches /\ cut' = cut /\ tseq' = tseq
        /\ objects' = objects
    BY <1>13 DEF processRecipient_insert, At
  <2>2. /\ row' = [row EXCEPT ![box][m] = tseq[h][a]]
        /\ task' = [task EXCEPT ![h][a] = "done"]
    BY <1>13, <2>1 DEF processRecipient_insert, Goto
  <2>3. ASSUME glitches' = 0, NEW o \in objects'
        PROVE  \/ \E b \in Boxes, e \in Env : row'[b][e] = o
               \/ \E g \in Handlers, c \in Addr :
                    task'[g][c] = "insert" /\ tseq'[g][c] = o
    <3>1. CASE o = tseq[h][a]
      BY <2>1, <2>2, <3>1
    <3>2. CASE \E b \in Boxes, e \in Env : row[b][e] = o
      <4>1. PICK b \in Boxes, e \in Env : row[b][e] = o
        BY <3>2
      <4>2. row'[b][e] = o
        BY <2>1, <2>2, <4>1
      <4> QED
        BY <4>2
    <3>3. CASE /\ o # tseq[h][a]
               /\ \E g \in Handlers, c \in Addr :
                    task[g][c] = "insert" /\ tseq[g][c] = o
      BY <2>1, <2>2, <3>3
    <3> QED
      BY <2>1, <2>3, <3>1, <3>2, <3>3
  <2>4. (glitches' = 0 => cut' = {}) /\ 0 \notin objects'
    BY <2>1
  <2> QED
    BY ONLY <2>3, <2>4 DEF OrphanInv, OrphansNeedGlitch
<1>14. ASSUME NEW h \in Handlers, NEW a \in Addr, storeCiphertext_lost(h, a)
      PROVE  OrphanInv'
  BY <1>14 DEF storeCiphertext_lost, MayFail, Glitch, At, Goto
<1>15. ASSUME NEW h \in Handlers, NEW a \in Addr, processRecipient_commit_lost(h, a)
      PROVE  OrphanInv'
  BY <1>15 DEF processRecipient_commit_lost, MayFail, Glitch, At, Goto
<1>16. ASSUME NEW h \in Handlers, NEW a \in Addr, processRecipient_error(h, a)
      PROVE  OrphanInv'
  BY <1>16 DEF processRecipient_error, MayFail, Glitch, At, Goto
<1>17. ASSUME NEW b \in Boxes, NEW e \in Env, evaluateAutoReply(b, e)
      PROVE  OrphanInv'
  <2>1. /\ row' = row /\ objects' = objects /\ glitches' = glitches
        /\ cut' \subseteq cut
        /\ \A g \in Handlers, c \in Addr : task[g][c] = "insert" =>
             task'[g][c] = "insert" /\ tseq'[g][c] = tseq[g][c]
    BY <1>17 DEF evaluateAutoReply
  <2> QED
    BY <2>1, StillReachable
<1>18. ASSUME NEW b \in Boxes, NEW e \in Env, evaluateAutoReply_log(b, e)
      PROVE  OrphanInv'
  <2>1. /\ row' = row /\ objects' = objects /\ glitches' = glitches
        /\ cut' \subseteq cut
        /\ \A g \in Handlers, c \in Addr : task[g][c] = "insert" =>
             task'[g][c] = "insert" /\ tseq'[g][c] = tseq[g][c]
    BY <1>18 DEF evaluateAutoReply_log
  <2> QED
    BY <2>1, StillReachable
<1>19. ASSUME NEW b \in Boxes, NEW e \in Env, evaluateAutoReply_error(b, e)
      PROVE  OrphanInv'
  BY <1>19 DEF evaluateAutoReply_error, Glitch
<1>20. ASSUME NEW b \in Boxes, deleteMailbox(b)
      PROVE  OrphanInv'
  <2>1. /\ row' = row /\ objects' = objects /\ glitches' = glitches
        /\ cut' \subseteq cut
        /\ \A g \in Handlers, c \in Addr : task[g][c] = "insert" =>
             task'[g][c] = "insert" /\ tseq'[g][c] = tseq[g][c]
    BY <1>20 DEF deleteMailbox
  <2> QED
    BY <2>1, StillReachable
<1>21. ASSUME RouterCrash
      PROVE  OrphanInv'
  BY <1>21 DEF RouterCrash, Glitch, NoTasks, NoSeqs
<1>22. CASE UNCHANGED vars
  BY <1>22 DEF vars
<1> QED
  BY <1>1, <1>2, <1>3, <1>4, <1>5, <1>6, <1>7, <1>8, <1>9, <1>10, <1>11,
     <1>12, <1>13, <1>14, <1>15, <1>16, <1>17, <1>18, <1>19, <1>20, <1>21,
     <1>22
     DEF Next, BridgeStep, TaskStep, TaskFailure, AutoStep

\* Concurrency and duplicates alone never leave an orphaned object.
THEOREM NoOrphans == Spec => []OrphansNeedGlitch
<1>1. Init => OrphanInv
  BY DEF Init, OrphanInv, OrphansNeedGlitch
<1>2. OrphanInv => OrphansNeedGlitch
  BY DEF OrphanInv
<1> QED
  BY <1>1, <1>2, InvAlways, OrphanStep, PTL DEF Spec

-----------------------------------------------------------------------------
(* Automatic replies. A message is evaluated once: after the INSERT that    *)
(* made its row, by a goroutine whose end is final. The replies to a sender *)
(* are no more than the evaluations that ended.                             *)

\* The messages of a sender whose rule was evaluated to the end, by outcome.
Evaluated(state, b, s) == {e \in Env : SenderOf[e] = s /\ state[b][e] = "done"}

ReplyInv ==
  /\ \A b \in Boxes, e \in Env : auto[b][e] # "none" => row[b][e] # 0
  /\ \A b \in Boxes, s \in Senders :
       replied[b][s] <= Cardinality(Evaluated(auto, b, s))

\* The messages evaluated are as many as a number says.
LEMMA EvaluatedCounted ==
  ASSUME IsFiniteSet(Env), NEW state, NEW b, NEW s
  PROVE  /\ IsFiniteSet(Evaluated(state, b, s))
         /\ Cardinality(Evaluated(state, b, s)) \in Nat
BY FS_Subset, FS_CardinalityType DEF Evaluated

\* Every step evaluates a message that has a row, and replies once to it.
LEMMA ReplyStep ==
  ASSUME IsFiniteSet(Env) PROVE Inv /\ ReplyInv /\ [Next]_vars => ReplyInv'
<1> SUFFICES ASSUME Inv, ReplyInv, [Next]_vars PROVE ReplyInv'
  OBVIOUS
<1> USE DEF smtpVars, requestVars, taskVars, dbVars, replyVars
<1>a. /\ TypeOK /\ auto \in [Boxes -> [Env -> {"none", "check", "log", "done"}]]
      /\ row \in [Boxes -> [Env -> Nat]] /\ replied \in [Boxes -> [Senders -> Nat]]
  BY DEF Inv, TypeOK
\* A step that logs no reply and takes no evaluation back.
<1>b. ASSUME replied' = replied,
             \/ auto' = auto /\ row' = row
             \/ \A c \in Boxes, f \in Env :
                  /\ auto[c][f] = "done" => auto'[c][f] = "done"
                  /\ auto'[c][f] # "none" => row'[c][f] # 0
      PROVE  ReplyInv'
  <2>1. \A c \in Boxes, f \in Env :
          /\ auto[c][f] = "done" => auto'[c][f] = "done"
          /\ auto'[c][f] # "none" => row'[c][f] # 0
    BY <1>b DEF ReplyInv
  <2>2. ASSUME NEW c \in Boxes, NEW t \in Senders
        PROVE  replied'[c][t] <= Cardinality(Evaluated(auto', c, t))
    <3>1. Evaluated(auto, c, t) \subseteq Evaluated(auto', c, t)
      <4> SUFFICES ASSUME NEW f \in Env, SenderOf[f] = t, auto[c][f] = "done"
                   PROVE  auto'[c][f] = "done"
        BY DEF Evaluated
      <4> QED BY <2>1
    <3>2. Cardinality(Evaluated(auto, c, t)) <= Cardinality(Evaluated(auto', c, t))
      BY <3>1, EvaluatedCounted, FS_Subset
    <3>3. replied[c][t] \in Nat /\ replied[c][t] <= Cardinality(Evaluated(auto, c, t))
      BY <1>a DEF ReplyInv
    <3>4. replied'[c][t] = replied[c][t]
      BY <1>b
    <3>5. /\ Cardinality(Evaluated(auto, c, t)) \in Nat
          /\ Cardinality(Evaluated(auto', c, t)) \in Nat
      BY EvaluatedCounted
    <3> QED BY <3>2, <3>3, <3>4, <3>5
  <2> QED BY <2>1, <2>2 DEF ReplyInv
<1>1. ASSUME NEW e \in Env, Data(e)
      PROVE  ReplyInv'
  BY <1>1, <1>b DEF Data
<1>2. ASSUME NEW e \in Env, checkRspamd_unavailable(e)
      PROVE  ReplyInv'
  BY <1>2, <1>b DEF checkRspamd_unavailable
<1>3. ASSUME NEW e \in Env, checkRspamd_reject(e)
      PROVE  ReplyInv'
  BY <1>3, <1>b DEF checkRspamd_reject
<1>4. ASSUME NEW h \in Handlers, NEW e \in Env, inboundHandler(h, e)
      PROVE  ReplyInv'
  BY <1>4, <1>b DEF inboundHandler
<1>5. ASSUME NEW h \in Handlers, CallTimeout(h)
      PROVE  ReplyInv'
  BY <1>5, <1>b DEF CallTimeout
<1>6. ASSUME NEW h \in Handlers, inboundReply(h)
      PROVE  ReplyInv'
  BY <1>6, <1>b DEF inboundReply
<1>7. ASSUME NEW h \in Handlers, NEW a \in Addr, processRecipient_begin(h, a)
      PROVE  ReplyInv'
  BY <1>7, <1>b DEF processRecipient_begin
<1>8. ASSUME NEW h \in Handlers, NEW a \in Addr, lookupMailboxRoute(h, a)
      PROVE  ReplyInv'
  BY <1>8, <1>b DEF lookupMailboxRoute
<1>9. ASSUME NEW h \in Handlers, NEW a \in Addr, processRecipient_lock(h, a)
      PROVE  ReplyInv'
  BY <1>9, <1>b DEF processRecipient_lock
<1>10. ASSUME NEW h \in Handlers, NEW a \in Addr, processRecipient_duplicate(h, a)
      PROVE  ReplyInv'
  BY <1>10, <1>b DEF processRecipient_duplicate
<1>11. ASSUME NEW h \in Handlers, NEW a \in Addr, processRecipient_new(h, a)
      PROVE  ReplyInv'
  BY <1>11, <1>b DEF processRecipient_new
<1>12. ASSUME NEW h \in Handlers, NEW a \in Addr, storeCiphertext(h, a)
      PROVE  ReplyInv'
  BY <1>12, <1>b DEF storeCiphertext
<1>13. ASSUME NEW h \in Handlers, NEW a \in Addr, storeCiphertext_lost(h, a)
      PROVE  ReplyInv'
  BY <1>13, <1>b DEF storeCiphertext_lost
<1>14. ASSUME NEW h \in Handlers, NEW a \in Addr, processRecipient_error(h, a)
      PROVE  ReplyInv'
  BY <1>14, <1>b DEF processRecipient_error
<1>15. ASSUME NEW b \in Boxes, deleteMailbox(b)
      PROVE  ReplyInv'
  BY <1>15, <1>b DEF deleteMailbox
<1>16. ASSUME NEW h \in Handlers, NEW a \in Addr, processRecipient_insert(h, a)
      PROVE  ReplyInv'
  <2> DEFINE b == BoxOf[a]
             e == req[h]
  <2>1. b \in Boxes /\ e \in Env /\ replied' = replied
    BY <1>16, <1>a, ConstantsAssumption DEF processRecipient_insert, At, TypeOK
  <2>2. CASE row[b][e] # 0
    BY <1>16, <2>2, <1>b DEF processRecipient_insert
  <2>3. CASE row[b][e] = 0
    <3>1. /\ auto[b][e] = "none" /\ tseq[h][a] # 0
          /\ row' = [row EXCEPT ![b][e] = tseq[h][a]] /\ auto' = [auto EXCEPT ![b][e] = "check"]
      BY <1>16, <2>1, <2>3 DEF processRecipient_insert, At, ReplyInv, Inv, StoreInv, TaskKnows
    <3> HIDE DEF b, e
    <3>2. ASSUME NEW c \in Boxes, NEW f \in Env
          PROVE  /\ auto[c][f] = "done" => auto'[c][f] = "done"
                 /\ auto'[c][f] # "none" => row'[c][f] # 0
      BY <2>1, <3>1, <1>a DEF ReplyInv
    <3> QED BY <2>1, <3>2, <1>b
  <2> QED BY <2>2, <2>3
<1>17. ASSUME NEW h \in Handlers, NEW a \in Addr, processRecipient_commit_lost(h, a)
      PROVE  ReplyInv'
  <2> DEFINE b == BoxOf[a]
             e == req[h]
  <2>1. /\ b \in Boxes /\ e \in Env /\ replied' = replied /\ auto' = auto
        /\ row' = [row EXCEPT ![b][e] = tseq[h][a]]
    BY <1>17, <1>a, ConstantsAssumption DEF processRecipient_commit_lost, At, TypeOK, replyVars
  <2>2. tseq[h][a] # 0
    BY <1>17 DEF processRecipient_commit_lost, At, Inv, StoreInv, TaskKnows
  <2> HIDE DEF b, e
  <2>3. ASSUME NEW c \in Boxes, NEW f \in Env
        PROVE  auto'[c][f] # "none" => row'[c][f] # 0
    BY <2>1, <2>2, <1>a DEF ReplyInv
  <2> QED BY <2>1, <2>3, <1>b
<1>18. ASSUME NEW b \in Boxes, NEW e \in Env, evaluateAutoReply(b, e)
      PROVE  ReplyInv'
  <2>1. ASSUME NEW c \in Boxes, NEW f \in Env
        PROVE  /\ auto[c][f] = "done" => auto'[c][f] = "done"
               /\ auto'[c][f] # "none" => row'[c][f] # 0
    BY <1>18, <1>a DEF evaluateAutoReply, ReplyInv
  <2> QED BY <1>18, <2>1, <1>b DEF evaluateAutoReply
<1>19. ASSUME NEW b \in Boxes, NEW e \in Env, evaluateAutoReply_error(b, e)
      PROVE  ReplyInv'
  <2>1. ASSUME NEW c \in Boxes, NEW f \in Env
        PROVE  /\ auto[c][f] = "done" => auto'[c][f] = "done"
               /\ auto'[c][f] # "none" => row'[c][f] # 0
    BY <1>19, <1>a DEF evaluateAutoReply_error, ReplyInv
  <2> QED BY <1>19, <2>1, <1>b DEF evaluateAutoReply_error
<1>20. ASSUME RouterCrash
      PROVE  ReplyInv'
  <2>1. ASSUME NEW c \in Boxes, NEW f \in Env
        PROVE  /\ auto[c][f] = "done" => auto'[c][f] = "done"
               /\ auto'[c][f] # "none" => row'[c][f] # 0
    BY <1>20, <1>a DEF RouterCrash, ReplyInv
  <2> QED BY <1>20, <2>1, <1>b DEF RouterCrash
<1>21. ASSUME NEW b \in Boxes, NEW e \in Env, evaluateAutoReply_log(b, e)
      PROVE  ReplyInv'
  <2> DEFINE s == SenderOf[e]
  <2>1. /\ s \in Senders /\ auto[b][e] = "log" /\ auto' = [auto EXCEPT ![b][e] = "done"]
        /\ replied' = [replied EXCEPT ![b][s] = replied[b][s] + 1] /\ row' = row
    BY <1>21, ConstantsAssumption DEF evaluateAutoReply_log
  <2>2. ASSUME NEW c \in Boxes, NEW f \in Env
        PROVE  auto'[c][f] # "none" => row'[c][f] # 0
    BY <2>1, <1>a DEF ReplyInv
  <2>3. e \in Env /\ SenderOf[e] = s
    OBVIOUS
  <2> HIDE DEF s
  <2>4. ASSUME NEW c \in Boxes, NEW t \in Senders
        PROVE  replied'[c][t] <= Cardinality(Evaluated(auto', c, t))
    <3>1. CASE c = b /\ t = s
      <4>1. Evaluated(auto', b, s) = Evaluated(auto, b, s) \cup {e}
        BY <2>1, <2>3, <1>a DEF Evaluated
      <4>2. e \notin Evaluated(auto, b, s)
        BY <2>1 DEF Evaluated
      <4>3. Cardinality(Evaluated(auto', b, s)) = Cardinality(Evaluated(auto, b, s)) + 1
        BY <4>1, <4>2, EvaluatedCounted, FS_AddElement
      <4>4. replied[b][s] <= Cardinality(Evaluated(auto, b, s)) /\ replied[b][s] \in Nat
        BY <2>1, <1>a DEF ReplyInv
      <4>5. replied'[b][s] = replied[b][s] + 1
        BY <2>1, <1>a
      <4> QED BY <3>1, <4>3, <4>4, <4>5, EvaluatedCounted
    <3>2. CASE c # b \/ t # s
      <4>1. Evaluated(auto', c, t) = Evaluated(auto, c, t)
        BY <2>1, <2>3, <3>2, <1>a DEF Evaluated
      <4>2. replied'[c][t] = replied[c][t]
        BY <2>1, <3>2, <1>a
      <4> QED BY <4>1, <4>2 DEF ReplyInv
    <3> QED BY <3>1, <3>2
  <2> QED BY <2>2, <2>4 DEF ReplyInv
<1>22. CASE UNCHANGED vars
  BY <1>22, <1>b DEF vars
<1> QED
  BY <1>1, <1>2, <1>3, <1>4, <1>5, <1>6, <1>7, <1>8, <1>9, <1>10, <1>11,
     <1>12, <1>13, <1>14, <1>15, <1>16, <1>17, <1>18, <1>19, <1>20,
     <1>21, <1>22
     DEF Next, BridgeStep, TaskStep, TaskFailure, AutoStep

\* For any mailboxes, senders, rules and failures and finitely many messages:
\* a sender is never answered automatically more often than it has messages
\* stored in the mailbox (evaluateAutoReply after processRecipient's commit),
\* whatever is delivered twice, retried or evaluated at the same time.
THEOREM OneReplyPerMessage ==
  ASSUME IsFiniteSet(Env) PROVE Spec => []RepliesPerMessage
<1>1. Init => ReplyInv
  <2> SUFFICES ASSUME Init PROVE ReplyInv
    OBVIOUS
  <2>1. ASSUME NEW b \in Boxes, NEW s \in Senders
        PROVE  replied[b][s] <= Cardinality(Evaluated(auto, b, s))
    <3>1. replied[b][s] = 0
      BY DEF Init
    <3>2. Cardinality(Evaluated(auto, b, s)) \in Nat
      BY EvaluatedCounted
    <3> QED BY <3>1, <3>2
  <2> QED BY <2>1 DEF Init, ReplyInv
<1>2. Inv /\ ReplyInv => RepliesPerMessage
  <2> SUFFICES ASSUME Inv, ReplyInv, NEW b \in Boxes, NEW s \in Senders
               PROVE  replied[b][s] <= Cardinality({e \in Env : SenderOf[e] = s /\ row[b][e] # 0})
    BY DEF RepliesPerMessage
  <2> DEFINE R == {e \in Env : SenderOf[e] = s /\ row[b][e] # 0}
  <2>1. Evaluated(auto, b, s) \subseteq R
    BY DEF ReplyInv, Evaluated
  <2>2. IsFiniteSet(R) /\ Cardinality(R) \in Nat
    BY FS_Subset, FS_CardinalityType
  <2> HIDE DEF R
  <2>3. Cardinality(Evaluated(auto, b, s)) <= Cardinality(R)
    BY <2>1, <2>2, FS_Subset
  <2>4. replied[b][s] \in Nat /\ replied[b][s] <= Cardinality(Evaluated(auto, b, s))
    BY DEF Inv, TypeOK, ReplyInv
  <2>5. replied[b][s] <= Cardinality(R)
    BY <2>2, <2>3, <2>4, EvaluatedCounted
  <2> QED BY <2>5 DEF R
<1> QED
  BY <1>1, <1>2, ReplyStep, InvAlways, PTL DEF Spec

-----------------------------------------------------------------------------
(* Refinement. The row of a mailbox is the message in its inbox; the INSERT  *)
(* is the only delivery, the 250 the only taking.                            *)

\* An INSERT that commits is one delivery of the contract.
LEMMA InsertDelivers ==
  ASSUME Inv, NEW h \in Handlers, NEW a \in Addr, req[h] # NoEnv,
         task[h][a] = "insert", row[BoxOf[a]][req[h]] = 0,
         row' = [row EXCEPT ![BoxOf[a]][req[h]] = tseq[h][a]], mta' = mta
  PROVE  Contract!Next
<1> DEFINE inbox == [e \in Env |-> {b \in Boxes : row[b][e] # 0}]
<1> DEFINE box == BoxOf[a]
<1>0. PICK m \in Env : m = req[h]
  BY ConstantsAssumption DEF Inv, TypeOK
<1>1. box \in Boxes /\ a \in Rcpt[m] /\ tseq[h][a] # 0
  BY <1>0, ConstantsAssumption DEF Inv, TypeOK, FlowInv, StoreInv, TaskKnows
<1>2. box \in Dest[m] \ inbox[m]
  BY <1>0, <1>1 DEF Dest
<1>3. \A e \in Env : {b \in Boxes : row'[b][e] # 0} =
                     IF e = m THEN inbox[m] \cup {box} ELSE inbox[e]
  <2>1. \A b \in Boxes, e \in Env :
          row'[b][e] = IF b = box /\ e = m THEN tseq[h][a] ELSE row[b][e]
    BY <1>0, <1>1 DEF Inv, TypeOK
  <2> QED
    BY <1>1, <2>1
<1>4. [e \in Env |-> {b \in Boxes : row'[b][e] # 0}] =
        [inbox EXCEPT ![m] = inbox[m] \cup {box}]
  BY <1>1, <1>3
<1>5. Contract!Deliver(m)
  BY <1>1, <1>2, <1>4 DEF Contract!Deliver
<1> QED
  BY <1>5 DEF Contract!Next

\* A step that leaves rows alone and accepts nothing is a stutter.
LEMMA Stutter ==
  ASSUME row' = row,
         {e \in Env : mta'[e] = "accepted"} = {e \in Env : mta[e] = "accepted"}
  PROVE  UNCHANGED Contract!vars
BY DEF Contract!vars

\* Every step of the system is a step of the contract or a stutter.
LEMMA ContractStep == Inv /\ [Next]_vars => [Contract!Next]_(Contract!vars)
<1> SUFFICES ASSUME Inv, [Next]_vars PROVE [Contract!Next]_(Contract!vars)
  OBVIOUS
<1> USE DEF smtpVars, requestVars, taskVars, dbVars, replyVars
<1>1. ASSUME NEW e \in Env, Data(e)
      PROVE  [Contract!Next]_(Contract!vars)
  <2>1. {x \in Env : mta'[x] = "accepted"} = {x \in Env : mta[x] = "accepted"}
    BY <1>1 DEF Data, Inv, TypeOK, FlowInv
  <2> QED
    BY <1>1, <2>1, Stutter DEF Data
<1>2. ASSUME NEW e \in Env, checkRspamd_unavailable(e)
      PROVE  [Contract!Next]_(Contract!vars)
  <2>1. {x \in Env : mta'[x] = "accepted"} = {x \in Env : mta[x] = "accepted"}
    BY <1>2 DEF checkRspamd_unavailable, Inv, TypeOK, FlowInv
  <2> QED
    BY <1>2, <2>1, Stutter DEF checkRspamd_unavailable
<1>3. ASSUME NEW e \in Env, checkRspamd_reject(e)
      PROVE  [Contract!Next]_(Contract!vars)
  <2>1. {x \in Env : mta'[x] = "accepted"} = {x \in Env : mta[x] = "accepted"}
    BY <1>3 DEF checkRspamd_reject, Inv, TypeOK, FlowInv
  <2> QED
    BY <1>3, <2>1, Stutter DEF checkRspamd_reject
<1>4. ASSUME NEW h \in Handlers, NEW e \in Env, inboundHandler(h, e)
      PROVE  [Contract!Next]_(Contract!vars)
  <2>1. {x \in Env : mta'[x] = "accepted"} = {x \in Env : mta[x] = "accepted"}
    BY <1>4 DEF inboundHandler, Inv, TypeOK, FlowInv
  <2> QED
    BY <1>4, <2>1, Stutter DEF inboundHandler
<1>5. ASSUME NEW h \in Handlers, CallTimeout(h)
      PROVE  [Contract!Next]_(Contract!vars)
  <2>1. {x \in Env : mta'[x] = "accepted"} = {x \in Env : mta[x] = "accepted"}
    BY <1>5 DEF CallTimeout, Inv, TypeOK, FlowInv
  <2> QED
    BY <1>5, <2>1, Stutter DEF CallTimeout
<1>6. ASSUME NEW h \in Handlers, inboundReply(h)
      PROVE  [Contract!Next]_(Contract!vars)
  <2>1. CASE h \notin cut /\ AllStored(h)
    <3>0. PICK m \in Env : m = req[h]
      BY <1>6 DEF inboundReply, Inv, TypeOK
    <3>1. mta[m] = "calling"
      BY <1>6, <2>1, <3>0 DEF inboundReply, Inv, TypeOK, FlowInv
    <3>2. row' = row /\ mta' = [mta EXCEPT ![m] = "accepted"]
      BY <1>6, <2>1, <3>0 DEF inboundReply
    <3>3. \A x \in Rcpt[m] : row[BoxOf[x]][m] # 0
      BY <2>1, <3>0, ConstantsAssumption
         DEF AllStored, Inv, TypeOK, StoreInv, TaskKnows
    <3>4. {b \in Boxes : row[b][m] # 0} = Dest[m]
      BY <3>3, ConstantsAssumption DEF Dest, Inv, StoreInv, RowsAddressed
    <3>5. {e \in Env : mta'[e] = "accepted"} =
            {e \in Env : mta[e] = "accepted"} \cup {m}
      BY <3>1, <3>2 DEF Inv, TypeOK
    <3>6. Contract!Take(m)
      BY <3>1, <3>2, <3>4, <3>5 DEF Contract!Take
    <3> QED
      BY <3>6 DEF Contract!Next
  <2>2. CASE ~(h \notin cut /\ AllStored(h))
    <3>1. {e \in Env : mta'[e] = "accepted"} = {e \in Env : mta[e] = "accepted"}
      BY <1>6, <2>2 DEF inboundReply, Inv, TypeOK, FlowInv
    <3> QED
      BY <1>6, <3>1, Stutter DEF inboundReply
  <2> QED
    BY <2>1, <2>2
<1>7. ASSUME NEW h \in Handlers, NEW a \in Addr, processRecipient_begin(h, a)
      PROVE  [Contract!Next]_(Contract!vars)
  BY <1>7, Stutter DEF processRecipient_begin
<1>8. ASSUME NEW h \in Handlers, NEW a \in Addr, lookupMailboxRoute(h, a)
      PROVE  [Contract!Next]_(Contract!vars)
  BY <1>8, Stutter DEF lookupMailboxRoute
<1>9. ASSUME NEW h \in Handlers, NEW a \in Addr, processRecipient_lock(h, a)
      PROVE  [Contract!Next]_(Contract!vars)
  BY <1>9, Stutter DEF processRecipient_lock
<1>10. ASSUME NEW h \in Handlers, NEW a \in Addr, processRecipient_duplicate(h, a)
      PROVE  [Contract!Next]_(Contract!vars)
  BY <1>10, Stutter DEF processRecipient_duplicate
<1>11. ASSUME NEW h \in Handlers, NEW a \in Addr, processRecipient_new(h, a)
      PROVE  [Contract!Next]_(Contract!vars)
  BY <1>11, Stutter DEF processRecipient_new
<1>12. ASSUME NEW h \in Handlers, NEW a \in Addr, storeCiphertext(h, a)
      PROVE  [Contract!Next]_(Contract!vars)
  BY <1>12, Stutter DEF storeCiphertext
<1>13. ASSUME NEW h \in Handlers, NEW a \in Addr, processRecipient_insert(h, a)
      PROVE  [Contract!Next]_(Contract!vars)
  BY <1>13, InsertDelivers, Stutter
     DEF processRecipient_insert, At, Goto
<1>14. ASSUME NEW h \in Handlers, NEW a \in Addr, storeCiphertext_lost(h, a)
      PROVE  [Contract!Next]_(Contract!vars)
  BY <1>14, Stutter DEF storeCiphertext_lost
<1>15. ASSUME NEW h \in Handlers, NEW a \in Addr, processRecipient_commit_lost(h, a)
      PROVE  [Contract!Next]_(Contract!vars)
  BY <1>15, InsertDelivers, Stutter
     DEF processRecipient_commit_lost, MayFail, Glitch, At, Goto
<1>16. ASSUME NEW h \in Handlers, NEW a \in Addr, processRecipient_error(h, a)
      PROVE  [Contract!Next]_(Contract!vars)
  BY <1>16, Stutter DEF processRecipient_error
<1>17. ASSUME NEW b \in Boxes, NEW e \in Env, evaluateAutoReply(b, e)
      PROVE  [Contract!Next]_(Contract!vars)
  BY <1>17, Stutter DEF evaluateAutoReply
<1>18. ASSUME NEW b \in Boxes, NEW e \in Env, evaluateAutoReply_log(b, e)
      PROVE  [Contract!Next]_(Contract!vars)
  BY <1>18, Stutter DEF evaluateAutoReply_log
<1>19. ASSUME NEW b \in Boxes, NEW e \in Env, evaluateAutoReply_error(b, e)
      PROVE  [Contract!Next]_(Contract!vars)
  BY <1>19, Stutter DEF evaluateAutoReply_error
<1>20. ASSUME NEW b \in Boxes, deleteMailbox(b)
      PROVE  [Contract!Next]_(Contract!vars)
  BY <1>20, Stutter DEF deleteMailbox
<1>21. ASSUME RouterCrash
      PROVE  [Contract!Next]_(Contract!vars)
  <2>1. {x \in Env : mta'[x] = "accepted"} = {x \in Env : mta[x] = "accepted"}
    BY <1>21 DEF RouterCrash, Inv, TypeOK, FlowInv
  <2> QED
    BY <1>21, <2>1, Stutter DEF RouterCrash
<1>22. CASE UNCHANGED vars
  BY <1>22, Stutter DEF vars
<1> QED
  BY <1>1, <1>2, <1>3, <1>4, <1>5, <1>6, <1>7, <1>8, <1>9, <1>10, <1>11,
     <1>12, <1>13, <1>14, <1>15, <1>16, <1>17, <1>18, <1>19, <1>20, <1>21,
     <1>22
     DEF Next, BridgeStep, TaskStep, TaskFailure, AutoStep

\* The bridge and the router implement the contract with the sending MTA:
\* every message enters each mailbox once and is forgotten by its sender only
\* when it is in all of them.
THEOREM ContractHolds == Spec => ImplementsContract
<1>1. Init => Contract!Init
  BY ConstantsAssumption DEF Init, Contract!Init
<1> QED
  BY <1>1, InvAlways, ContractStep, PTL DEF Spec, ImplementsContract, Contract!Spec
=============================================================================
