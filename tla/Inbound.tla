------------------------------ MODULE Inbound ------------------------------
(***************************************************************************)
(* Inbound mail of BYOS: the SMTP session of services/inbound-bridge, the  *)
(* request handler of services/mail-router with one goroutine per          *)
(* recipient, and the automatic reply it starts in the background. They    *)
(* share message_metadata, the object storage and PostgreSQL's advisory    *)
(* locks with every other request that is still running.                   *)
(*                                                                         *)
(* An envelope stands for the message and its delivery_identity: a retry   *)
(* by the MTA carries the same sender, recipients and content. A step of a *)
(* recipient's goroutine is one statement on shared state. A request whose *)
(* caller is gone has a cancelled context: each of its steps may fail.     *)
(***************************************************************************)
EXTENDS Naturals, FiniteSets

CONSTANTS
  Env,          \* envelopes the MTA has to deliver
  NoEnv,        \* "no request" of a handler
  Addr,         \* recipient addresses
  Boxes,        \* mailboxes
  Senders,      \* normalised envelope senders
  Rcpt,         \* recipients of each envelope
  BoxOf,        \* the mailbox of each address
  SenderOf,     \* the sender of each envelope
  Spam,         \* envelopes rspamd answers "reject" for
  RuleBoxes,    \* mailboxes with an active auto-reply rule
  Suppressed,   \* envelopes loop prevention never replies to
  Handlers,     \* concurrent requests of the router
  PoolSize,     \* connections of the router's pool
  TaskLimit,    \* goroutines of one request (10 in the code)
  MaxGlitches   \* bound on crashes, timeouts, failed calls, lost replies

ASSUME ConstantsAssumption ==
  /\ NoEnv \notin Env
  /\ Rcpt \in [Env -> SUBSET Addr]
  /\ BoxOf \in [Addr -> Boxes]
  /\ SenderOf \in [Env -> Senders]
  /\ Spam \subseteq Env
  /\ RuleBoxes \subseteq Boxes
  /\ Suppressed \subseteq Env
  /\ PoolSize \in Nat \ {0}
  /\ TaskLimit \in Nat \ {0}
  /\ MaxGlitches \in Nat

VARIABLES
  mta,        \* what the sending MTA knows of each envelope
  rejected,   \* envelopes rspamd has answered "reject" for
  req,        \* the envelope each handler is working on
  cut,        \* handlers whose caller is gone
  snapshot,   \* addresses the handler's batch lookup found a route for
  task,       \* where the goroutine of each recipient is
  tseq,       \* the message_seq it has drawn
  seq,        \* mailbox_message_seq, a sequence: never rolled back
  routable,   \* mailboxes that are active, with an active mailbox_storage
  row,        \* message_metadata: the message_seq of the stored row, or 0
  objects,    \* object storage, keyed by message_seq
  auto,       \* the background evaluation of the auto-reply rule
  replied,    \* auto_replied rows of delivery_log in the last 24 hours
  glitches    \* crashes, timeouts, failed calls and lost replies so far

smtpVars == <<mta, rejected>>
requestVars == <<req, cut, snapshot>>
taskVars == <<task, tseq>>
dbVars == <<seq, row, objects>>
replyVars == <<auto, replied>>
vars == <<smtpVars, requestVars, taskVars, dbVars, routable, replyVars, glitches>>

MtaStates == {"none", "queued", "checking", "calling", "accepted"}
\* From BeginTx to the end of the transaction a goroutine has a connection;
\* from the lock to the end it also has the advisory lock.
Locking == {"check", "store", "insert"}
Open == {"route", "lock"} \cup Locking
Pcs == {"none", "begin", "done", "failed"} \cup Open

TypeOK ==
  /\ mta \in [Env -> MtaStates]
  /\ rejected \in SUBSET Spam
  /\ req \in [Handlers -> Env \cup {NoEnv}]
  /\ cut \in SUBSET Handlers
  /\ snapshot \in [Handlers -> SUBSET Addr]
  /\ task \in [Handlers -> [Addr -> Pcs]]
  /\ tseq \in [Handlers -> [Addr -> Nat]]
  /\ seq \in Nat
  /\ routable \in SUBSET Boxes
  /\ row \in [Boxes -> [Env -> Nat]]
  /\ objects \in SUBSET Nat
  /\ auto \in [Boxes -> [Env -> {"none", "check", "log", "done"}]]
  /\ replied \in [Boxes -> [Senders -> Nat]]
  /\ glitches \in 0..MaxGlitches

NoTasks == [a \in Addr |-> "none"]
NoSeqs == [a \in Addr |-> 0]

\* Nothing is under way; the MTA has some of the messages to deliver and is never
\* given the others ("none").
Init ==
  /\ mta \in [Env -> {"none", "queued"}]
  /\ rejected = {}
  /\ req = [h \in Handlers |-> NoEnv]
  /\ cut = {}
  /\ snapshot = [h \in Handlers |-> {}]
  /\ task = [h \in Handlers |-> NoTasks]
  /\ tseq = [h \in Handlers |-> NoSeqs]
  /\ seq = 0
  /\ routable = Boxes
  /\ row = [b \in Boxes |-> [e \in Env |-> 0]]
  /\ objects = {}
  /\ auto = [b \in Boxes |-> [e \in Env |-> "none"]]
  /\ replied = [b \in Boxes |-> [s \in Senders |-> 0]]
  /\ glitches = 0

Glitch == glitches < MaxGlitches /\ glitches' = glitches + 1

-----------------------------------------------------------------------------
(* The SMTP session of the bridge.                                          *)

\* MAIL, RCPT and DATA reach the bridge, which asks rspamd first.
Data(e) ==
  /\ mta[e] = "queued"
  /\ mta' = [mta EXCEPT ![e] = "checking"]
  /\ UNCHANGED <<rejected, requestVars, taskVars, dbVars, routable, replyVars,
                 glitches>>

\* rspamd cannot be asked or its answer cannot be used: 451.
checkRspamd_unavailable(e) ==
  /\ mta[e] = "checking"
  /\ Glitch
  /\ mta' = [mta EXCEPT ![e] = "queued"]
  /\ UNCHANGED <<rejected, requestVars, taskVars, dbVars, routable, replyVars>>

\* rspamd says "reject": checkRspamd returns a 550, and Data, which looks only
\* at whether there is an error, answers 451.
checkRspamd_reject(e) ==
  /\ mta[e] = "checking" /\ e \in Spam
  /\ rejected' = rejected \cup {e}
  /\ mta' = [mta EXCEPT ![e] = "queued"]
  /\ UNCHANGED <<requestVars, taskVars, dbVars, routable, replyVars, glitches>>

\* Data posts the message to the router, whose handler looks all routes up in
\* one query (a failure of that query leaves the snapshot empty) and starts
\* the recipients' goroutines.
inboundHandler(h, e) ==
  /\ mta[e] = "checking" /\ e \notin Spam
  /\ req[h] = NoEnv
  /\ mta' = [mta EXCEPT ![e] = "calling"]
  /\ req' = [req EXCEPT ![h] = e]
  /\ cut' = cut \ {h}
  /\ \E found \in {{}, {a \in Rcpt[e] : BoxOf[a] \in routable}} :
       snapshot' = [snapshot EXCEPT ![h] = found]
  /\ task' = [task EXCEPT ![h] =
       [a \in Addr |-> IF a \in Rcpt[e] THEN "begin" ELSE "none"]]
  /\ UNCHANGED <<rejected, tseq, dbVars, routable, replyVars, glitches>>

\* The bridge's 30 seconds are over, or the connection breaks: 451, and the
\* router's request context is cancelled while its goroutines still run.
CallTimeout(h) ==
  /\ req[h] # NoEnv /\ h \notin cut
  /\ Glitch
  /\ mta' = [mta EXCEPT ![req[h]] = "queued"]
  /\ cut' = cut \cup {h}
  /\ UNCHANGED <<rejected, req, snapshot, taskVars, dbVars, routable, replyVars>>

Finished(h) == \A a \in Rcpt[req[h]] : task[h][a] \in {"done", "failed"}

\* Mutant: one stored recipient is enough for the 202.
AnyStored(h) == \E a \in Rcpt[req[h]] : task[h][a] = "done"

AllStored(h) == \A a \in Rcpt[req[h]] : task[h][a] = "done"

EndRequest(h) ==
  /\ req' = [req EXCEPT ![h] = NoEnv]
  /\ cut' = cut \ {h}
  /\ snapshot' = [snapshot EXCEPT ![h] = {}]
  /\ task' = [task EXCEPT ![h] = NoTasks]
  /\ tseq' = [tseq EXCEPT ![h] = NoSeqs]

\* g.Wait returns: 202 when no recipient failed and an error otherwise, which
\* Data turns into 250 and 451. The answer to a caller that is gone is lost.
inboundReply(h) ==
  /\ req[h] # NoEnv /\ Finished(h)
  /\ mta' = IF h \in cut THEN mta
            ELSE [mta EXCEPT ![req[h]] =
                    IF AllStored(h) THEN "accepted" ELSE "queued"]
  /\ EndRequest(h)
  /\ UNCHANGED <<rejected, dbVars, routable, replyVars, glitches>>

-----------------------------------------------------------------------------
(* processRecipient. A goroutine that ends, well or badly, ends its         *)
(* transaction and with it its advisory lock.                               *)

At(h, a, pc) == req[h] # NoEnv /\ task[h][a] = pc
Goto(h, a, pc) == task' = [task EXCEPT ![h][a] = pc]

\* A call of the goroutine fails: freely when its context is cancelled.
MayFail(h) == IF h \in cut THEN UNCHANGED glitches ELSE Glitch

Connections == {x \in Handlers \X Addr : task[x[1]][x[2]] \in Open}
Running(h) == {a \in Addr : task[h][a] \in Open}

\* g.Go lets TaskLimit goroutines run; BeginTx waits for a connection.
processRecipient_begin(h, a) ==
  /\ At(h, a, "begin")
  /\ Cardinality(Running(h)) < TaskLimit
  /\ Cardinality(Connections) < PoolSize
  /\ Goto(h, a, IF a \in snapshot[h] THEN "lock" ELSE "route")
  /\ UNCHANGED <<smtpVars, requestVars, tseq, dbVars, routable, replyVars,
                 glitches>>

\* An address the batch did not find is looked up again.
lookupMailboxRoute(h, a) ==
  /\ At(h, a, "route")
  /\ Goto(h, a, IF BoxOf[a] \in routable THEN "lock" ELSE "failed")
  /\ UNCHANGED <<smtpVars, requestVars, tseq, dbVars, routable, replyVars,
                 glitches>>

Locked(b, e) ==
  \E h \in Handlers, a \in Addr :
    req[h] = e /\ BoxOf[a] = b /\ task[h][a] \in Locking

\* Mutant: nothing serialises two deliveries of one message to one mailbox.
NotLocked(h, a) ==
  /\ At(h, a, "lock")
  /\ Goto(h, a, "check")
  /\ UNCHANGED <<smtpVars, requestVars, tseq, dbVars, routable, replyVars,
                 glitches>>

\* pg_advisory_xact_lock on the mailbox and the delivery identity.
processRecipient_lock(h, a) ==
  /\ At(h, a, "lock")
  /\ ~Locked(BoxOf[a], req[h])
  /\ Goto(h, a, "check")
  /\ UNCHANGED <<smtpVars, requestVars, tseq, dbVars, routable, replyVars,
                 glitches>>

\* Mutant: a second delivery is an error instead of a success.
DuplicateFails(h, a) ==
  /\ At(h, a, "check") /\ row[BoxOf[a]][req[h]] # 0
  /\ Goto(h, a, "failed")
  /\ UNCHANGED <<smtpVars, requestVars, tseq, dbVars, routable, replyVars,
                 glitches>>

\* Mutant: the rule is evaluated for a duplicate as well.
DuplicateReplies(h, a) ==
  /\ At(h, a, "check") /\ row[BoxOf[a]][req[h]] # 0
  /\ Goto(h, a, "done")
  /\ auto' = [auto EXCEPT ![BoxOf[a]][req[h]] = "check"]
  /\ UNCHANGED <<smtpVars, requestVars, tseq, dbVars, routable, replied,
                 glitches>>

\* The row is already there: the goroutine reports success.
processRecipient_duplicate(h, a) ==
  /\ At(h, a, "check") /\ row[BoxOf[a]][req[h]] # 0
  /\ Goto(h, a, "done")
  /\ UNCHANGED <<smtpVars, requestVars, tseq, dbVars, routable, replyVars,
                 glitches>>

\* nextval, and the message is encrypted under the number drawn.
processRecipient_new(h, a) ==
  /\ At(h, a, "check") /\ row[BoxOf[a]][req[h]] = 0
  /\ seq' = seq + 1
  /\ tseq' = [tseq EXCEPT ![h][a] = seq + 1]
  /\ Goto(h, a, "store")
  /\ UNCHANGED <<smtpVars, requestVars, row, objects, routable, replyVars,
                 glitches>>

\* Mutant: the row is written before the ciphertext is stored.
NotStored(h, a) ==
  /\ At(h, a, "store")
  /\ Goto(h, a, "insert")
  /\ UNCHANGED <<smtpVars, requestVars, tseq, dbVars, routable, replyVars,
                 glitches>>

storeCiphertext(h, a) ==
  /\ At(h, a, "store")
  /\ objects' = objects \cup {tseq[h][a]}
  /\ Goto(h, a, "insert")
  /\ UNCHANGED <<smtpVars, requestVars, tseq, seq, row, routable, replyVars,
                 glitches>>

\* The worker stored the object and its answer is lost.
storeCiphertext_lost(h, a) ==
  /\ At(h, a, "store")
  /\ MayFail(h)
  /\ objects' = objects \cup {tseq[h][a]}
  /\ Goto(h, a, "failed")
  /\ UNCHANGED <<smtpVars, requestVars, tseq, seq, row, routable, replyVars>>

\* INSERT and COMMIT, then the background evaluation of the auto-reply rule;
\* UNIQUE(mailbox_id, delivery_identity) refuses a second row.
processRecipient_insert(h, a) ==
  /\ At(h, a, "insert")
  /\ IF row[BoxOf[a]][req[h]] = 0
     THEN /\ row' = [row EXCEPT ![BoxOf[a]][req[h]] = tseq[h][a]]
          /\ auto' = [auto EXCEPT ![BoxOf[a]][req[h]] = "check"]
          /\ Goto(h, a, "done")
     ELSE /\ Goto(h, a, "failed")
          /\ UNCHANGED <<row, auto>>
  /\ UNCHANGED <<smtpVars, requestVars, tseq, seq, objects, routable, replied,
                 glitches>>

\* The commit reaches PostgreSQL and its answer does not reach the router.
processRecipient_commit_lost(h, a) ==
  /\ At(h, a, "insert") /\ row[BoxOf[a]][req[h]] = 0
  /\ MayFail(h)
  /\ row' = [row EXCEPT ![BoxOf[a]][req[h]] = tseq[h][a]]
  /\ Goto(h, a, "failed")
  /\ UNCHANGED <<smtpVars, requestVars, tseq, seq, objects, routable, replyVars>>

\* Any statement or call fails with nothing done: the transaction rolls back.
processRecipient_error(h, a) ==
  /\ req[h] # NoEnv /\ task[h][a] \in Open \cup {"begin"}
  /\ MayFail(h)
  /\ Goto(h, a, "failed")
  /\ UNCHANGED <<smtpVars, requestVars, tseq, dbVars, routable, replyVars>>

-----------------------------------------------------------------------------
(* evaluateAutoReply, a goroutine of its own after the commit.              *)

WantsReply(b, e) == b \in RuleBoxes /\ e \notin Suppressed

\* Loop prevention, the rule, and the EXISTS over the last 24 hours.
evaluateAutoReply(b, e) ==
  /\ auto[b][e] = "check"
  /\ auto' = [auto EXCEPT ![b][e] =
       IF WantsReply(b, e) /\ replied[b][SenderOf[e]] = 0 THEN "log" ELSE "done"]
  /\ UNCHANGED <<smtpVars, requestVars, taskVars, dbVars, routable, replied,
                 glitches>>

evaluateAutoReply_log(b, e) ==
  /\ auto[b][e] = "log"
  /\ replied' = [replied EXCEPT ![b][SenderOf[e]] = @ + 1]
  /\ auto' = [auto EXCEPT ![b][e] = "done"]
  /\ UNCHANGED <<smtpVars, requestVars, taskVars, dbVars, routable, glitches>>

\* A statement of the evaluation fails: without the rule or the INSERT it ends,
\* and a failed EXISTS, whose error is dropped, reads as "not yet answered".
evaluateAutoReply_error(b, e) ==
  /\ auto[b][e] \in {"check", "log"}
  /\ Glitch
  /\ \E pc \in {"done"} \cup {x \in {"log"} : auto[b][e] = "check" /\ WantsReply(b, e)} :
       auto' = [auto EXCEPT ![b][e] = pc]
  /\ UNCHANGED <<smtpVars, requestVars, taskVars, dbVars, routable, replied>>

-----------------------------------------------------------------------------
(* The environment.                                                         *)

\* The API deletes a mailbox: it is inactive and its address is renamed.
deleteMailbox(b) ==
  /\ b \in routable
  /\ routable' = routable \ {b}
  /\ UNCHANGED <<smtpVars, requestVars, taskVars, dbVars, replyVars, glitches>>

\* The router dies: its transactions roll back, its callers get a 451.
RouterCrash ==
  /\ \E h \in Handlers : req[h] # NoEnv
  /\ Glitch
  /\ mta' = [e \in Env |-> IF mta[e] = "calling" THEN "queued" ELSE mta[e]]
  /\ req' = [h \in Handlers |-> NoEnv]
  /\ cut' = {}
  /\ snapshot' = [h \in Handlers |-> {}]
  /\ task' = [h \in Handlers |-> NoTasks]
  /\ tseq' = [h \in Handlers |-> NoSeqs]
  /\ auto' = [b \in Boxes |-> [e \in Env |->
                IF auto[b][e] \in {"check", "log"} THEN "done" ELSE auto[b][e]]]
  /\ UNCHANGED <<rejected, dbVars, routable, replied>>

BridgeStep(e) ==
  \/ Data(e)
  \/ checkRspamd_unavailable(e)
  \/ checkRspamd_reject(e)
  \/ \E h \in Handlers : inboundHandler(h, e)

TaskStep(h, a) ==
  \/ processRecipient_begin(h, a)
  \/ lookupMailboxRoute(h, a)
  \/ processRecipient_lock(h, a)
  \/ processRecipient_duplicate(h, a)
  \/ processRecipient_new(h, a)
  \/ storeCiphertext(h, a)
  \/ processRecipient_insert(h, a)

TaskFailure(h, a) ==
  \/ storeCiphertext_lost(h, a)
  \/ processRecipient_commit_lost(h, a)
  \/ processRecipient_error(h, a)

AutoStep(b, e) == evaluateAutoReply(b, e) \/ evaluateAutoReply_log(b, e)

Next ==
  \/ \E e \in Env : BridgeStep(e)
  \/ \E h \in Handlers : CallTimeout(h) \/ inboundReply(h)
  \/ \E h \in Handlers, a \in Addr : TaskStep(h, a) \/ TaskFailure(h, a)
  \/ \E b \in Boxes, e \in Env :
       AutoStep(b, e) \/ evaluateAutoReply_error(b, e)
  \/ \E b \in Boxes : deleteMailbox(b)
  \/ RouterCrash

Spec == Init /\ [][Next]_vars

\* The MTA retries what it has queued, goroutines are scheduled, PostgreSQL
\* grants a free lock and the pool a free connection to each waiter in turn.
Fairness ==
  /\ \A e \in Env : WF_vars(BridgeStep(e))
  /\ \A h \in Handlers : WF_vars(inboundReply(h))
  /\ \A h \in Handlers, a \in Addr : SF_vars(TaskStep(h, a))
  /\ \A b \in Boxes, e \in Env : WF_vars(AutoStep(b, e))

FairSpec == Spec /\ Fairness

-----------------------------------------------------------------------------
(* What the pipeline promises.                                              *)

\* The 250 is a promise kept: when the MTA has been relieved of a message,
\* every recipient's mailbox holds it (inboundHandler's firstErr scan).
AcceptedIsStored ==
  \A e \in Env : mta[e] = "accepted" =>
    \A a \in Rcpt[e] : row[BoxOf[a]][e] # 0

\* A message a mailbox lists can be read: storeCiphertext precedes the INSERT
\* whatever fails in between.
RowHasObject ==
  \A b \in Boxes, e \in Env : row[b][e] # 0 => row[b][e] \in objects

\* The advisory lock makes the duplicate check reliable: between the check and
\* the INSERT nobody else stores the same message in the same mailbox, not a
\* second address of it in the same envelope, not a request whose caller timed
\* out, so the unique index never refuses an INSERT.
InsertNeverConflicts ==
  \A h \in Handlers, a \in Addr :
    req[h] # NoEnv /\ task[h][a] \in {"store", "insert"} =>
      row[BoxOf[a]][req[h]] = 0

\* Every object is reachable from a row or about to be, as long as nothing has
\* failed: duplicates and concurrent deliveries alone leave no orphan.
OrphansNeedGlitch ==
  glitches = 0 =>
    \A o \in objects :
      \/ \E b \in Boxes, e \in Env : row[b][e] = o
      \/ \E h \in Handlers, a \in Addr : task[h][a] = "insert" /\ tseq[h][a] = o

\* A message is answered automatically at most once, although its delivery may
\* be retried and its duplicate detected: auto_replied rows for a sender never
\* exceed the stored messages of that sender.
RepliesPerMessage ==
  \A b \in Boxes, s \in Senders :
    replied[b][s] <= Cardinality({e \in Env : SenderOf[e] = s /\ row[b][e] # 0})

\* The limit evaluateAutoReply announces: one automatic reply per sender and
\* mailbox in 24 hours. Its EXISTS and its INSERT are two statements.
OneReplyPerSender ==
  \A b \in Boxes, s \in Senders : replied[b][s] <= 1

Dest == [e \in Env |-> {BoxOf[a] : a \in Rcpt[e]}]

Contract == INSTANCE InboxContract WITH
  inbox <- [e \in Env |-> {b \in Boxes : row[b][e] # 0}],
  taken <- {e \in Env : mta[e] = "accepted"}

\* The bridge, the router, its retries and crashes together implement the
\* contract of InboxContract.
ImplementsContract == Contract!Spec

\* Every message that is not spam is accepted in the end: nobody waits for a
\* connection or a lock for ever and a retry meets its own earlier copies as
\* success, unless one of its mailboxes is deleted.
MailGetsThrough ==
  \A e \in Env \ Spam :
    mta[e] = "queued" ~> \/ mta[e] = "accepted"
                         \/ \E a \in Rcpt[e] : BoxOf[a] \notin routable
=============================================================================
