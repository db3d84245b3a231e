------------------------------ MODULE Outbound ------------------------------
(***************************************************************************)
(* Outbound mail of BYOS: the API handlers of services/api/outbound.go     *)
(* (prepare, send, schedule, cancel), the mail client bridge's send of     *)
(* services/api/bridge.go and the polling worker of                        *)
(* services/outbound-worker/src/main.rs (poll_scheduled, poll_once), which *)
(* share the PostgreSQL tables outbound_reservations, scheduled_messages   *)
(* and outbound_queue and the Redis rate counters.                         *)
(*                                                                         *)
(* A message is named by its reservation: UNIQUE(reservation_id) on        *)
(* scheduled_messages and outbound_queue makes the tables functions of it. *)
(* Timestamps are abstracted to the comparisons the SQL makes with now();  *)
(* the six Redis keys to the tightest one, shared by every message.        *)
(***************************************************************************)
EXTENDS Naturals, FiniteSets

CONSTANTS
  Resv,                 \* reservation ids
  Bridged,              \* those the bridge handler draws, known to it alone
  Workers,              \* outbound-worker processes polling the same tables
  NoRow,                \* "no current row" of a worker
  BatchLimit,           \* LIMIT of both polls (10 in the code)
  RateLimit,            \* messages per window of the tightest rate key
  MaxAttempts,          \* outbound_queue.max_attempts (5 in the schema)
  Undecryptable,        \* reservations whose envelope the worker cannot open
  LimiterMayBeSkipped,  \* a worker may run without its rate check
  MaxGlitches           \* bound on crashes, failed statements, lost replies

ASSUME ConstantsAssumption ==
  /\ NoRow \notin Resv
  /\ Bridged \subseteq Resv
  /\ BatchLimit \in Nat \ {0}
  /\ RateLimit \in Nat
  /\ MaxAttempts \in Nat \ {0}
  /\ Undecryptable \subseteq Resv
  /\ LimiterMayBeSkipped \in BOOLEAN
  /\ MaxGlitches \in Nat

VARIABLES
  reservation,    \* outbound_reservations.status
  resvLive,       \* reservations whose expires_at is in the future
  scheduled,      \* scheduled_messages.status
  schedTime,      \* now against scheduled_at and expires_at
  schedDeferred,  \* scheduled rows whose retry_after is in the future
  queue,          \* outbound_queue.status
  queueLive,      \* queue rows whose expires_at is in the future
  queueDeferred,  \* queue rows whose next_attempt_at is in the future
  attempts,       \* outbound_queue.attempts, saturating at MaxAttempts
  log,            \* statuses delivery_log holds for the message
  rate,           \* the rate counter of the current window
  pc,             \* where each worker is in its loop
  batch,          \* the rows its last SELECT returned and it has not finished
  row,            \* the row it is working on
  reply,          \* the API's last answer for the reservation
  accepted,       \* how often Postfix took the message
  windowSends,    \* messages Postfix took in the current rate window
  glitches        \* crashes, failed statements and lost replies so far

apiVars == <<reservation, resvLive, reply>>
schedVars == <<scheduled, schedTime, schedDeferred>>
queueVars == <<queue, queueLive, queueDeferred, attempts, log>>
workerVars == <<pc, batch, row>>
smtpVars == <<accepted, windowSends>>
vars == <<apiVars, schedVars, queueVars, rate, workerVars, smtpVars, glitches>>

ReservationStatus == {"absent", "reserved", "consumed", "expired"}
ScheduledStatus ==
  {"absent", "pending", "executed", "cancelled", "expired", "failed"}
QueueStatus == {"absent", "pending", "delivered", "bounced"}
Replies == {"none", "queued", "scheduled", "cancelled",
            "consumed_without_delivery", "empty_delivery_id"}
Marks == {"mark_inserted", "mark_conflict", "mark_error"}
Pcs == {"idle", "promote", "insert", "select", "deliver", "smtp", "sent",
        "log_delivered", "temp", "perm"} \cup Marks

TypeOK ==
  /\ reservation \in [Resv -> ReservationStatus]
  /\ resvLive \in SUBSET Resv
  /\ scheduled \in [Resv -> ScheduledStatus]
  /\ schedTime \in [Resv -> {"before", "due", "past"}]
  /\ schedDeferred \in SUBSET Resv
  /\ queue \in [Resv -> QueueStatus]
  /\ queueLive \in SUBSET Resv
  /\ queueDeferred \in SUBSET Resv
  /\ attempts \in [Resv -> 0..MaxAttempts]
  /\ log \in [Resv -> SUBSET {"delivered", "bounced"}]
  /\ rate \in 0..RateLimit
  /\ pc \in [Workers -> Pcs]
  /\ batch \in [Workers -> SUBSET Resv]
  /\ row \in [Workers -> Resv \cup {NoRow}]
  /\ reply \in [Resv -> Replies]
  /\ accepted \in [Resv -> Nat]
  /\ windowSends \in Nat
  /\ glitches \in 0..MaxGlitches

Init ==
  /\ reservation = [r \in Resv |-> "absent"]
  /\ resvLive = {}
  /\ scheduled = [r \in Resv |-> "absent"]
  /\ schedTime = [r \in Resv |-> "before"]
  /\ schedDeferred = {}
  /\ queue = [r \in Resv |-> "absent"]
  /\ queueLive = {}
  /\ queueDeferred = {}
  /\ attempts = [r \in Resv |-> 0]
  /\ log = [r \in Resv |-> {}]
  /\ rate = 0
  /\ pc = [w \in Workers |-> "idle"]
  /\ batch = [w \in Workers |-> {}]
  /\ row = [w \in Workers |-> NoRow]
  /\ reply = [r \in Resv |-> "none"]
  /\ accepted = [r \in Resv |-> 0]
  /\ windowSends = 0
  /\ glitches = 0

-----------------------------------------------------------------------------
(* Redis: RATE_LUA checks every key against its limit and only then         *)
(* increments them all. A Redis error counts as a denial.                   *)

\* Mutant: the script compares with > instead of >=.
RateOffByOne == rate <= RateLimit /\ rate' = rate + 1

RateAllowed == rate < RateLimit /\ rate' = rate + 1
RateDenied == UNCHANGED rate
RateSkipped == LimiterMayBeSkipped /\ UNCHANGED rate

-----------------------------------------------------------------------------
(* API handlers. Each is one transaction that holds the reservation row     *)
(* (FOR UPDATE) to its end, so it is one step; a Redis increment made       *)
(* inside it stays when the transaction rolls back.                         *)

outboundPrepareHandler(r) ==
  /\ reservation[r] = "absent"
  /\ reservation' = [reservation EXCEPT ![r] = "reserved"]
  /\ resvLive' = resvLive \cup {r}
  /\ UNCHANGED <<reply, schedVars, queueVars, rate, workerVars, smtpVars,
                 glitches>>

Usable(r) == reservation[r] = "reserved" /\ r \in resvLive

\* INSERT into outbound_queue: status pending, next_attempt_at = now().
InsertQueueRow(r) ==
  /\ queue' = [queue EXCEPT ![r] = "pending"]
  /\ queueLive' = queueLive \cup {r}
  /\ UNCHANGED <<queueDeferred, attempts, log>>

outboundSendHandler(r) ==
  /\ Usable(r)
  /\ RateAllowed
  /\ InsertQueueRow(r)
  /\ reservation' = [reservation EXCEPT ![r] = "consumed"]
  /\ reply' = [reply EXCEPT ![r] = "queued"]
  /\ UNCHANGED <<resvLive, schedVars, workerVars, smtpVars, glitches>>

\* The attachment count, an INSERT or the COMMIT fails after the rate check:
\* the transaction is rolled back, the Redis increment is not.
outboundSendRolledBack(r) ==
  /\ Usable(r)
  /\ RateAllowed
  /\ UNCHANGED <<apiVars, schedVars, queueVars, workerVars, smtpVars, glitches>>

\* A retry of send on a consumed reservation answers from outbound_queue.
outboundSendReplay(r) ==
  /\ reservation[r] = "consumed"
  /\ reply' = [reply EXCEPT ![r] =
       IF queue[r] = "absent" THEN "consumed_without_delivery" ELSE "queued"]
  /\ UNCHANGED <<reservation, resvLive, schedVars, queueVars, rate, workerVars,
                 smtpVars, glitches>>

outboundScheduleHandler(r) ==
  /\ Usable(r)
  /\ scheduled' = [scheduled EXCEPT ![r] = "pending"]
  /\ schedTime' = [schedTime EXCEPT ![r] = "before"]
  /\ reservation' = [reservation EXCEPT ![r] = "consumed"]
  /\ reply' = [reply EXCEPT ![r] = "scheduled"]
  /\ UNCHANGED <<resvLive, schedDeferred, queueVars, rate, workerVars,
                 smtpVars, glitches>>

\* A retry of schedule on a consumed reservation answers from
\* scheduled_messages and ignores a missing row.
outboundScheduleReplay(r) ==
  /\ reservation[r] = "consumed"
  /\ reply' = [reply EXCEPT ![r] =
       IF scheduled[r] = "absent" THEN "empty_delivery_id" ELSE "scheduled"]
  /\ UNCHANGED <<reservation, resvLive, schedVars, queueVars, rate, workerVars,
                 smtpVars, glitches>>

\* Either handler on a reservation whose ten minutes are over: 410.
ReservationExpired(r) ==
  /\ reservation[r] = "reserved" /\ r \notin resvLive
  /\ reservation' = [reservation EXCEPT ![r] = "expired"]
  /\ UNCHANGED <<resvLive, reply, schedVars, queueVars, rate, workerVars,
                 smtpVars, glitches>>

outboundScheduledCancelHandler(r) ==
  /\ scheduled[r] = "pending"
  /\ scheduled' = [scheduled EXCEPT ![r] = "cancelled"]
  /\ reply' = [reply EXCEPT ![r] = "cancelled"]
  /\ UNCHANGED <<reservation, resvLive, schedTime, schedDeferred, queueVars,
                 rate, workerVars, smtpVars, glitches>>

ApiStep(r) ==
  \/ outboundPrepareHandler(r)
  \/ outboundSendHandler(r)
  \/ outboundSendRolledBack(r)
  \/ outboundSendReplay(r)
  \/ outboundScheduleHandler(r)
  \/ outboundScheduleReplay(r)
  \/ ReservationExpired(r)
  \/ outboundScheduledCancelHandler(r)

-----------------------------------------------------------------------------
(* The bridge's send: the rate check, the reservation, the queue row and    *)
(* the consumption are four statements with no transaction around them, and *)
(* the request may end after any of them. Nobody else ever learns the       *)
(* reservation's id.                                                        *)

bridgeOutboundSend_reserve(r) ==
  /\ reservation[r] = "absent"
  /\ RateAllowed
  /\ reservation' = [reservation EXCEPT ![r] = "reserved"]
  /\ resvLive' = resvLive \cup {r}
  /\ UNCHANGED <<reply, schedVars, queueVars, workerVars, smtpVars, glitches>>

bridgeOutboundSend_queue(r) ==
  /\ reservation[r] = "reserved" /\ queue[r] = "absent"
  /\ InsertQueueRow(r)
  /\ UNCHANGED <<apiVars, schedVars, rate, workerVars, smtpVars, glitches>>

\* The UPDATE's error is ignored: the client is answered either way.
bridgeOutboundSend_consume(r) ==
  /\ queue[r] # "absent" /\ reply[r] = "none"
  /\ \/ reservation' = [reservation EXCEPT ![r] = "consumed"]
     \/ UNCHANGED reservation
  /\ reply' = [reply EXCEPT ![r] = "queued"]
  /\ UNCHANGED <<resvLive, schedVars, queueVars, rate, workerVars, smtpVars,
                 glitches>>

BridgeStep(r) ==
  \/ bridgeOutboundSend_reserve(r)
  \/ bridgeOutboundSend_queue(r)
  \/ bridgeOutboundSend_consume(r)

-----------------------------------------------------------------------------
(* The worker loop: poll_scheduled, poll_once, sleep. Every statement is    *)
(* its own transaction, so the rows a SELECT returned are a snapshot and    *)
(* its FOR UPDATE SKIP LOCKED holds nothing once it has returned.           *)

Batches(S) == {B \in SUBSET S : Cardinality(B) =
  IF Cardinality(S) < BatchLimit THEN Cardinality(S) ELSE BatchLimit}

\* Go on with row r, at step next.
WorkOn(w, r, next) ==
  /\ pc' = [pc EXCEPT ![w] = next]
  /\ row' = [row EXCEPT ![w] = r]
  /\ UNCHANGED batch

\* Row r is finished: back to the loop, or to done when it was the last.
Finish(w, r, loop, done) ==
  /\ batch' = [batch EXCEPT ![w] = @ \ {r}]
  /\ pc' = [pc EXCEPT ![w] = IF batch[w] \subseteq {r} THEN done ELSE loop]
  /\ row' = [row EXCEPT ![w] = NoRow]

Promoted(w, r) == Finish(w, r, "promote", "select")
Handled(w, r) == Finish(w, r, "deliver", "idle")

DueScheduled ==
  {r \in Resv : /\ scheduled[r] = "pending"
                /\ schedTime[r] = "due"
                /\ r \notin schedDeferred}

poll_scheduled(w) ==
  /\ pc[w] = "idle"
  /\ DueScheduled # {}
  /\ \E B \in Batches(DueScheduled) : batch' = [batch EXCEPT ![w] = B]
  /\ pc' = [pc EXCEPT ![w] = "promote"]
  /\ UNCHANGED <<row, apiVars, schedVars, queueVars, rate, smtpVars, glitches>>

\* Mutant: nothing marks the expired rows.
NoExpiry(w) ==
  /\ pc[w] = "idle"
  /\ DueScheduled = {}
  /\ pc' = [pc EXCEPT ![w] = "select"]
  /\ UNCHANGED <<batch, row, schedVars, apiVars, queueVars, rate, smtpVars,
                 glitches>>

\* Only a poll that finds nothing due marks the rows past their expiry.
poll_scheduled_expire(w) ==
  /\ pc[w] = "idle"
  /\ DueScheduled = {}
  /\ scheduled' = [r \in Resv |->
       IF scheduled[r] = "pending" /\ schedTime[r] = "past"
       THEN "expired" ELSE scheduled[r]]
  /\ pc' = [pc EXCEPT ![w] = "select"]
  /\ UNCHANGED <<batch, row, schedTime, schedDeferred, apiVars, queueVars, rate,
                 smtpVars, glitches>>

\* The SELECT fails, which main only logs, or the UPDATE does, whose result is
\* ignored (let _ =): poll_once is next all the same.
poll_scheduled_error(w) ==
  /\ pc[w] = "idle"
  /\ glitches < MaxGlitches /\ glitches' = glitches + 1
  /\ pc' = [pc EXCEPT ![w] = "select"]
  /\ UNCHANGED <<batch, row, apiVars, schedVars, queueVars, rate, smtpVars>>

promote_rate(w, r) ==
  /\ pc[w] = "promote" /\ r \in batch[w]
  /\ RateAllowed \/ RateSkipped
  /\ WorkOn(w, r, "insert")
  /\ UNCHANGED <<apiVars, schedVars, queueVars, smtpVars, glitches>>

promote_deferred(w, r) ==
  /\ pc[w] = "promote" /\ r \in batch[w]
  /\ RateDenied
  /\ schedDeferred' = schedDeferred \cup {r}
  /\ Promoted(w, r)
  /\ UNCHANGED <<scheduled, schedTime, apiVars, queueVars, smtpVars, glitches>>

\* The mailbox lookup fails: the row is left alone until the next poll.
promote_lookup_error(w, r) ==
  /\ pc[w] = "promote" /\ r \in batch[w]
  /\ glitches < MaxGlitches /\ glitches' = glitches + 1
  /\ Promoted(w, r)
  /\ UNCHANGED <<apiVars, schedVars, queueVars, rate, smtpVars>>

\* INSERT ... ON CONFLICT (reservation_id) DO NOTHING.
promote_insert(w) ==
  /\ pc[w] = "insert"
  /\ IF queue[row[w]] = "absent"
     THEN InsertQueueRow(row[w]) /\ WorkOn(w, row[w], "mark_inserted")
     ELSE UNCHANGED queueVars /\ WorkOn(w, row[w], "mark_conflict")
  /\ UNCHANGED <<apiVars, schedVars, rate, smtpVars, glitches>>

promote_insert_error(w) ==
  /\ pc[w] = "insert"
  /\ glitches < MaxGlitches /\ glitches' = glitches + 1
  /\ WorkOn(w, row[w], "mark_error")
  /\ UNCHANGED <<apiVars, schedVars, queueVars, rate, smtpVars>>

\* Mutant: every outcome of the INSERT counts as a promotion.
AlwaysExecuted(step, status) == "executed"

\* After a fresh INSERT the row becomes executed whatever its status is now;
\* after a conflict only a pending one does; after an error it is failed.
MarkedStatus(step, status) ==
  IF step = "mark_error" THEN "failed"
  ELSE IF step = "mark_conflict" /\ status # "pending" THEN status
  ELSE "executed"

promote_mark(w) ==
  /\ pc[w] \in Marks
  /\ scheduled' = [scheduled EXCEPT ![row[w]] = MarkedStatus(pc[w], @)]
  /\ Promoted(w, row[w])
  /\ UNCHANGED <<schedTime, schedDeferred, apiVars, queueVars, rate, smtpVars,
                 glitches>>

\* The result of that UPDATE is ignored (let _ =), a failure included.
promote_mark_lost(w) ==
  /\ pc[w] \in Marks
  /\ glitches < MaxGlitches /\ glitches' = glitches + 1
  /\ Promoted(w, row[w])
  /\ UNCHANGED <<apiVars, schedVars, queueVars, rate, smtpVars>>

\* Mutant: the SELECT forgets status='pending'.
DueWhateverStatus ==
  {r \in Resv : queue[r] # "absent" /\ r \in queueLive \ queueDeferred}

DueQueue ==
  {r \in Resv : /\ queue[r] = "pending"
                /\ r \in queueLive
                /\ r \notin queueDeferred}

poll_once(w) ==
  /\ pc[w] = "select"
  /\ \E B \in Batches(DueQueue) :
       /\ batch' = [batch EXCEPT ![w] = B]
       /\ pc' = [pc EXCEPT ![w] = IF B = {} THEN "idle" ELSE "deliver"]
  /\ UNCHANGED <<row, apiVars, schedVars, queueVars, rate, smtpVars, glitches>>

Bumped(a) == IF a < MaxAttempts THEN a + 1 ELSE a

\* UPDATE outbound_queue SET status='bounced', attempts=attempts+1; most
\* causes also write delivery_log.
Bounce(r) ==
  /\ queue' = [queue EXCEPT ![r] = "bounced"]
  /\ attempts' = [attempts EXCEPT ![r] = Bumped(@)]
  /\ \E s \in {{}, {"bounced"}} : log' = [log EXCEPT ![r] = @ \cup s]
  /\ UNCHANGED <<queueLive, queueDeferred>>

\* Missing or wrong version metadata (before decryption), too many recipients.
deliver_refused(w, r) ==
  /\ pc[w] = "deliver" /\ r \in batch[w]
  /\ Bounce(r)
  /\ Handled(w, r)
  /\ UNCHANGED <<apiVars, schedVars, rate, smtpVars, glitches>>

\* Mutant: the failure path leaves the row pending for ever.
NeverGivesUp(w, r) ==
  /\ pc[w] = "deliver" /\ r \in batch[w] /\ r \in Undecryptable
  /\ attempts' = [attempts EXCEPT ![r] = Bumped(@)]
  /\ queueDeferred' = queueDeferred \cup {r}
  /\ Handled(w, r)
  /\ UNCHANGED <<queue, queueLive, log, apiVars, schedVars, rate, smtpVars,
                 glitches>>

\* decrypt_outbound fails: the only path that compares with max_attempts.
deliver_undecryptable(w, r) ==
  /\ pc[w] = "deliver" /\ r \in batch[w] /\ r \in Undecryptable
  /\ attempts' = [attempts EXCEPT ![r] = Bumped(@)]
  /\ queue' = [queue EXCEPT ![r] =
       IF attempts[r] + 1 >= MaxAttempts THEN "bounced" ELSE "pending"]
  /\ queueDeferred' = queueDeferred \cup {r}
  /\ log' = [log EXCEPT ![r] = @ \cup {"bounced"}]
  /\ Handled(w, r)
  /\ UNCHANGED <<queueLive, apiVars, schedVars, rate, smtpVars, glitches>>

\* Mutant: poll_once delivers without the rate check.
Unmetered(w, r) ==
  /\ pc[w] = "deliver" /\ r \in batch[w] /\ r \notin Undecryptable
  /\ WorkOn(w, r, "smtp")
  /\ UNCHANGED <<rate, apiVars, schedVars, queueVars, smtpVars, glitches>>

deliver_rate(w, r) ==
  /\ pc[w] = "deliver" /\ r \in batch[w] /\ r \notin Undecryptable
  /\ RateAllowed \/ RateSkipped
  /\ WorkOn(w, r, "smtp")
  /\ UNCHANGED <<apiVars, schedVars, queueVars, smtpVars, glitches>>

deliver_deferred(w, r) ==
  /\ pc[w] = "deliver" /\ r \in batch[w] /\ r \notin Undecryptable
  /\ RateDenied
  /\ queueDeferred' = queueDeferred \cup {r}
  /\ Handled(w, r)
  /\ UNCHANGED <<queue, queueLive, attempts, log, apiVars, schedVars, smtpVars,
                 glitches>>

\* DKIM key lookup, decryption or signing, or an address, fails.
deliver_unsigned(w) ==
  /\ pc[w] = "smtp"
  /\ Bounce(row[w])
  /\ Handled(w, row[w])
  /\ UNCHANGED <<apiVars, schedVars, rate, smtpVars, glitches>>

PostfixTakes(r) ==
  /\ accepted' = [accepted EXCEPT ![r] = @ + 1]
  /\ windowSends' = windowSends + 1

\* Mutant: the result of send_raw is ignored.
SmtpResultIgnored(w) ==
  /\ pc[w] = "smtp"
  /\ PostfixTakes(row[w]) \/ UNCHANGED smtpVars
  /\ WorkOn(w, row[w], "sent")
  /\ UNCHANGED <<apiVars, schedVars, queueVars, rate, glitches>>

\* send_raw returned: taken, or refused with a reply the worker classifies.
deliver_smtp(w) ==
  /\ pc[w] = "smtp"
  /\ \/ PostfixTakes(row[w]) /\ WorkOn(w, row[w], "sent")
     \/ UNCHANGED smtpVars /\ WorkOn(w, row[w], "temp")
     \/ UNCHANGED smtpVars /\ WorkOn(w, row[w], "perm")
  /\ UNCHANGED <<apiVars, schedVars, queueVars, rate, glitches>>

\* Postfix took the message and its 250 is lost: a timeout, so temporary.
deliver_reply_lost(w) ==
  /\ pc[w] = "smtp"
  /\ glitches < MaxGlitches /\ glitches' = glitches + 1
  /\ PostfixTakes(row[w])
  /\ WorkOn(w, row[w], "temp")
  /\ UNCHANGED <<apiVars, schedVars, queueVars, rate>>

\* Mutant: the row is not marked after the 250.
NotMarkedDelivered(w) ==
  /\ pc[w] = "sent"
  /\ attempts' = [attempts EXCEPT ![row[w]] = Bumped(@)]
  /\ WorkOn(w, row[w], "log_delivered")
  /\ UNCHANGED <<queue, queueLive, queueDeferred, log, apiVars, schedVars, rate,
                 smtpVars, glitches>>

deliver_sent(w) ==
  /\ pc[w] = "sent"
  /\ queue' = [queue EXCEPT ![row[w]] = "delivered"]
  /\ attempts' = [attempts EXCEPT ![row[w]] = Bumped(@)]
  /\ WorkOn(w, row[w], "log_delivered")
  /\ UNCHANGED <<queueLive, queueDeferred, log, apiVars, schedVars, rate,
                 smtpVars, glitches>>

deliver_log(w) ==
  /\ pc[w] = "log_delivered"
  /\ log' = [log EXCEPT ![row[w]] = @ \cup {"delivered"}]
  /\ Handled(w, row[w])
  /\ UNCHANGED <<queue, queueLive, queueDeferred, attempts, apiVars, schedVars,
                 rate, smtpVars, glitches>>

\* Temporary failure: attempts grows, max_attempts is not consulted.
deliver_temp(w) ==
  /\ pc[w] = "temp"
  /\ attempts' = [attempts EXCEPT ![row[w]] = Bumped(@)]
  /\ queueDeferred' = queueDeferred \cup {row[w]}
  /\ Handled(w, row[w])
  /\ UNCHANGED <<queue, queueLive, log, apiVars, schedVars, rate, smtpVars,
                 glitches>>

deliver_perm(w) ==
  /\ pc[w] = "perm"
  /\ Bounce(row[w])
  /\ Handled(w, row[w])
  /\ UNCHANGED <<apiVars, schedVars, rate, smtpVars, glitches>>

\* The process dies, or a statement of poll_once fails and its ? abandons the
\* rest of the batch: whatever the worker knew is gone.
Abort(w) ==
  /\ pc[w] # "idle"
  /\ glitches < MaxGlitches /\ glitches' = glitches + 1
  /\ pc' = [pc EXCEPT ![w] = "idle"]
  /\ batch' = [batch EXCEPT ![w] = {}]
  /\ row' = [row EXCEPT ![w] = NoRow]
  /\ UNCHANGED <<apiVars, schedVars, queueVars, rate, smtpVars>>

PromoteStep(w) ==
  \/ poll_scheduled(w)
  \/ poll_scheduled_expire(w)
  \/ poll_scheduled_error(w)
  \/ \E r \in Resv : \/ promote_rate(w, r)
                     \/ promote_deferred(w, r)
                     \/ promote_lookup_error(w, r)
  \/ promote_insert(w)
  \/ promote_insert_error(w)
  \/ promote_mark(w)
  \/ promote_mark_lost(w)

DeliverStep(w) ==
  \/ poll_once(w)
  \/ \E r \in Resv : \/ deliver_refused(w, r)
                     \/ deliver_undecryptable(w, r)
                     \/ deliver_rate(w, r)
                     \/ deliver_deferred(w, r)
  \/ deliver_unsigned(w)
  \/ deliver_smtp(w)
  \/ deliver_reply_lost(w)
  \/ deliver_sent(w)
  \/ deliver_log(w)
  \/ deliver_temp(w)
  \/ deliver_perm(w)

-----------------------------------------------------------------------------
(* Time passes: each comparison with now() flips at its moment.             *)

ReservationTimeout(r) ==
  /\ reservation[r] = "reserved" /\ r \in resvLive
  /\ resvLive' = resvLive \ {r}
  /\ UNCHANGED <<reservation, reply, schedVars, queueVars, rate, workerVars,
                 smtpVars, glitches>>

ScheduleTime(r) ==
  /\ scheduled[r] # "absent" /\ schedTime[r] # "past"
  /\ schedTime' = [schedTime EXCEPT ![r] = IF @ = "before" THEN "due" ELSE "past"]
  /\ UNCHANGED <<scheduled, schedDeferred, apiVars, queueVars, rate, workerVars,
                 smtpVars, glitches>>

ScheduleRetryTime(r) ==
  /\ r \in schedDeferred
  /\ schedDeferred' = schedDeferred \ {r}
  /\ UNCHANGED <<scheduled, schedTime, apiVars, queueVars, rate, workerVars,
                 smtpVars, glitches>>

QueueRetryTime(r) ==
  /\ r \in queueDeferred
  /\ queueDeferred' = queueDeferred \ {r}
  /\ UNCHANGED <<queue, queueLive, attempts, log, apiVars, schedVars, rate,
                 workerVars, smtpVars, glitches>>

QueueTimeout(r) ==
  /\ r \in queueLive
  /\ queueLive' = queueLive \ {r}
  /\ UNCHANGED <<queue, queueDeferred, attempts, log, apiVars, schedVars, rate,
                 workerVars, smtpVars, glitches>>

NewWindow ==
  /\ rate > 0 \/ windowSends > 0
  /\ rate' = 0
  /\ windowSends' = 0
  /\ UNCHANGED <<accepted, apiVars, schedVars, queueVars, workerVars, glitches>>

TimeStep(r) ==
  \/ ReservationTimeout(r)
  \/ ScheduleTime(r)
  \/ ScheduleRetryTime(r)
  \/ QueueRetryTime(r)
  \/ QueueTimeout(r)

WorkerStep(w) == PromoteStep(w) \/ DeliverStep(w)

Next ==
  \/ \E r \in Resv \ Bridged : ApiStep(r)
  \/ \E r \in Bridged : BridgeStep(r)
  \/ \E r \in Resv : TimeStep(r)
  \/ \E w \in Workers : WorkerStep(w) \/ Abort(w)
  \/ NewWindow

Spec == Init /\ [][Next]_vars

\* The worker's loop is an infinite loop in its own process, and time passes;
\* nothing is assumed of the clients.
Fairness ==
  /\ \A w \in Workers : WF_vars(WorkerStep(w))
  /\ \A r \in Resv : WF_vars(ScheduleTime(r)) /\ WF_vars(ScheduleRetryTime(r))
                     /\ WF_vars(QueueRetryTime(r))
  /\ WF_vars(NewWindow)

FairSpec == Spec /\ Fairness

-----------------------------------------------------------------------------
(* What the pipeline promises.                                              *)

\* No accepted message is lost: a reservation is consumed exactly when a row
\* carries its message (send and schedule insert and consume in one
\* transaction; the bridge, which does not, inserts first), and a scheduled
\* message is marked executed only once it is in outbound_queue, whatever
\* crashes, conflicts and cancellations do to poll_scheduled between its
\* INSERT and its UPDATE.
NothingLost ==
  \A r \in Resv :
    /\ reservation[r] = "consumed" =>
         scheduled[r] # "absent" \/ queue[r] # "absent"
    /\ scheduled[r] # "absent" \/ queue[r] # "absent" =>
         reservation[r] = "consumed" \/ r \in Bridged
    /\ scheduled[r] = "executed" => queue[r] # "absent"
    /\ reply[r] = "queued" => queue[r] # "absent"

\* poll_once never reports a delivery that did not happen: a queue row is
\* delivered, or delivery_log says so, only after Postfix took the message.
DeliveredWasTaken ==
  \A r \in Resv :
    queue[r] = "delivered" \/ "delivered" \in log[r] => accepted[r] > 0

\* A single worker hands a message to Postfix only while its row is pending,
\* although it works from a batch it selected earlier.
SentWhilePending ==
  [][\A r \in Resv : accepted'[r] > accepted[r] => queue[r] = "pending"]_vars

\* With a single worker Postfix takes a message more than once only because of
\* a crash, a failed statement or a lost reply, and once more for each.
TakenOncePerGlitch ==
  \A r \in Resv : accepted[r] <= 1 + glitches

\* The rate counters hold: in one window Postfix takes at most RateLimit
\* messages, plus one per worker for a message charged just before the window
\* turned (check_and_incr_rate precedes send_raw).
WindowBudget ==
  windowSends <= RateLimit + Cardinality(Workers)

\* With a single worker a delivered or bounced row keeps its status: the
\* unconditional UPDATEs of poll_once never meet a settled row.
SettledStays ==
  [][\A r \in Resv :
       queue[r] \in {"delivered", "bounced"} => queue'[r] = queue[r]]_vars

\* Every scheduled message stops being pending: it is promoted, cancelled,
\* failed or expired, although rate limiting keeps deferring it and only an
\* empty poll marks the expired ones.
ScheduledSettles ==
  \A r \in Resv : scheduled[r] = "pending" ~> scheduled[r] # "pending"

\* A message the worker cannot decrypt does not stay in the queue: backoff and
\* max_attempts bounce it, unless it leaves the queue's lifetime first.
UndecryptableBounces ==
  \A r \in Undecryptable :
    queue[r] = "pending" ~> queue[r] = "bounced" \/ r \notin queueLive

\* What tests/scheduled_e2e.ps1 asserts of a cancelled message: once the API
\* has answered "cancelled" the message is never handed to Postfix.
CancelledNeverSent ==
  \A r \in Resv : reply[r] = "cancelled" => accepted[r] = 0
=============================================================================
