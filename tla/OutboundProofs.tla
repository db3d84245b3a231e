--------------------------- MODULE OutboundProofs ---------------------------
(***************************************************************************)
(* Theorems about Outbound, for every set of reservations, every number of *)
(* workers, every bound, and a limiter that may or may not be skipped.     *)
(***************************************************************************)
EXTENDS Outbound, FiniteSetTheorems, TLAPS

USE DEF ReservationStatus, ScheduledStatus, QueueStatus, Replies, Marks, Pcs

-----------------------------------------------------------------------------
(* Type correctness. It is inductive only together with the fact that a     *)
(* worker in the middle of a row knows which row that is.                   *)

Busy == Marks \cup {"insert", "smtp", "sent", "log_delivered", "temp", "perm"}

RowKnown == \A w \in Workers : pc[w] \in Busy => row[w] \in Resv

TypeInv == TypeOK /\ RowKnown

\* Every step of the API, of a worker and of time keeps the types.
LEMMA TypeStep == TypeInv /\ [Next]_vars => TypeInv'
<1> SUFFICES ASSUME TypeInv, [Next]_vars PROVE TypeInv'
  OBVIOUS
<1> USE ConstantsAssumption DEF TypeInv, TypeOK, RowKnown, Busy, apiVars,
        schedVars, queueVars, workerVars, smtpVars
<1>1. ASSUME NEW r \in Resv \ Bridged, outboundPrepareHandler(r)
      PROVE  TypeInv'
  BY <1>1 DEF outboundPrepareHandler
<1>2. ASSUME NEW r \in Resv \ Bridged, outboundSendHandler(r)
      PROVE  TypeInv'
  BY <1>2 DEF outboundSendHandler, InsertQueueRow, RateAllowed, Usable
<1>3. ASSUME NEW r \in Resv \ Bridged, outboundSendRolledBack(r)
      PROVE  TypeInv'
  BY <1>3 DEF outboundSendRolledBack, RateAllowed, Usable
<1>4. ASSUME NEW r \in Resv \ Bridged, outboundSendReplay(r)
      PROVE  TypeInv'
  BY <1>4 DEF outboundSendReplay
<1>5. ASSUME NEW r \in Resv \ Bridged, outboundScheduleHandler(r)
      PROVE  TypeInv'
  BY <1>5 DEF outboundScheduleHandler, Usable
<1>6. ASSUME NEW r \in Resv \ Bridged, outboundScheduleReplay(r)
      PROVE  TypeInv'
  BY <1>6 DEF outboundScheduleReplay
<1>7. ASSUME NEW r \in Resv \ Bridged, ReservationExpired(r)
      PROVE  TypeInv'
  BY <1>7 DEF ReservationExpired
<1>8. ASSUME NEW r \in Resv \ Bridged, outboundScheduledCancelHandler(r)
      PROVE  TypeInv'
  BY <1>8 DEF outboundScheduledCancelHandler
<1>9. ASSUME NEW r \in Bridged, bridgeOutboundSend_reserve(r)
      PROVE  TypeInv'
  BY <1>9 DEF bridgeOutboundSend_reserve, RateAllowed
<1>10. ASSUME NEW r \in Bridged, bridgeOutboundSend_queue(r)
      PROVE  TypeInv'
  BY <1>10 DEF bridgeOutboundSend_queue, InsertQueueRow
<1>11. ASSUME NEW r \in Bridged, bridgeOutboundSend_consume(r)
      PROVE  TypeInv'
  BY <1>11 DEF bridgeOutboundSend_consume
<1>12. ASSUME NEW r \in Resv, ReservationTimeout(r)
      PROVE  TypeInv'
  BY <1>12 DEF ReservationTimeout
<1>13. ASSUME NEW r \in Resv, ScheduleTime(r)
      PROVE  TypeInv'
  BY <1>13 DEF ScheduleTime
<1>14. ASSUME NEW r \in Resv, ScheduleRetryTime(r)
      PROVE  TypeInv'
  BY <1>14 DEF ScheduleRetryTime
<1>15. ASSUME NEW r \in Resv, QueueRetryTime(r)
      PROVE  TypeInv'
  BY <1>15 DEF QueueRetryTime
<1>16. ASSUME NEW r \in Resv, QueueTimeout(r)
      PROVE  TypeInv'
  BY <1>16 DEF QueueTimeout
<1>17. ASSUME NEW w \in Workers, poll_scheduled(w)
      PROVE  TypeInv'
  BY <1>17 DEF poll_scheduled, Batches, DueScheduled
<1>18. ASSUME NEW w \in Workers, poll_scheduled_expire(w)
      PROVE  TypeInv'
  BY <1>18 DEF poll_scheduled_expire, DueScheduled
<1>41. ASSUME NEW w \in Workers, poll_scheduled_error(w)
      PROVE  TypeInv'
  BY <1>41 DEF poll_scheduled_error
<1>19. ASSUME NEW w \in Workers, NEW r \in Resv, promote_rate(w, r)
      PROVE  TypeInv'
  BY <1>19 DEF promote_rate, RateAllowed, RateSkipped, WorkOn
<1>20. ASSUME NEW w \in Workers, NEW r \in Resv, promote_deferred(w, r)
      PROVE  TypeInv'
  BY <1>20 DEF promote_deferred, RateDenied, Promoted, Finish
<1>21. ASSUME NEW w \in Workers, NEW r \in Resv, promote_lookup_error(w, r)
      PROVE  TypeInv'
  BY <1>21 DEF promote_lookup_error, Promoted, Finish
<1>22. ASSUME NEW w \in Workers, promote_insert(w)
      PROVE  TypeInv'
  BY <1>22 DEF promote_insert, InsertQueueRow, WorkOn
<1>23. ASSUME NEW w \in Workers, promote_insert_error(w)
      PROVE  TypeInv'
  BY <1>23 DEF promote_insert_error, WorkOn
<1>24. ASSUME NEW w \in Workers, promote_mark(w)
      PROVE  TypeInv'
  BY <1>24 DEF promote_mark, Promoted, Finish, MarkedStatus
<1>25. ASSUME NEW w \in Workers, promote_mark_lost(w)
      PROVE  TypeInv'
  BY <1>25 DEF promote_mark_lost, Promoted, Finish
<1>26. ASSUME NEW w \in Workers, poll_once(w)
      PROVE  TypeInv'
  BY <1>26 DEF poll_once, Batches, DueQueue
<1>27. ASSUME NEW w \in Workers, NEW r \in Resv, deliver_refused(w, r)
      PROVE  TypeInv'
  BY <1>27 DEF deliver_refused, Handled, Finish, Bounce, Bumped
<1>28. ASSUME NEW w \in Workers, NEW r \in Resv, deliver_undecryptable(w, r)
      PROVE  TypeInv'
  BY <1>28 DEF deliver_undecryptable, Handled, Finish, Bumped
<1>29. ASSUME NEW w \in Workers, NEW r \in Resv, deliver_rate(w, r)
      PROVE  TypeInv'
  BY <1>29 DEF deliver_rate, RateAllowed, RateSkipped, WorkOn
<1>30. ASSUME NEW w \in Workers, NEW r \in Resv, deliver_deferred(w, r)
      PROVE  TypeInv'
  BY <1>30 DEF deliver_deferred, RateDenied, Handled, Finish
<1>31. ASSUME NEW w \in Workers, deliver_unsigned(w)
      PROVE  TypeInv'
  BY <1>31 DEF deliver_unsigned, Handled, Finish, Bounce, Bumped
<1>32. ASSUME NEW w \in Workers, deliver_smtp(w)
      PROVE  TypeInv'
  BY <1>32 DEF deliver_smtp, WorkOn, PostfixTakes
<1>33. ASSUME NEW w \in Workers, deliver_reply_lost(w)
      PROVE  TypeInv'
  BY <1>33 DEF deliver_reply_lost, WorkOn, PostfixTakes
<1>34. ASSUME NEW w \in Workers, deliver_sent(w)
      PROVE  TypeInv'
  BY <1>34 DEF deliver_sent, WorkOn, Bumped
<1>35. ASSUME NEW w \in Workers, deliver_log(w)
      PROVE  TypeInv'
  BY <1>35 DEF deliver_log, Handled, Finish
<1>36. ASSUME NEW w \in Workers, deliver_temp(w)
      PROVE  TypeInv'
  BY <1>36 DEF deliver_temp, Handled, Finish, Bumped
<1>37. ASSUME NEW w \in Workers, deliver_perm(w)
      PROVE  TypeInv'
  BY <1>37 DEF deliver_perm, Handled, Finish, Bounce, Bumped
<1>38. ASSUME NEW w \in Workers, Abort(w)
      PROVE  TypeInv'
  BY <1>38 DEF Abort
<1>39. ASSUME NewWindow
      PROVE  TypeInv'
  BY <1>39 DEF NewWindow
<1>40. CASE UNCHANGED vars
  BY <1>40 DEF vars
<1> QED
  BY <1>1, <1>2, <1>3, <1>4, <1>5, <1>6, <1>7, <1>8, <1>9, <1>10, <1>11,
     <1>12, <1>13, <1>14, <1>15, <1>16, <1>17, <1>18, <1>41, <1>19, <1>20, <1>21,
     <1>22, <1>23, <1>24, <1>25, <1>26, <1>27, <1>28, <1>29, <1>30, <1>31,
     <1>32, <1>33, <1>34, <1>35, <1>36, <1>37, <1>38, <1>39, <1>40
     DEF Next, ApiStep, BridgeStep, TimeStep, WorkerStep, PromoteStep,
         DeliverStep

\* Outbound is type correct: in particular the rate counter never passes its
\* limit (RATE_LUA checks every key before it increments any) and a worker
\* never applies a statement to a row it did not select.
THEOREM TypeCorrect == Spec => [](TypeOK)
<1>1. Init => TypeInv
  BY ConstantsAssumption DEF Init, TypeInv, TypeOK, RowKnown, Busy
<1>2. TypeInv => TypeOK
  BY DEF TypeInv
<1> QED
  BY <1>1, <1>2, TypeStep, PTL DEF Spec

-----------------------------------------------------------------------------
(* No lost message and no phantom delivery. What a worker remembers about    *)
(* its rows stays true while other workers and the API change the tables,    *)
(* because rows are never removed and accepted never decreases; that is what *)
(* lets it act on a stale snapshot without losing a message.                 *)

Promoting == Marks \cup {"insert"}
Delivering == {"smtp", "sent", "log_delivered", "temp", "perm"}

WorkerKnows ==
  \A w \in Workers :
    /\ pc[w] \in Promoting => scheduled[row[w]] # "absent"
    /\ pc[w] \in {"mark_inserted", "mark_conflict"} => queue[row[w]] # "absent"
    /\ pc[w] \in Delivering => queue[row[w]] # "absent"
    /\ pc[w] \in {"sent", "log_delivered"} => accepted[row[w]] > 0
    /\ pc[w] \in Promoting \cup {"promote"} =>
         \A r \in batch[w] : scheduled[r] # "absent"
    /\ pc[w] \in Delivering \cup {"deliver"} =>
         \A r \in batch[w] : queue[r] # "absent"

SafeInv == WorkerKnows /\ NothingLost /\ DeliveredWasTaken

\* Every step keeps what the workers know and the two promises.
LEMMA SafeStep == TypeInv /\ SafeInv /\ [Next]_vars => SafeInv'
<1> SUFFICES ASSUME TypeInv, SafeInv, [Next]_vars PROVE SafeInv'
  OBVIOUS
<1> USE ConstantsAssumption DEF TypeInv, TypeOK, RowKnown, Busy, apiVars,
        schedVars, queueVars, workerVars, smtpVars, SafeInv, WorkerKnows,
        Promoting, Delivering, NothingLost, DeliveredWasTaken
<1>1. ASSUME NEW r \in Resv \ Bridged, outboundPrepareHandler(r)
      PROVE  SafeInv'
  BY <1>1 DEF outboundPrepareHandler
<1>2. ASSUME NEW r \in Resv \ Bridged, outboundSendHandler(r)
      PROVE  SafeInv'
  BY <1>2 DEF outboundSendHandler, InsertQueueRow, RateAllowed, Usable
<1>3. ASSUME NEW r \in Resv \ Bridged, outboundSendRolledBack(r)
      PROVE  SafeInv'
  BY <1>3 DEF outboundSendRolledBack, RateAllowed, Usable
<1>4. ASSUME NEW r \in Resv \ Bridged, outboundSendReplay(r)
      PROVE  SafeInv'
  BY <1>4 DEF outboundSendReplay
<1>5. ASSUME NEW r \in Resv \ Bridged, outboundScheduleHandler(r)
      PROVE  SafeInv'
  BY <1>5 DEF outboundScheduleHandler, Usable
<1>6. ASSUME NEW r \in Resv \ Bridged, outboundScheduleReplay(r)
      PROVE  SafeInv'
  BY <1>6 DEF outboundScheduleReplay
<1>7. ASSUME NEW r \in Resv \ Bridged, ReservationExpired(r)
      PROVE  SafeInv'
  BY <1>7 DEF ReservationExpired
<1>8. ASSUME NEW r \in Resv \ Bridged, outboundScheduledCancelHandler(r)
      PROVE  SafeInv'
  BY <1>8 DEF outboundScheduledCancelHandler
<1>9. ASSUME NEW r \in Bridged, bridgeOutboundSend_reserve(r)
      PROVE  SafeInv'
  BY <1>9 DEF bridgeOutboundSend_reserve, RateAllowed
<1>10. ASSUME NEW r \in Bridged, bridgeOutboundSend_queue(r)
      PROVE  SafeInv'
  BY <1>10 DEF bridgeOutboundSend_queue, InsertQueueRow
<1>11. ASSUME NEW r \in Bridged, bridgeOutboundSend_consume(r)
      PROVE  SafeInv'
  BY <1>11 DEF bridgeOutboundSend_consume
<1>12. ASSUME NEW r \in Resv, ReservationTimeout(r)
      PROVE  SafeInv'
  BY <1>12 DEF ReservationTimeout
<1>13. ASSUME NEW r \in Resv, ScheduleTime(r)
      PROVE  SafeInv'
  BY <1>13 DEF ScheduleTime
<1>14. ASSUME NEW r \in Resv, ScheduleRetryTime(r)
      PROVE  SafeInv'
  BY <1>14 DEF ScheduleRetryTime
<1>15. ASSUME NEW r \in Resv, QueueRetryTime(r)
      PROVE  SafeInv'
  BY <1>15 DEF QueueRetryTime
<1>16. ASSUME NEW r \in Resv, QueueTimeout(r)
      PROVE  SafeInv'
  BY <1>16 DEF QueueTimeout
<1>17. ASSUME NEW w \in Workers, poll_scheduled(w)
      PROVE  SafeInv'
  BY <1>17 DEF poll_scheduled, Batches, DueScheduled
<1>18. ASSUME NEW w \in Workers, poll_scheduled_expire(w)
      PROVE  SafeInv'
  BY <1>18 DEF poll_scheduled_expire, DueScheduled
<1>41. ASSUME NEW w \in Workers, poll_scheduled_error(w)
      PROVE  SafeInv'
  BY <1>41 DEF poll_scheduled_error
<1>19. ASSUME NEW w \in Workers, NEW r \in Resv, promote_rate(w, r)
      PROVE  SafeInv'
  BY <1>19 DEF promote_rate, RateAllowed, RateSkipped, WorkOn
<1>20. ASSUME NEW w \in Workers, NEW r \in Resv, promote_deferred(w, r)
      PROVE  SafeInv'
  BY <1>20 DEF promote_deferred, RateDenied, Promoted, Finish
<1>21. ASSUME NEW w \in Workers, NEW r \in Resv, promote_lookup_error(w, r)
      PROVE  SafeInv'
  BY <1>21 DEF promote_lookup_error, Promoted, Finish
<1>22. ASSUME NEW w \in Workers, promote_insert(w)
      PROVE  SafeInv'
  BY <1>22 DEF promote_insert, InsertQueueRow, WorkOn
<1>23. ASSUME NEW w \in Workers, promote_insert_error(w)
      PROVE  SafeInv'
  BY <1>23 DEF promote_insert_error, WorkOn
<1>24. ASSUME NEW w \in Workers, promote_mark(w)
      PROVE  SafeInv'
  BY <1>24 DEF promote_mark, Promoted, Finish, MarkedStatus
<1>25. ASSUME NEW w \in Workers, promote_mark_lost(w)
      PROVE  SafeInv'
  BY <1>25 DEF promote_mark_lost, Promoted, Finish
<1>26. ASSUME NEW w \in Workers, poll_once(w)
      PROVE  SafeInv'
  BY <1>26 DEF poll_once, Batches, DueQueue
<1>27. ASSUME NEW w \in Workers, NEW r \in Resv, deliver_refused(w, r)
      PROVE  SafeInv'
  BY <1>27 DEF deliver_refused, Handled, Finish, Bounce, Bumped
<1>28. ASSUME NEW w \in Workers, NEW r \in Resv, deliver_undecryptable(w, r)
      PROVE  SafeInv'
  BY <1>28 DEF deliver_undecryptable, Handled, Finish, Bumped
<1>29. ASSUME NEW w \in Workers, NEW r \in Resv, deliver_rate(w, r)
      PROVE  SafeInv'
  BY <1>29 DEF deliver_rate, RateAllowed, RateSkipped, WorkOn
<1>30. ASSUME NEW w \in Workers, NEW r \in Resv, deliver_deferred(w, r)
      PROVE  SafeInv'
  BY <1>30 DEF deliver_deferred, RateDenied, Handled, Finish
<1>31. ASSUME NEW w \in Workers, deliver_unsigned(w)
      PROVE  SafeInv'
  BY <1>31 DEF deliver_unsigned, Handled, Finish, Bounce, Bumped
<1>32. ASSUME NEW w \in Workers, deliver_smtp(w)
      PROVE  SafeInv'
  BY <1>32 DEF deliver_smtp, WorkOn, PostfixTakes
<1>33. ASSUME NEW w \in Workers, deliver_reply_lost(w)
      PROVE  SafeInv'
  BY <1>33 DEF deliver_reply_lost, WorkOn, PostfixTakes
<1>34. ASSUME NEW w \in Workers, deliver_sent(w)
      PROVE  SafeInv'
  BY <1>34 DEF deliver_sent, WorkOn, Bumped
<1>35. ASSUME NEW w \in Workers, deliver_log(w)
      PROVE  SafeInv'
  BY <1>35 DEF deliver_log, Handled, Finish
<1>36. ASSUME NEW w \in Workers, deliver_temp(w)
      PROVE  SafeInv'
  BY <1>36 DEF deliver_temp, Handled, Finish, Bumped
<1>37. ASSUME NEW w \in Workers, deliver_perm(w)
      PROVE  SafeInv'
  BY <1>37 DEF deliver_perm, Handled, Finish, Bounce, Bumped
<1>38. ASSUME NEW w \in Workers, Abort(w)
      PROVE  SafeInv'
  BY <1>38 DEF Abort
<1>39. ASSUME NewWindow
      PROVE  SafeInv'
  BY <1>39 DEF NewWindow
<1>40. CASE UNCHANGED vars
  BY <1>40 DEF vars
<1> QED
  BY <1>1, <1>2, <1>3, <1>4, <1>5, <1>6, <1>7, <1>8, <1>9, <1>10, <1>11,
     <1>12, <1>13, <1>14, <1>15, <1>16, <1>17, <1>18, <1>41, <1>19, <1>20, <1>21,
     <1>22, <1>23, <1>24, <1>25, <1>26, <1>27, <1>28, <1>29, <1>30, <1>31,
     <1>32, <1>33, <1>34, <1>35, <1>36, <1>37, <1>38, <1>39, <1>40
     DEF Next, ApiStep, BridgeStep, TimeStep, WorkerStep, PromoteStep,
         DeliverStep

\* The two inductive invariants hold in every reachable state.
LEMMA SafeAlways == Spec => [](TypeInv /\ SafeInv)
<1>1. Init => TypeInv /\ SafeInv
  BY ConstantsAssumption DEF Init, TypeInv, TypeOK, RowKnown, Busy, SafeInv,
     WorkerKnows, NothingLost, DeliveredWasTaken, Promoting, Delivering
<1> QED
  BY <1>1, TypeStep, SafeStep, PTL DEF Spec

\* No accepted message is lost, however many workers promote the same
\* scheduled row, crash between INSERT and UPDATE or race a cancellation.
THEOREM NeverLost == Spec => []NothingLost
<1>1. TypeInv /\ SafeInv => NothingLost
  BY DEF SafeInv
<1> QED
  BY <1>1, SafeAlways, PTL

\* A row is delivered, and delivery_log says so, only if Postfix took the
\* message, for any number of workers.
THEOREM NoPhantomDelivery == Spec => []DeliveredWasTaken
<1>1. TypeInv /\ SafeInv => DeliveredWasTaken
  BY DEF SafeInv
<1> QED
  BY <1>1, SafeAlways, PTL

-----------------------------------------------------------------------------
(* The deployed case: one outbound-worker. Nobody else settles a queue row,   *)
(* so the batch a worker selected is still pending when it gets to a row, and *)
(* every time Postfix takes a message is paid for by the row's delivered      *)
(* status, by the worker standing before that UPDATE, or by a glitch.         *)

OneWorker == \A v, w \in Workers : v = w

AboutToMark(r) == \E w \in Workers : pc[w] = "sent" /\ row[w] = r

SoleInv ==
  /\ \A w \in Workers :
       /\ pc[w] \in Delivering \ {"log_delivered"} => row[w] \in batch[w]
       /\ pc[w] \in (Delivering \cup {"deliver"}) \ {"log_delivered"} =>
            \A r \in batch[w] : queue[r] = "pending"
       /\ pc[w] = "log_delivered" =>
            \A r \in batch[w] \ {row[w]} : queue[r] = "pending"
  /\ \A r \in Resv :
       /\ accepted[r] <= 1 + glitches
       /\ queue[r] # "delivered" /\ ~AboutToMark(r) => accepted[r] <= glitches

\* With one worker every step keeps the batch fresh and the account balanced.
LEMMA SoleStep ==
  ASSUME OneWorker, TypeInv, SafeInv, SoleInv, [Next]_vars PROVE SoleInv'
<1> USE ConstantsAssumption DEF OneWorker, TypeInv, TypeOK, RowKnown, Busy,
        apiVars, schedVars, queueVars, workerVars, smtpVars, SafeInv,
        WorkerKnows, Promoting, Delivering, NothingLost, SoleInv, AboutToMark
<1>1. ASSUME NEW r \in Resv \ Bridged, outboundPrepareHandler(r)
      PROVE  SoleInv'
  BY <1>1 DEF outboundPrepareHandler
<1>2. ASSUME NEW r \in Resv \ Bridged, outboundSendHandler(r)
      PROVE  SoleInv'
  BY <1>2 DEF outboundSendHandler, InsertQueueRow, RateAllowed, Usable
<1>3. ASSUME NEW r \in Resv \ Bridged, outboundSendRolledBack(r)
      PROVE  SoleInv'
  BY <1>3 DEF outboundSendRolledBack, RateAllowed, Usable
<1>4. ASSUME NEW r \in Resv \ Bridged, outboundSendReplay(r)
      PROVE  SoleInv'
  BY <1>4 DEF outboundSendReplay
<1>5. ASSUME NEW r \in Resv \ Bridged, outboundScheduleHandler(r)
      PROVE  SoleInv'
  BY <1>5 DEF outboundScheduleHandler, Usable
<1>6. ASSUME NEW r \in Resv \ Bridged, outboundScheduleReplay(r)
      PROVE  SoleInv'
  BY <1>6 DEF outboundScheduleReplay
<1>7. ASSUME NEW r \in Resv \ Bridged, ReservationExpired(r)
      PROVE  SoleInv'
  BY <1>7 DEF ReservationExpired
<1>8. ASSUME NEW r \in Resv \ Bridged, outboundScheduledCancelHandler(r)
      PROVE  SoleInv'
  BY <1>8 DEF outboundScheduledCancelHandler
<1>9. ASSUME NEW r \in Bridged, bridgeOutboundSend_reserve(r)
      PROVE  SoleInv'
  BY <1>9 DEF bridgeOutboundSend_reserve, RateAllowed
<1>10. ASSUME NEW r \in Bridged, bridgeOutboundSend_queue(r)
      PROVE  SoleInv'
  BY <1>10 DEF bridgeOutboundSend_queue, InsertQueueRow
<1>11. ASSUME NEW r \in Bridged, bridgeOutboundSend_consume(r)
      PROVE  SoleInv'
  BY <1>11 DEF bridgeOutboundSend_consume
<1>12. ASSUME NEW r \in Resv, ReservationTimeout(r)
      PROVE  SoleInv'
  BY <1>12 DEF ReservationTimeout
<1>13. ASSUME NEW r \in Resv, ScheduleTime(r)
      PROVE  SoleInv'
  BY <1>13 DEF ScheduleTime
<1>14. ASSUME NEW r \in Resv, ScheduleRetryTime(r)
      PROVE  SoleInv'
  BY <1>14 DEF ScheduleRetryTime
<1>15. ASSUME NEW r \in Resv, QueueRetryTime(r)
      PROVE  SoleInv'
  BY <1>15 DEF QueueRetryTime
<1>16. ASSUME NEW r \in Resv, QueueTimeout(r)
      PROVE  SoleInv'
  BY <1>16 DEF QueueTimeout
<1>17. ASSUME NEW w \in Workers, poll_scheduled(w)
      PROVE  SoleInv'
  BY <1>17 DEF poll_scheduled, Batches, DueScheduled
<1>18. ASSUME NEW w \in Workers, poll_scheduled_expire(w)
      PROVE  SoleInv'
  BY <1>18 DEF poll_scheduled_expire, DueScheduled
<1>41. ASSUME NEW w \in Workers, poll_scheduled_error(w)
      PROVE  SoleInv'
  BY <1>41 DEF poll_scheduled_error
<1>19. ASSUME NEW w \in Workers, NEW r \in Resv, promote_rate(w, r)
      PROVE  SoleInv'
  BY <1>19 DEF promote_rate, RateAllowed, RateSkipped, WorkOn
<1>20. ASSUME NEW w \in Workers, NEW r \in Resv, promote_deferred(w, r)
      PROVE  SoleInv'
  BY <1>20 DEF promote_deferred, RateDenied, Promoted, Finish
<1>21. ASSUME NEW w \in Workers, NEW r \in Resv, promote_lookup_error(w, r)
      PROVE  SoleInv'
  BY <1>21 DEF promote_lookup_error, Promoted, Finish
<1>22. ASSUME NEW w \in Workers, promote_insert(w)
      PROVE  SoleInv'
  BY <1>22 DEF promote_insert, InsertQueueRow, WorkOn
<1>23. ASSUME NEW w \in Workers, promote_insert_error(w)
      PROVE  SoleInv'
  BY <1>23 DEF promote_insert_error, WorkOn
<1>24. ASSUME NEW w \in Workers, promote_mark(w)
      PROVE  SoleInv'
  BY <1>24 DEF promote_mark, Promoted, Finish, MarkedStatus
<1>25. ASSUME NEW w \in Workers, promote_mark_lost(w)
      PROVE  SoleInv'
  BY <1>25 DEF promote_mark_lost, Promoted, Finish
<1>26. ASSUME NEW w \in Workers, poll_once(w)
      PROVE  SoleInv'
  BY <1>26 DEF poll_once, Batches, DueQueue
<1>27. ASSUME NEW w \in Workers, NEW r \in Resv, deliver_refused(w, r)
      PROVE  SoleInv'
  BY <1>27 DEF deliver_refused, Handled, Finish, Bounce, Bumped
<1>28. ASSUME NEW w \in Workers, NEW r \in Resv, deliver_undecryptable(w, r)
      PROVE  SoleInv'
  BY <1>28 DEF deliver_undecryptable, Handled, Finish, Bumped
<1>29. ASSUME NEW w \in Workers, NEW r \in Resv, deliver_rate(w, r)
      PROVE  SoleInv'
  BY <1>29 DEF deliver_rate, RateAllowed, RateSkipped, WorkOn
<1>30. ASSUME NEW w \in Workers, NEW r \in Resv, deliver_deferred(w, r)
      PROVE  SoleInv'
  BY <1>30 DEF deliver_deferred, RateDenied, Handled, Finish
<1>31. ASSUME NEW w \in Workers, deliver_unsigned(w)
      PROVE  SoleInv'
  BY <1>31 DEF deliver_unsigned, Handled, Finish, Bounce, Bumped
<1>32. ASSUME NEW w \in Workers, deliver_smtp(w)
      PROVE  SoleInv'
  BY <1>32 DEF deliver_smtp, WorkOn, PostfixTakes
<1>33. ASSUME NEW w \in Workers, deliver_reply_lost(w)
      PROVE  SoleInv'
  BY <1>33 DEF deliver_reply_lost, WorkOn, PostfixTakes
<1>34. ASSUME NEW w \in Workers, deliver_sent(w)
      PROVE  SoleInv'
  BY <1>34 DEF deliver_sent, WorkOn, Bumped
<1>35. ASSUME NEW w \in Workers, deliver_log(w)
      PROVE  SoleInv'
  BY <1>35 DEF deliver_log, Handled, Finish
<1>36. ASSUME NEW w \in Workers, deliver_temp(w)
      PROVE  SoleInv'
  BY <1>36 DEF deliver_temp, Handled, Finish, Bumped
<1>37. ASSUME NEW w \in Workers, deliver_perm(w)
      PROVE  SoleInv'
  BY <1>37 DEF deliver_perm, Handled, Finish, Bounce, Bumped
<1>38. ASSUME NEW w \in Workers, Abort(w)
      PROVE  SoleInv'
  BY <1>38 DEF Abort
<1>39. ASSUME NewWindow
      PROVE  SoleInv'
  BY <1>39 DEF NewWindow
<1>40. CASE UNCHANGED vars
  BY <1>40 DEF vars
<1> QED
  BY <1>1, <1>2, <1>3, <1>4, <1>5, <1>6, <1>7, <1>8, <1>9, <1>10, <1>11,
     <1>12, <1>13, <1>14, <1>15, <1>16, <1>17, <1>18, <1>41, <1>19, <1>20, <1>21,
     <1>22, <1>23, <1>24, <1>25, <1>26, <1>27, <1>28, <1>29, <1>30, <1>31,
     <1>32, <1>33, <1>34, <1>35, <1>36, <1>37, <1>38, <1>39, <1>40
     DEF Next, ApiStep, BridgeStep, TimeStep, WorkerStep, PromoteStep,
         DeliverStep

\* All three invariants hold in every reachable state of one worker.
LEMMA SoleAlways ==
  ASSUME OneWorker PROVE Spec => [](TypeInv /\ SafeInv /\ SoleInv)
<1>1. Init => SoleInv
  BY ConstantsAssumption DEF Init, SoleInv, AboutToMark, Delivering
<1>2. TypeInv /\ SafeInv /\ SoleInv /\ [Next]_vars => SoleInv'
  BY SoleStep
<1> QED
  BY <1>1, <1>2, SafeAlways, PTL DEF Spec

\* One worker: Postfix takes a message again only after a crash, a failed
\* statement or a lost reply, once for each.
THEOREM OnceUnlessGlitch ==
  ASSUME OneWorker PROVE Spec => []TakenOncePerGlitch
<1>1. TypeInv /\ SafeInv /\ SoleInv => TakenOncePerGlitch
  BY DEF SoleInv, TakenOncePerGlitch
<1> QED
  BY <1>1, SoleAlways, PTL

\* One worker: a step that settles or sends a row finds it pending.
LEMMA SoleSends ==
  ASSUME TypeInv, SafeInv, SoleInv, [Next]_vars
  PROVE  /\ \A r \in Resv : accepted'[r] > accepted[r] => queue[r] = "pending"
         /\ \A r \in Resv : queue[r] \in {"delivered", "bounced"} =>
                            queue'[r] = queue[r]
<1> DEFINE Goal ==
         /\ \A r \in Resv : accepted'[r] > accepted[r] => queue[r] = "pending"
         /\ \A r \in Resv : queue[r] \in {"delivered", "bounced"} =>
                            queue'[r] = queue[r]
<1> USE ConstantsAssumption DEF TypeInv, TypeOK, RowKnown, Busy, apiVars,
        schedVars, queueVars, workerVars, smtpVars, SafeInv, NothingLost,
        SoleInv, Delivering
<1>1. ASSUME NEW r \in Resv \ Bridged, outboundPrepareHandler(r)
      PROVE  Goal
  BY <1>1 DEF outboundPrepareHandler
<1>2. ASSUME NEW r \in Resv \ Bridged, outboundSendHandler(r)
      PROVE  Goal
  BY <1>2 DEF outboundSendHandler, InsertQueueRow, RateAllowed, Usable
<1>3. ASSUME NEW r \in Resv \ Bridged, outboundSendRolledBack(r)
      PROVE  Goal
  BY <1>3 DEF outboundSendRolledBack, RateAllowed, Usable
<1>4. ASSUME NEW r \in Resv \ Bridged, outboundSendReplay(r)
      PROVE  Goal
  BY <1>4 DEF outboundSendReplay
<1>5. ASSUME NEW r \in Resv \ Bridged, outboundScheduleHandler(r)
      PROVE  Goal
  BY <1>5 DEF outboundScheduleHandler, Usable
<1>6. ASSUME NEW r \in Resv \ Bridged, outboundScheduleReplay(r)
      PROVE  Goal
  BY <1>6 DEF outboundScheduleReplay
<1>7. ASSUME NEW r \in Resv \ Bridged, ReservationExpired(r)
      PROVE  Goal
  BY <1>7 DEF ReservationExpired
<1>8. ASSUME NEW r \in Resv \ Bridged, outboundScheduledCancelHandler(r)
      PROVE  Goal
  BY <1>8 DEF outboundScheduledCancelHandler
<1>9. ASSUME NEW r \in Bridged, bridgeOutboundSend_reserve(r)
      PROVE  Goal
  BY <1>9 DEF bridgeOutboundSend_reserve, RateAllowed
<1>10. ASSUME NEW r \in Bridged, bridgeOutboundSend_queue(r)
      PROVE  Goal
  BY <1>10 DEF bridgeOutboundSend_queue, InsertQueueRow
<1>11. ASSUME NEW r \in Bridged, bridgeOutboundSend_consume(r)
      PROVE  Goal
  BY <1>11 DEF bridgeOutboundSend_consume
<1>12. ASSUME NEW r \in Resv, ReservationTimeout(r)
      PROVE  Goal
  BY <1>12 DEF ReservationTimeout
<1>13. ASSUME NEW r \in Resv, ScheduleTime(r)
      PROVE  Goal
  BY <1>13 DEF ScheduleTime
<1>14. ASSUME NEW r \in Resv, ScheduleRetryTime(r)
      PROVE  Goal
  BY <1>14 DEF ScheduleRetryTime
<1>15. ASSUME NEW r \in Resv, QueueRetryTime(r)
      PROVE  Goal
  BY <1>15 DEF QueueRetryTime
<1>16. ASSUME NEW r \in Resv, QueueTimeout(r)
      PROVE  Goal
  BY <1>16 DEF QueueTimeout
<1>17. ASSUME NEW w \in Workers, poll_scheduled(w)
      PROVE  Goal
  BY <1>17 DEF poll_scheduled, Batches, DueScheduled
<1>18. ASSUME NEW w \in Workers, poll_scheduled_expire(w)
      PROVE  Goal
  BY <1>18 DEF poll_scheduled_expire, DueScheduled
<1>41. ASSUME NEW w \in Workers, poll_scheduled_error(w)
      PROVE  Goal
  BY <1>41 DEF poll_scheduled_error
<1>19. ASSUME NEW w \in Workers, NEW r \in Resv, promote_rate(w, r)
      PROVE  Goal
  BY <1>19 DEF promote_rate, RateAllowed, RateSkipped, WorkOn
<1>20. ASSUME NEW w \in Workers, NEW r \in Resv, promote_deferred(w, r)
      PROVE  Goal
  BY <1>20 DEF promote_deferred, RateDenied, Promoted, Finish
<1>21. ASSUME NEW w \in Workers, NEW r \in Resv, promote_lookup_error(w, r)
      PROVE  Goal
  BY <1>21 DEF promote_lookup_error, Promoted, Finish
<1>22. ASSUME NEW w \in Workers, promote_insert(w)
      PROVE  Goal
  BY <1>22 DEF promote_insert, InsertQueueRow, WorkOn
<1>23. ASSUME NEW w \in Workers, promote_insert_error(w)
      PROVE  Goal
  BY <1>23 DEF promote_insert_error, WorkOn
<1>24. ASSUME NEW w \in Workers, promote_mark(w)
      PROVE  Goal
  BY <1>24 DEF promote_mark, Promoted, Finish, MarkedStatus
<1>25. ASSUME NEW w \in Workers, promote_mark_lost(w)
      PROVE  Goal
  BY <1>25 DEF promote_mark_lost, Promoted, Finish
<1>26. ASSUME NEW w \in Workers, poll_once(w)
      PROVE  Goal
  BY <1>26 DEF poll_once, Batches, DueQueue
<1>27. ASSUME NEW w \in Workers, NEW r \in Resv, deliver_refused(w, r)
      PROVE  Goal
  BY <1>27 DEF deliver_refused, Handled, Finish, Bounce, Bumped
<1>28. ASSUME NEW w \in Workers, NEW r \in Resv, deliver_undecryptable(w, r)
      PROVE  Goal
  BY <1>28 DEF deliver_undecryptable, Handled, Finish, Bumped
<1>29. ASSUME NEW w \in Workers, NEW r \in Resv, deliver_rate(w, r)
      PROVE  Goal
  BY <1>29 DEF deliver_rate, RateAllowed, RateSkipped, WorkOn
<1>30. ASSUME NEW w \in Workers, NEW r \in Resv, deliver_deferred(w, r)
      PROVE  Goal
  BY <1>30 DEF deliver_deferred, RateDenied, Handled, Finish
<1>31. ASSUME NEW w \in Workers, deliver_unsigned(w)
      PROVE  Goal
  BY <1>31 DEF deliver_unsigned, Handled, Finish, Bounce, Bumped
<1>32. ASSUME NEW w \in Workers, deliver_smtp(w)
      PROVE  Goal
  BY <1>32 DEF deliver_smtp, WorkOn, PostfixTakes
<1>33. ASSUME NEW w \in Workers, deliver_reply_lost(w)
      PROVE  Goal
  BY <1>33 DEF deliver_reply_lost, WorkOn, PostfixTakes
<1>34. ASSUME NEW w \in Workers, deliver_sent(w)
      PROVE  Goal
  BY <1>34 DEF deliver_sent, WorkOn, Bumped
<1>35. ASSUME NEW w \in Workers, deliver_log(w)
      PROVE  Goal
  BY <1>35 DEF deliver_log, Handled, Finish
<1>36. ASSUME NEW w \in Workers, deliver_temp(w)
      PROVE  Goal
  BY <1>36 DEF deliver_temp, Handled, Finish, Bumped
<1>37. ASSUME NEW w \in Workers, deliver_perm(w)
      PROVE  Goal
  BY <1>37 DEF deliver_perm, Handled, Finish, Bounce, Bumped
<1>38. ASSUME NEW w \in Workers, Abort(w)
      PROVE  Goal
  BY <1>38 DEF Abort
<1>39. ASSUME NewWindow
      PROVE  Goal
  BY <1>39 DEF NewWindow
<1>40. CASE UNCHANGED vars
  BY <1>40 DEF vars
<1> QED
  BY <1>1, <1>2, <1>3, <1>4, <1>5, <1>6, <1>7, <1>8, <1>9, <1>10, <1>11,
     <1>12, <1>13, <1>14, <1>15, <1>16, <1>17, <1>18, <1>41, <1>19, <1>20, <1>21,
     <1>22, <1>23, <1>24, <1>25, <1>26, <1>27, <1>28, <1>29, <1>30, <1>31,
     <1>32, <1>33, <1>34, <1>35, <1>36, <1>37, <1>38, <1>39, <1>40
     DEF Next, ApiStep, BridgeStep, TimeStep, WorkerStep, PromoteStep,
         DeliverStep

\* One worker: a message goes to Postfix only while its row is pending.
THEOREM SendsPendingOnly ==
  ASSUME OneWorker PROVE Spec => SentWhilePending
<1>1. TypeInv /\ SafeInv /\ SoleInv /\ [Next]_vars =>
        [\A r \in Resv : accepted'[r] > accepted[r] => queue[r] = "pending"]_vars
  BY SoleSends
<1> QED
  BY <1>1, SoleAlways, PTL DEF Spec, SentWhilePending

\* One worker: delivered and bounced are final.
THEOREM SettledIsFinal ==
  ASSUME OneWorker PROVE Spec => SettledStays
<1>1. TypeInv /\ SafeInv /\ SoleInv /\ [Next]_vars =>
        [\A r \in Resv : queue[r] \in {"delivered", "bounced"} =>
                         queue'[r] = queue[r]]_vars
  BY SoleSends
<1> QED
  BY <1>1, SoleAlways, PTL DEF Spec, SettledStays

-----------------------------------------------------------------------------
(* The rate counters. WindowBudget alone is not inductive: a worker that    *)
(* was charged and is about to send has its message still to come.          *)

\* The limiter works, and the workers can be counted.
Metered == ~LimiterMayBeSkipped /\ IsFiniteSet(Workers)

\* The workers between check_and_incr_rate and the end of send_raw.
InSmtp(p) == {w \in Workers : p[w] = "smtp"}

\* The messages Postfix took in this window, and those the workers are about
\* to send, were charged in this window, but for one of each worker.
ChargedInv ==
  windowSends + Cardinality(InSmtp(pc)) <= rate + Cardinality(Workers)

\* The workers about to send can be counted.
LEMMA SmtpCounted ==
  ASSUME IsFiniteSet(Workers), NEW p
  PROVE  /\ IsFiniteSet(InSmtp(p)) /\ Cardinality(InSmtp(p)) \in Nat
         /\ Cardinality(Workers) \in Nat
BY FS_Subset, FS_CardinalityType DEF InSmtp

\* One more worker is about to send.
LEMMA EntersSmtp ==
  ASSUME IsFiniteSet(Workers), TypeOK, NEW w \in Workers, pc[w] # "smtp",
         pc' = [pc EXCEPT ![w] = "smtp"]
  PROVE  Cardinality(InSmtp(pc')) = Cardinality(InSmtp(pc)) + 1
<1>1. InSmtp(pc') = InSmtp(pc) \cup {w} /\ w \notin InSmtp(pc)
  BY DEF InSmtp, TypeOK
<1> QED BY <1>1, SmtpCounted, FS_AddElement

\* One worker less is about to send.
LEMMA LeavesSmtp ==
  ASSUME IsFiniteSet(Workers), TypeOK, NEW w \in Workers, pc[w] = "smtp",
         NEW next, next # "smtp", pc' = [pc EXCEPT ![w] = next]
  PROVE  Cardinality(InSmtp(pc')) = Cardinality(InSmtp(pc)) - 1
<1>1. InSmtp(pc') = InSmtp(pc) \ {w} /\ w \in InSmtp(pc)
  BY DEF InSmtp, TypeOK
<1> QED BY <1>1, SmtpCounted, FS_RemoveElement

\* Every step charges a message before it is sent, or sends one that was.
LEMMA ChargedStep ==
  ASSUME Metered PROVE TypeInv /\ ChargedInv /\ [Next]_vars => ChargedInv'
<1> SUFFICES ASSUME TypeInv, ChargedInv, [Next]_vars PROVE ChargedInv'
  OBVIOUS
<1> USE ConstantsAssumption DEF Metered, TypeInv, apiVars, schedVars, queueVars,
        workerVars, smtpVars
<1>a. TypeOK /\ RowKnown /\ rate \in Nat /\ windowSends \in Nat /\ pc \in [Workers -> Pcs]
  BY DEF TypeOK
<1>b. /\ rate \in Nat /\ windowSends \in Nat /\ Cardinality(Workers) \in Nat
      /\ Cardinality(InSmtp(pc)) \in Nat /\ Cardinality(InSmtp(pc')) \in Nat
  BY <1>a, SmtpCounted
\* A step that sends nothing and brings no worker to send_raw.
<1>c. ASSUME windowSends' = windowSends, rate' = rate \/ rate' = rate + 1,
             \/ pc' = pc
             \/ \E w \in Workers : \E p \in Pcs \ {"smtp"} : pc' = [pc EXCEPT ![w] = p]
      PROVE  ChargedInv'
  <2>1. InSmtp(pc') \subseteq InSmtp(pc)
    BY <1>a, <1>c DEF InSmtp
  <2>2. Cardinality(InSmtp(pc')) <= Cardinality(InSmtp(pc))
    BY <2>1, SmtpCounted, FS_Subset
  <2> QED BY <1>b, <1>c, <2>2 DEF ChargedInv
<1>1. ASSUME NEW r \in Resv \ Bridged, outboundPrepareHandler(r)
      PROVE  ChargedInv'
  BY <1>1, <1>c DEF outboundPrepareHandler
<1>2. ASSUME NEW r \in Resv \ Bridged, outboundSendHandler(r)
      PROVE  ChargedInv'
  BY <1>2, <1>c DEF outboundSendHandler, InsertQueueRow, RateAllowed, Usable
<1>3. ASSUME NEW r \in Resv \ Bridged, outboundSendRolledBack(r)
      PROVE  ChargedInv'
  BY <1>3, <1>c DEF outboundSendRolledBack, RateAllowed, Usable
<1>4. ASSUME NEW r \in Resv \ Bridged, outboundSendReplay(r)
      PROVE  ChargedInv'
  BY <1>4, <1>c DEF outboundSendReplay
<1>5. ASSUME NEW r \in Resv \ Bridged, outboundScheduleHandler(r)
      PROVE  ChargedInv'
  BY <1>5, <1>c DEF outboundScheduleHandler
<1>6. ASSUME NEW r \in Resv \ Bridged, outboundScheduleReplay(r)
      PROVE  ChargedInv'
  BY <1>6, <1>c DEF outboundScheduleReplay
<1>7. ASSUME NEW r \in Resv \ Bridged, ReservationExpired(r)
      PROVE  ChargedInv'
  BY <1>7, <1>c DEF ReservationExpired
<1>8. ASSUME NEW r \in Resv \ Bridged, outboundScheduledCancelHandler(r)
      PROVE  ChargedInv'
  BY <1>8, <1>c DEF outboundScheduledCancelHandler
<1>9. ASSUME NEW r \in Bridged, bridgeOutboundSend_reserve(r)
      PROVE  ChargedInv'
  BY <1>9, <1>c DEF bridgeOutboundSend_reserve, RateAllowed
<1>10. ASSUME NEW r \in Bridged, bridgeOutboundSend_queue(r)
      PROVE  ChargedInv'
  BY <1>10, <1>c DEF bridgeOutboundSend_queue
<1>11. ASSUME NEW r \in Bridged, bridgeOutboundSend_consume(r)
      PROVE  ChargedInv'
  BY <1>11, <1>c DEF bridgeOutboundSend_consume
<1>12. ASSUME NEW r \in Resv, ReservationTimeout(r)
      PROVE  ChargedInv'
  BY <1>12, <1>c DEF ReservationTimeout
<1>13. ASSUME NEW r \in Resv, ScheduleTime(r)
      PROVE  ChargedInv'
  BY <1>13, <1>c DEF ScheduleTime
<1>14. ASSUME NEW r \in Resv, ScheduleRetryTime(r)
      PROVE  ChargedInv'
  BY <1>14, <1>c DEF ScheduleRetryTime
<1>15. ASSUME NEW r \in Resv, QueueRetryTime(r)
      PROVE  ChargedInv'
  BY <1>15, <1>c DEF QueueRetryTime
<1>16. ASSUME NEW r \in Resv, QueueTimeout(r)
      PROVE  ChargedInv'
  BY <1>16, <1>c DEF QueueTimeout
<1>17. ASSUME NEW w \in Workers, poll_scheduled(w)
      PROVE  ChargedInv'
  BY <1>17, <1>c DEF poll_scheduled
<1>18. ASSUME NEW w \in Workers, poll_scheduled_expire(w)
      PROVE  ChargedInv'
  BY <1>18, <1>c DEF poll_scheduled_expire
<1>41. ASSUME NEW w \in Workers, poll_scheduled_error(w)
      PROVE  ChargedInv'
  BY <1>41, <1>c DEF poll_scheduled_error
<1>19. ASSUME NEW w \in Workers, NEW r \in Resv, promote_rate(w, r)
      PROVE  ChargedInv'
  BY <1>19, <1>c DEF promote_rate, RateAllowed, RateSkipped, WorkOn
<1>20. ASSUME NEW w \in Workers, NEW r \in Resv, promote_deferred(w, r)
      PROVE  ChargedInv'
  BY <1>20, <1>c DEF promote_deferred, RateDenied, Promoted, Finish
<1>21. ASSUME NEW w \in Workers, NEW r \in Resv, promote_lookup_error(w, r)
      PROVE  ChargedInv'
  BY <1>21, <1>c DEF promote_lookup_error, Promoted, Finish
<1>22. ASSUME NEW w \in Workers, promote_insert(w)
      PROVE  ChargedInv'
  BY <1>22, <1>c DEF promote_insert, WorkOn
<1>23. ASSUME NEW w \in Workers, promote_insert_error(w)
      PROVE  ChargedInv'
  BY <1>23, <1>c DEF promote_insert_error, WorkOn
<1>24. ASSUME NEW w \in Workers, promote_mark(w)
      PROVE  ChargedInv'
  BY <1>24, <1>c DEF promote_mark, Promoted, Finish
<1>25. ASSUME NEW w \in Workers, promote_mark_lost(w)
      PROVE  ChargedInv'
  BY <1>25, <1>c DEF promote_mark_lost, Promoted, Finish
<1>26. ASSUME NEW w \in Workers, poll_once(w)
      PROVE  ChargedInv'
  BY <1>26, <1>c DEF poll_once
<1>27. ASSUME NEW w \in Workers, NEW r \in Resv, deliver_refused(w, r)
      PROVE  ChargedInv'
  BY <1>27, <1>c DEF deliver_refused, Handled, Finish
<1>28. ASSUME NEW w \in Workers, NEW r \in Resv, deliver_undecryptable(w, r)
      PROVE  ChargedInv'
  BY <1>28, <1>c DEF deliver_undecryptable, Handled, Finish
<1>29. ASSUME NEW w \in Workers, NEW r \in Resv, deliver_deferred(w, r)
      PROVE  ChargedInv'
  BY <1>29, <1>c DEF deliver_deferred, RateDenied, Handled, Finish
<1>30. ASSUME NEW w \in Workers, deliver_unsigned(w)
      PROVE  ChargedInv'
  BY <1>30, <1>c DEF deliver_unsigned, Handled, Finish
<1>31. ASSUME NEW w \in Workers, deliver_sent(w)
      PROVE  ChargedInv'
  BY <1>31, <1>c DEF deliver_sent, WorkOn
<1>32. ASSUME NEW w \in Workers, deliver_log(w)
      PROVE  ChargedInv'
  BY <1>32, <1>c DEF deliver_log, Handled, Finish
<1>33. ASSUME NEW w \in Workers, deliver_temp(w)
      PROVE  ChargedInv'
  BY <1>33, <1>c DEF deliver_temp, Handled, Finish
<1>34. ASSUME NEW w \in Workers, deliver_perm(w)
      PROVE  ChargedInv'
  BY <1>34, <1>c DEF deliver_perm, Handled, Finish
<1>35. ASSUME NEW w \in Workers, Abort(w)
      PROVE  ChargedInv'
  BY <1>35, <1>c DEF Abort
<1>36. ASSUME NEW w \in Workers, NEW r \in Resv, deliver_rate(w, r)
      PROVE  ChargedInv'
  <2>1. rate' = rate + 1 /\ windowSends' = windowSends
    BY <1>36 DEF deliver_rate, RateAllowed, RateSkipped
  <2>2. pc[w] # "smtp" /\ pc' = [pc EXCEPT ![w] = "smtp"]
    BY <1>36 DEF deliver_rate, WorkOn
  <2>3. Cardinality(InSmtp(pc')) = Cardinality(InSmtp(pc)) + 1
    BY <2>2, <1>a, EntersSmtp
  <2> QED BY <2>1, <2>3, <1>b DEF ChargedInv
<1>37. ASSUME NEW w \in Workers, deliver_smtp(w)
      PROVE  ChargedInv'
  <2>1. pc[w] = "smtp" /\ rate' = rate
    BY <1>37 DEF deliver_smtp
  <2>2. CASE PostfixTakes(row[w]) /\ WorkOn(w, row[w], "sent")
    <3>1. windowSends' = windowSends + 1 /\ pc' = [pc EXCEPT ![w] = "sent"]
      BY <2>2 DEF PostfixTakes, WorkOn
    <3>2. Cardinality(InSmtp(pc')) = Cardinality(InSmtp(pc)) - 1
      BY <2>1, <3>1, <1>a, LeavesSmtp
    <3> QED BY <2>1, <3>1, <3>2, <1>b DEF ChargedInv
  <2>3. CASE UNCHANGED smtpVars /\ (WorkOn(w, row[w], "temp") \/ WorkOn(w, row[w], "perm"))
    BY <2>1, <2>3, <1>c DEF WorkOn
  <2> QED BY <1>37, <2>2, <2>3 DEF deliver_smtp
<1>38. ASSUME NEW w \in Workers, deliver_reply_lost(w)
      PROVE  ChargedInv'
  <2>1. pc[w] = "smtp" /\ rate' = rate /\ windowSends' = windowSends + 1
    BY <1>38 DEF deliver_reply_lost, PostfixTakes
  <2>2. pc' = [pc EXCEPT ![w] = "temp"]
    BY <1>38 DEF deliver_reply_lost, WorkOn
  <2>3. Cardinality(InSmtp(pc')) = Cardinality(InSmtp(pc)) - 1
    BY <2>1, <2>2, <1>a, LeavesSmtp
  <2> QED BY <2>1, <2>3, <1>b DEF ChargedInv
<1>39. ASSUME NewWindow
      PROVE  ChargedInv'
  <2>1. rate' = 0 /\ windowSends' = 0 /\ pc' = pc
    BY <1>39 DEF NewWindow
  <2>2. Cardinality(InSmtp(pc)) <= Cardinality(Workers)
    BY FS_Subset DEF InSmtp
  <2> QED BY <2>1, <2>2, <1>b DEF ChargedInv
<1>40. CASE UNCHANGED vars
  BY <1>40, <1>c DEF vars
<1> QED
  BY <1>1, <1>2, <1>3, <1>4, <1>5, <1>6, <1>7, <1>8, <1>9, <1>10, <1>11,
     <1>12, <1>13, <1>14, <1>15, <1>16, <1>17, <1>18, <1>41, <1>19, <1>20,
     <1>21, <1>22, <1>23, <1>24, <1>25, <1>26, <1>27, <1>28, <1>29,
     <1>30, <1>31, <1>32, <1>33, <1>34, <1>35, <1>36, <1>37, <1>38,
     <1>39, <1>40
     DEF Next, ApiStep, BridgeStep, TimeStep, WorkerStep, PromoteStep,
         DeliverStep

\* For any number of workers, messages and windows, and any limit: while the
\* rate check works, Postfix takes in one window at most RateLimit messages
\* and one per worker more (check_and_incr_rate precedes send_raw).
THEOREM RateHolds ==
  ASSUME Metered PROVE Spec => []WindowBudget
<1>1. Init => ChargedInv
  <2>1. ASSUME Init PROVE InSmtp(pc) = {} /\ windowSends = 0 /\ rate = 0
    BY <2>1 DEF Init, InSmtp
  <2>2. Cardinality(Workers) \in Nat
    BY FS_CardinalityType DEF Metered
  <2> QED BY <2>1, <2>2, FS_EmptySet DEF ChargedInv
<1>2. TypeInv /\ ChargedInv => WindowBudget
  <2> SUFFICES ASSUME TypeInv, ChargedInv PROVE WindowBudget
    OBVIOUS
  <2>1. /\ rate \in Nat /\ rate <= RateLimit /\ RateLimit \in Nat /\ windowSends \in Nat
    BY ConstantsAssumption DEF TypeInv, TypeOK
  <2>2. Cardinality(InSmtp(pc)) \in Nat /\ Cardinality(Workers) \in Nat
    BY SmtpCounted DEF Metered
  <2> QED BY <2>1, <2>2 DEF ChargedInv, WindowBudget
<1> QED
  BY <1>1, <1>2, ChargedStep, SafeAlways, PTL DEF Spec
=============================================================================
