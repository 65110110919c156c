----------------------- MODULE WebhookBatching_proofs -----------------------
(***************************************************************************)
(* Proofs about WebhookBatching: on every schedule the outbox agrees with   *)
(* the delivery rows, and the flushes keep a contract's events in order.    *)
(***************************************************************************)
EXTENDS WebhookBatching, WebhookDelivery_proofs, FiniteSetTheorems, WellFoundedInduction

\* Every step is a step of the delivery protocol or does not touch it, so that
\* what is proved of a step there holds here.
LEMMA StepImplements ==
    ASSUME [BNext]_batchVars
    PROVE  [Next]_vars
<1>1. ASSUME NEW e \in Events, Enqueue(e) \/ DeleteExpiredOutbox(e)
      PROVE  UNCHANGED vars
  BY <1>1 DEF Enqueue, DeleteExpiredOutbox
<1>2. ASSUME NEW r \in Replicas,
             \/ FlushRead(r) \/ FlushCheck(r) \/ ClaimConflict(r)
             \/ InsertThrows(r)
      PROVE  UNCHANGED vars
  BY <1>2 DEF FlushRead, FlushCheck, ClaimConflict, InsertThrows
<1>3. ASSUME NEW r \in Replicas, BCrash(r)
      PROVE  Crash(r)
  BY <1>3 DEF BCrash, Crash, sub
<1>4. ASSUME NEW r \in Replicas, NEW d \in Deliveries,
             ClaimBatch(r, d) \/ FileTooLarge(r, d)
      PROVE  FlushClaim(r, d) \/ FlushTooLarge(d)
  BY <1>4 DEF ClaimBatch, FileTooLarge
<1>5. ASSUME NEW R \in SUBSET Replicas, BRetryPendingDeliveries(R)
      PROVE  RetryPendingDeliveries(R)
  BY <1>5 DEF BRetryPendingDeliveries
<1>6. ASSUME NEW j \in jobs, BJobStep(j)
      PROVE  JobStep(j)
  BY <1>6 DEF BJobStep, JobStep, BPostOutcome, BRecordSuccess, BRecordBlocked,
              BRecordCancelled
<1>7. ASSUME NEW d \in Deliveries, BDeleteExpired(d)
      PROVE  DeleteExpired(d)
  BY <1>7 DEF BDeleteExpired
<1>8. CASE BCancelPending \/ BDeleteSubscription
  BY <1>8 DEF BCancelPending, BDeleteSubscription, Next
<1>9. CASE UNCHANGED batchVars
  BY <1>9 DEF batchVars, vars
<1>10. QED
  BY <1>1, <1>2, <1>3, <1>4, <1>5, <1>6, <1>7, <1>8, <1>9 DEF BNext, Next

-----------------------------------------------------------------------------
(* The outbox.                                                              *)

OutboxOK == /\ outbox \in [Events -> [status : OutboxStatuses,
                                      batch : Deliveries \cup {None}]]
            /\ flush \in [Replicas -> [phase : {"idle", "check", "claim"},
                                       queue : SUBSET Events, sel : SUBSET Events]]
            /\ payload \in [Deliveries -> SUBSET Events]
            /\ received \subseteq Events

BInv == TypeInv /\ OutboxOK /\ BatchedIsPending /\ LinkedRows /\ AckedPayload
        /\ DeliveredWasReceived

\* Where a flush goes on, it stays within the events.
LEMMA GotoTypes ==
    ASSUME OutboxOK, NEW r \in Replicas, NEW phase \in {"idle", "check", "claim"},
           NEW q \in SUBSET Events, NEW s \in SUBSET Events, Goto(r, phase, q, s)
    PROVE  flush' \in [Replicas -> [phase : {"idle", "check", "claim"},
                                    queue : SUBSET Events, sel : SUBSET Events]]
BY DEF OutboxOK, Goto

LEMMA NextGroupTypes ==
    ASSUME OutboxOK, NEW r \in Replicas, NEW q \in SUBSET Events, NextGroup(r, q)
    PROVE  flush' \in [Replicas -> [phase : {"idle", "check", "claim"},
                                    queue : SUBSET Events, sel : SUBSET Events]]
BY DEF OutboxOK, NextGroup, Goto

\* Steps of the flush that write nothing but its own progress.
LEMMA FlushProgress ==
    ASSUME BInv, NEW r \in Replicas,
           \/ FlushRead(r) \/ FlushCheck(r) \/ ClaimConflict(r)
           \/ InsertThrows(r)
    PROVE  BInv'
<1> DEFINE F == [Replicas -> [phase : {"idle", "check", "claim"},
                              queue : SUBSET Events, sel : SUBSET Events]]
<1>1. flush[r].queue \subseteq Events /\ flush[r].sel \subseteq Events
  BY DEF BInv, OutboxOK
<1>2. flush' \in F
  <2>1. CASE FlushRead(r)
    <3>1. Goto(r, "check", WithStatus({"pending"}), {})
      BY <2>1 DEF FlushRead
    <3>2. WithStatus({"pending"}) \in SUBSET Events
      BY DEF WithStatus
    <3>3. QED  BY <3>1, <3>2 DEF BInv, OutboxOK, Goto
  <2>2. CASE FlushCheck(r)
    <3> DEFINE q == flush[r].queue
               oldest == CHOOSE e \in q : \A f \in q : e <= f
               group == OfEntity(q, oldest)
               selected == FirstOf(group, BatchSize)
    <3>1. NextGroup(r, q \ group) \/ Goto(r, "claim", q, Fitting(selected))
      BY <2>2 DEF FlushCheck
    <3>2. group \subseteq Events
      BY <1>1 DEF OfEntity
    <3>3. Fitting(selected) \subseteq Events
      BY <3>2 DEF Fitting, FirstOf
    <3> HIDE DEF q, group, selected
    <3>4. q \subseteq Events
      BY <1>1 DEF q
    <3>5. QED  BY <3>1, <3>3, <3>4, GotoTypes, NextGroupTypes DEF BInv
  <2>3. CASE ClaimConflict(r)
    <3>1. Rest(r) \in SUBSET Events
      BY <1>1 DEF Rest
    <3>2. QED  BY <2>3, <3>1, NextGroupTypes DEF ClaimConflict, BInv
  <2>4. CASE InsertThrows(r)
    BY <2>4 DEF InsertThrows, BInv, OutboxOK, Goto
  <2>5. QED  BY <2>1, <2>2, <2>3, <2>4
<1>3. UNCHANGED <<vars, outbox, payload, received>>
  BY DEF FlushRead, FlushCheck, ClaimConflict, InsertThrows
<1>4. TypeInv'
  BY <1>3 DEF vars, sub, BInv, TypeInv, TypeOK, PendingNumbered
<1>5. OutboxOK'
  BY <1>2, <1>3 DEF BInv, OutboxOK
<1>6. BatchedIsPending' /\ LinkedRows' /\ AckedPayload' /\ DeliveredWasReceived'
  BY <1>3 DEF vars, BInv, BatchedIsPending, LinkedRows, AckedPayload,
              DeliveredWasReceived
<1>7. QED  BY <1>4, <1>5, <1>6 DEF BInv

\* Enqueueing and retention change events that are linked to no open batch.
LEMMA OutboxOnly ==
    ASSUME BInv, NEW e \in Events, Enqueue(e) \/ DeleteExpiredOutbox(e)
    PROVE  BInv'
<1>1. UNCHANGED <<vars, flush, payload, received>>
  BY DEF Enqueue, DeleteExpiredOutbox
<1>2. TypeInv'
  BY <1>1 DEF vars, sub, BInv, TypeInv, TypeOK, PendingNumbered
<1>3. PICK x : /\ x \in [status : OutboxStatuses, batch : Deliveries \cup {None}]
               /\ outbox' = [outbox EXCEPT ![e] = x]
               /\ x.status \in {"pending", "gone"}
               /\ x.batch \in {outbox[e].batch, None}
  <2>1. CASE Enqueue(e)
    <3> DEFINE x == [outbox[e] EXCEPT !.status = "pending"]
    <3>1. outbox' = [outbox EXCEPT ![e] = x]
      BY <2>1 DEF Enqueue
    <3>2. x \in [status : OutboxStatuses, batch : Deliveries \cup {None}]
          /\ x.status = "pending" /\ x.batch = outbox[e].batch
      BY DEF BInv, OutboxOK, OutboxStatuses
    <3>3. QED  BY <3>1, <3>2
  <2>2. CASE DeleteExpiredOutbox(e)
    <3> DEFINE x == [status |-> "gone", batch |-> None]
    <3>1. outbox' = [outbox EXCEPT ![e] = x]
      BY <2>2 DEF DeleteExpiredOutbox
    <3>2. x \in [status : OutboxStatuses, batch : Deliveries \cup {None}]
          /\ x.status = "gone" /\ x.batch = None
      BY DEF OutboxStatuses
    <3>3. QED  BY <3>1, <3>2
  <2>3. QED  BY <2>1, <2>2
<1>4. OutboxOK'
  BY <1>1, <1>3 DEF BInv, OutboxOK
<1>5. BatchedIsPending' /\ LinkedRows' /\ AckedPayload' /\ DeliveredWasReceived'
  BY <1>1, <1>3 DEF vars, BInv, OutboxOK, BatchedIsPending, LinkedRows,
                    AckedPayload, DeliveredWasReceived
<1>6. QED  BY <1>2, <1>4, <1>5 DEF BInv

\* The two transactions of the flush link events to a row that did not exist.
LEMMA FlushWrites ==
    ASSUME BInv, NEW r \in Replicas, NEW d \in Deliveries,
           ClaimBatch(r, d) \/ FileTooLarge(r, d)
    PROVE  BInv'
<1> DEFINE sel == flush[r].sel
<1>0. /\ sel \subseteq Events /\ None \notin Deliveries
      /\ flush[r].queue \subseteq Events
  BY NoneAssumption DEF BInv, OutboxOK
<1>1. TypeInv'
  <2>1. FlushClaim(r, d) \/ FlushTooLarge(d)
    BY DEF ClaimBatch, FileTooLarge
  <2>2. Next
    BY <2>1 DEF Next
  <2>3. QED  BY <2>2, TypeStep DEF BInv
<1>2. /\ row[d].status = "none" /\ \A j \in jobs : j.del # d
      /\ \A j \in jobs' : j.stage = "ack" => j \in jobs
      /\ payload' = [payload EXCEPT ![d] = sel]
      /\ received' = received
  BY DEF ClaimBatch, FileTooLarge, FlushClaim, FlushTooLarge, Unused, Job
<1>3. \A c \in Deliveries : c # d => row'[c] = row[c]
  <2>1. PICK x : row' = [row EXCEPT ![d] = x]
    BY Zenon DEF ClaimBatch, FileTooLarge, FlushClaim, FlushTooLarge
  <2>2. QED  BY <2>1 DEF BInv, TypeInv, TypeOK
<1>4. \A e \in Events : outbox[e].batch # d
  BY <1>0, <1>2 DEF BInv, LinkedRows
<1>5. CASE ClaimBatch(r, d)
  <2>1. row'[d].status = "pending"
    BY <1>5 DEF ClaimBatch, FlushClaim, Leased, BInv, TypeInv, TypeOK
  <2>2. outbox' = [e \in Events |-> IF e \in sel
                                    THEN [status |-> "batched", batch |-> d]
                                    ELSE outbox[e]]
    BY <1>5 DEF ClaimBatch
  <2>3. OutboxOK'
    <3>1. flush' = [flush EXCEPT ![r] = [phase |-> "idle", queue |-> {}, sel |-> {}]]
      BY <1>5 DEF ClaimBatch, Goto
    <3>2. QED  BY <1>0, <1>2, <2>2, <3>1 DEF BInv, OutboxOK, OutboxStatuses
  <2>4. BatchedIsPending'
    BY <1>0, <1>3, <1>4, <2>1, <2>2 DEF BInv, OutboxOK, BatchedIsPending
  <2>5. LinkedRows'
    BY <1>0, <1>2, <1>3, <1>4, <2>1, <2>2 DEF BInv, OutboxOK, LinkedRows
  <2>6. AckedPayload' /\ DeliveredWasReceived'
    BY <1>0, <1>2, <2>2 DEF BInv, OutboxOK, AckedPayload, DeliveredWasReceived,
                            TypeInv, TypeOK, Jobs
  <2>7. QED  BY <1>1, <2>3, <2>4, <2>5, <2>6 DEF BInv
<1>6. CASE FileTooLarge(r, d)
  <2>1. row'[d].status # "none"
    <3>1. [Leased EXCEPT !.status = "failed", !.proc = "done",
                         !.lease = "null"].status # "none"
      BY DEF Leased
    <3>2. row'[d] = [Leased EXCEPT !.status = "failed", !.proc = "done", !.lease = "null"]
      BY <1>6, Zenon DEF FileTooLarge, FlushTooLarge, BInv, TypeInv, TypeOK
    <3>3. QED  BY <3>1, <3>2
  <2>2. outbox' = [e \in Events |-> IF e \in sel /\ outbox[e].status = "pending"
                                    THEN [status |-> "failed", batch |-> d]
                                    ELSE outbox[e]]
    BY <1>6 DEF FileTooLarge
  <2>3. OutboxOK'
    <3>1. Rest(r) \in SUBSET Events
      BY <1>0 DEF Rest
    <3>2. flush' \in [Replicas -> [phase : {"idle", "check", "claim"},
                                   queue : SUBSET Events, sel : SUBSET Events]]
      BY <1>6, <3>1, NextGroupTypes DEF FileTooLarge, BInv
    <3>3. QED  BY <1>0, <1>2, <2>2, <3>2 DEF BInv, OutboxOK, OutboxStatuses
  <2>4. BatchedIsPending'
    BY <1>0, <1>3, <1>4, <2>2 DEF BInv, OutboxOK, BatchedIsPending
  <2>5. LinkedRows'
    BY <1>0, <1>2, <1>3, <1>4, <2>1, <2>2 DEF BInv, OutboxOK, LinkedRows
  <2>6. AckedPayload' /\ DeliveredWasReceived'
    BY <1>0, <1>2, <2>2 DEF BInv, OutboxOK, AckedPayload, DeliveredWasReceived,
                            TypeInv, TypeOK, Jobs
  <2>7. QED  BY <1>1, <2>3, <2>4, <2>5, <2>6 DEF BInv
<1>7. QED  BY <1>5, <1>6

\* Steps that leave the outbox alone, keep pending rows pending and create none.
LEMMA OutboxKept ==
    ASSUME BInv, TypeInv', UNCHANGED <<outbox, payload>>,
           flush' \in [Replicas -> [phase : {"idle", "check", "claim"},
                                    queue : SUBSET Events, sel : SUBSET Events]],
           received \subseteq received', received' \subseteq Events,
           \A d \in Deliveries : /\ row[d].status = "pending" => row'[d].status = "pending"
                                 /\ row[d].status # "none" => row'[d].status # "none",
           \A j \in jobs' : j.stage = "ack" => j \in jobs \/ payload[j.del] \subseteq received'
    PROVE  BInv'
<1>1. OutboxOK'
  BY DEF BInv, OutboxOK
<1>2. BatchedIsPending'
  BY DEF BInv, OutboxOK, BatchedIsPending
<1>3. LinkedRows'
  BY DEF BInv, OutboxOK, LinkedRows
<1>4. AckedPayload'
  BY DEF BInv, AckedPayload
<1>5. DeliveredWasReceived'
  BY DEF BInv, DeliveredWasReceived
<1>6. QED  BY <1>1, <1>2, <1>3, <1>4, <1>5 DEF BInv

\* A final update closes a row and its events in one transaction.
LEMMA MembersClosed ==
    ASSUME BInv, TypeInv', NEW d \in Deliveries,
           NEW s \in {"delivered", "failed", "cancelled"}, SetMembers(d, s),
           \A c \in Deliveries \ {d} : row'[c] = row[c], row'[d].status # "none",
           s = "delivered" => payload[d] \subseteq received,
           jobs' \subseteq jobs, UNCHANGED <<flush, payload, received>>
    PROVE  BInv'
<1>0. None \notin Deliveries
  BY NoneAssumption
<1>1. \A e \in Events : /\ outbox'[e].batch = outbox[e].batch
                        /\ outbox'[e].status = IF outbox[e].batch = d THEN s
                                               ELSE outbox[e].status
                        /\ outbox'[e] \in [status : OutboxStatuses,
                                           batch : Deliveries \cup {None}]
  BY DEF SetMembers, Members, BInv, OutboxOK, OutboxStatuses
<1>2. OutboxOK'
  BY <1>1 DEF SetMembers, BInv, OutboxOK
<1>3. BatchedIsPending'
  BY <1>0, <1>1 DEF BInv, OutboxOK, BatchedIsPending
<1>4. LinkedRows'
  BY <1>0, <1>1 DEF BInv, OutboxOK, LinkedRows
<1>5. AckedPayload'
  BY DEF BInv, AckedPayload
<1>6. DeliveredWasReceived'
  BY <1>0, <1>1 DEF BInv, DeliveredWasReceived, LinkedRows
<1>7. QED  BY <1>2, <1>3, <1>4, <1>5, <1>6 DEF BInv

\* The steps of one execution.
LEMMA BJobStepInv ==
    ASSUME BInv, NEW j \in jobs, BJobStep(j), TypeInv'
    PROVE  BInv'
<1>0. /\ j \in Jobs /\ j.del \in Deliveries /\ row[j.del] \in Rows
      /\ flush \in [Replicas -> [phase : {"idle", "check", "claim"},
                                 queue : SUBSET Events, sel : SUBSET Events]]
      /\ received \subseteq Events /\ payload[j.del] \subseteq Events
      /\ row \in [Deliveries -> Rows]
  BY DEF BInv, TypeInv, TypeOK, Jobs, OutboxOK
<1>a. ASSUME NEW s \in {"delivered", "failed", "cancelled"}, SetMembers(j.del, s),
             NEW x, Write(j, x), x.status # "none",
             s = "delivered" => payload[j.del] \subseteq received,
             UNCHANGED <<flush, payload, received>>
      PROVE  BInv'
  <2>1. /\ \A c \in Deliveries \ {j.del} : row'[c] = row[c]
        /\ row'[j.del] = x /\ jobs' \subseteq jobs
    BY <1>a, <1>0 DEF Write, Done
  <2>2. QED  BY <1>a, <1>0, <2>1, MembersClosed
<1>1. ASSUME NEW outcome \in Outcomes, BPostOutcome(j, outcome)
      PROVE  BInv'
  <2>1. /\ UNCHANGED <<row, outbox, flush, payload>>
        /\ jobs' = (jobs \ {j}) \cup {[j EXCEPT !.stage = outcome]}
        /\ received' = IF outcome = "ack" THEN received \cup payload[j.del]
                       ELSE received
    BY <1>1 DEF BPostOutcome, PostOutcome, Advance
  <2>2. /\ [j EXCEPT !.stage = outcome].stage = outcome
        /\ [j EXCEPT !.stage = outcome].del = j.del
    BY <1>0 DEF Jobs
  <2>3. \A k \in jobs' : k.stage = "ack" => k \in jobs \/ payload[k.del] \subseteq received'
    BY <2>1, <2>2
  <2>4. QED  BY <1>0, <2>1, <2>3, OutboxKept
<1>2. CASE BRecordSuccess(j) /\ UNCHANGED <<flush, payload, received>>
  <2>1. payload[j.del] \subseteq received
    BY <1>2 DEF BRecordSuccess, RecordSuccess, BInv, AckedPayload
  <2>2. PICK x : x.status # "none" /\ Write(j, x)
    <3>1. [row[j.del] EXCEPT !.status = "success", !.proc = "done",
                             !.lease = "null"].status # "none"
      BY <1>0 DEF Rows
    <3>2. QED  BY <1>2, <3>1, Zenon DEF BRecordSuccess, RecordSuccess
  <2>3. QED  BY <1>2, <1>a, <2>1, <2>2 DEF BRecordSuccess
<1>3. CASE BRecordBlocked(j) /\ UNCHANGED <<flush, payload, received>>
  <2>1. PICK x : x.status # "none" /\ Write(j, x)
    <3>1. [row[j.del] EXCEPT !.status = "failed", !.proc = "done",
                             !.lease = "null", !.next = "null"].status # "none"
      BY <1>0 DEF Rows
    <3>2. QED  BY <1>3, <3>1, Zenon DEF BRecordBlocked, RecordBlocked, MarkFailed
  <2>2. QED  BY <1>3, <1>a, <2>1 DEF BRecordBlocked
<1>4. CASE BRecordCancelled(j) /\ UNCHANGED <<flush, payload, received>>
  <2>1. PICK x : x.status # "none" /\ Write(j, x)
    <3>1. [row[j.del] EXCEPT !.status = "cancelled", !.proc = "done",
                             !.lease = "null"].status # "none"
      BY <1>0 DEF Rows
    <3>2. QED  BY <1>4, <3>1, Zenon DEF BRecordCancelled, RecordCancelled
  <2>2. QED  BY <1>4, <1>a, <2>1 DEF BRecordCancelled
<1>5. CASE /\ StartAttempt(j) \/ ScheduleRetryOrFail(j) \/ RowDeleted(j)
           /\ UNCHANGED <<outbox, flush, payload, received>>
  <2>1. \A k \in jobs' : k.stage = "ack" => k \in jobs
    <3>1. [j EXCEPT !.stage = "posting"].stage = "posting"
      BY <1>0 DEF Jobs
    <3>2. \/ jobs' = jobs \ {j}
          \/ jobs' = (jobs \ {j}) \cup {[j EXCEPT !.stage = "posting"]}
      BY <1>5 DEF StartAttempt, ScheduleRetryOrFail, RowDeleted, MarkFailed,
                  Write, Done, Advance
    <3>3. QED  BY <3>1, <3>2
  <2>2. \A d \in Deliveries :
           /\ row[d].status = "pending" => row'[d].status = "pending"
           /\ row[d].status # "none" => row'[d].status # "none"
    <3>1. CASE StartAttempt(j)
      BY <1>0, <3>1 DEF StartAttempt, Rows
    <3>2. CASE ScheduleRetryOrFail(j)
      <4>1. ~(Kind[j.del] = "ping" \/ Exhausted(j))
        BY <1>0, BatchRowsAssumption DEF Exhausted
      <4>2. row' = [row EXCEPT ![j.del] =
                      [status |-> "pending", proc |-> "idle", lease |-> "null",
                       next |-> "later", attempt |-> NextAttempt(j.attempt)]]
        BY <3>2, <4>1 DEF ScheduleRetryOrFail, Write
      <4>3. QED  BY <1>0, <4>2
    <3>3. CASE RowDeleted(j)
      BY <3>3 DEF RowDeleted
    <3>4. QED  BY <1>5, <3>1, <3>2, <3>3
  <2>3. QED  BY <1>0, <1>5, <2>1, <2>2, OutboxKept
<1>6. QED  BY <1>1, <1>2, <1>3, <1>4, <1>5 DEF BJobStep

\* Cancellation, retention and deletion change rows and events together.
LEMMA BulkInv ==
    ASSUME BInv, TypeInv',
           \/ BCancelPending \/ BDeleteSubscription
           \/ \E d \in Deliveries : BDeleteExpired(d)
    PROVE  BInv'
<1>0. /\ None \notin Deliveries /\ row \in [Deliveries -> Rows]
      /\ outbox \in [Events -> [status : OutboxStatuses,
                                batch : Deliveries \cup {None}]]
      /\ [Absent EXCEPT !.status = "gone"].status = "gone"
  BY NoneAssumption DEF BInv, OutboxOK, TypeInv, TypeOK, Absent
<1>1. CASE BCancelPending
  <2>1. \A d \in Deliveries : /\ row[d].status # "none" => row'[d].status # "none"
    BY <1>0, <1>1, CancelledRows DEF BCancelPending
  <2>2. /\ \A e \in Events : /\ outbox'[e].batch = outbox[e].batch
                             /\ outbox'[e].status # "batched"
                             /\ outbox'[e].status = "delivered" =>
                                  outbox[e].status = "delivered"
                             /\ outbox'[e] \in [status : OutboxStatuses,
                                                batch : Deliveries \cup {None}]
        /\ outbox' = [e \in Events |-> outbox'[e]]
    BY <1>0, <1>1 DEF BCancelPending, OutboxStatuses
  <2>3. UNCHANGED <<jobs, flush, payload, received>>
    BY <1>1, CancelFacts DEF BCancelPending
  <2>4. OutboxOK'
    BY <2>2, <2>3 DEF BInv, OutboxOK
  <2>5. BatchedIsPending' /\ LinkedRows' /\ AckedPayload' /\ DeliveredWasReceived'
    BY <1>0, <2>1, <2>2, <2>3 DEF BInv, BatchedIsPending, LinkedRows,
                                  AckedPayload, DeliveredWasReceived
  <2>6. QED  BY <2>4, <2>5 DEF BInv
<1>2. CASE BDeleteSubscription
  <2>1. /\ \A e \in Events : /\ outbox'[e].batch \in {None, outbox[e].batch}
                             /\ outbox[e].status # "none" => outbox'[e].batch = None
                             /\ outbox'[e].status \in {"none", "gone"}
                             /\ outbox'[e] \in [status : OutboxStatuses,
                                                batch : Deliveries \cup {None}]
        /\ outbox' = [e \in Events |-> outbox'[e]]
    BY <1>0, <1>2 DEF BDeleteSubscription, OutboxStatuses
  <2>2. \A d \in Deliveries : row[d].status # "none" => row'[d].status # "none"
    <3>1. PICK x : x.status = "gone" /\
                   row' = [d \in Deliveries |-> IF row[d].status = "none" THEN row[d] ELSE x]
      BY <1>0, <1>2, Zenon DEF BDeleteSubscription, DeleteSubscription
    <3>2. QED  BY <3>1
  <2>3. UNCHANGED <<jobs, flush, payload, received>>
    BY <1>2 DEF BDeleteSubscription, DeleteSubscription
  <2>4. OutboxOK'
    BY <2>1, <2>3 DEF BInv, OutboxOK
  <2>5. BatchedIsPending' /\ LinkedRows' /\ AckedPayload' /\ DeliveredWasReceived'
    BY <1>0, <2>1, <2>2, <2>3 DEF BInv, BatchedIsPending, LinkedRows,
                                  AckedPayload, DeliveredWasReceived
  <2>6. QED  BY <2>4, <2>5 DEF BInv
<1>3. ASSUME NEW d \in Deliveries, BDeleteExpired(d)
      PROVE  BInv'
  <2>1. PICK x : x.status = "gone" /\ row' = [row EXCEPT ![d] = x]
    BY <1>0, <1>3, Zenon DEF BDeleteExpired, DeleteExpired
  <2>2. row[d].status # "pending"
    BY <1>3 DEF BDeleteExpired, DeleteExpired
  <2>3. /\ \A e \in Events : /\ outbox'[e].status = outbox[e].status
                             /\ outbox'[e].batch = IF outbox[e].batch = d THEN None
                                                   ELSE outbox[e].batch
                             /\ outbox'[e] \in [status : OutboxStatuses,
                                                batch : Deliveries \cup {None}]
        /\ outbox' = [e \in Events |-> outbox'[e]]
    BY <1>0, <1>3 DEF BDeleteExpired, Unlink
  <2>4. UNCHANGED <<jobs, flush, payload, received>>
    BY <1>3 DEF BDeleteExpired, DeleteExpired
  <2>5. OutboxOK'
    BY <2>3, <2>4 DEF BInv, OutboxOK
  <2>6. BatchedIsPending' /\ LinkedRows' /\ AckedPayload' /\ DeliveredWasReceived'
    BY <1>0, <2>1, <2>2, <2>3, <2>4 DEF BInv, BatchedIsPending, LinkedRows,
                                        AckedPayload, DeliveredWasReceived
  <2>7. QED  BY <2>5, <2>6 DEF BInv
<1>4. QED  BY <1>1, <1>2, <1>3

\* Claims, crashes, timers and the subscription's flag.
LEMMA QuietInv ==
    ASSUME BInv, TypeInv',
           \/ \E R \in SUBSET Replicas : BRetryPendingDeliveries(R)
           \/ \E r \in Replicas : BCrash(r)
           \/ /\ \/ \E j \in jobs : JobFails(j) \/ SuccessWriteFails(j)
                 \/ \E d \in Deliveries : LeaseExpires(d) \/ RetryFallsDue(d)
                 \/ Deactivate \/ Reactivate \/ PatchDies
              /\ UNCHANGED <<outbox, flush, payload, received>>
    PROVE  BInv'
<1>0. /\ row \in [Deliveries -> Rows]
      /\ flush \in [Replicas -> [phase : {"idle", "check", "claim"},
                                 queue : SUBSET Events, sel : SUBSET Events]]
      /\ received \subseteq Events
  BY DEF BInv, OutboxOK, TypeInv, TypeOK
<1>1. ASSUME NEW R \in SUBSET Replicas, BRetryPendingDeliveries(R)
      PROVE  BInv'
  <2>1. \A d \in Deliveries : row'[d].status = row[d].status
    BY <1>0, <1>1 DEF BRetryPendingDeliveries, RetryPendingDeliveries, Rows
  <2>2. \A j \in jobs' : j.stage = "ack" => j \in jobs
    <3>1. \A r, d, n : Job(r, d, "retry", n, ClaimStage).stage # "ack"
      BY DEF Job, ClaimStage
    <3>2. \A j \in Claims(R) : j.stage # "ack"
      BY <3>1 DEF Claims
    <3>3. QED
      BY <1>1, <3>2 DEF BRetryPendingDeliveries, RetryPendingDeliveries
  <2>3. UNCHANGED <<outbox, flush, payload, received>>
    BY <1>1 DEF BRetryPendingDeliveries
  <2>4. QED  BY <1>0, <2>1, <2>2, <2>3, OutboxKept
<1>2. ASSUME NEW r \in Replicas, BCrash(r)
      PROVE  BInv'
  <2>1. UNCHANGED <<row, outbox, payload, received>> /\ jobs' \subseteq jobs
    BY <1>2 DEF BCrash
  <2>2. flush' \in [Replicas -> [phase : {"idle", "check", "claim"},
                                 queue : SUBSET Events, sel : SUBSET Events]]
    BY <1>0, <1>2 DEF BCrash, Idle
  <2>3. QED  BY <1>0, <2>1, <2>2, OutboxKept
<1>3. ASSUME UNCHANGED <<outbox, flush, payload, received>>,
             \/ \E j \in jobs : JobFails(j) \/ SuccessWriteFails(j)
             \/ Deactivate \/ Reactivate \/ PatchDies
      PROVE  BInv'
  <2>1. row' = row
    BY <1>3 DEF JobFails, SuccessWriteFails, Deactivate, Reactivate, PatchDies
  <2>2. \A k \in jobs' : k.stage = "ack" => k \in jobs
    <3>1. ASSUME NEW j \in jobs, SuccessWriteFails(j)
          PROVE  \A k \in jobs' : k.stage = "ack" => k \in jobs
      BY <3>1, NackedJob DEF BInv
    <3>2. QED
      BY <1>3, <3>1 DEF JobFails, Done, Deactivate, Reactivate, PatchDies
  <2>3. QED  BY <1>0, <1>3, <2>1, <2>2, OutboxKept
<1>4. ASSUME UNCHANGED <<outbox, flush, payload, received>>,
             NEW d \in Deliveries, LeaseExpires(d) \/ RetryFallsDue(d)
      PROVE  BInv'
  <2>1. \A c \in Deliveries : row'[c].status = row[c].status
    BY <1>0, <1>4 DEF LeaseExpires, RetryFallsDue, Rows
  <2>2. jobs' = jobs
    BY <1>4 DEF LeaseExpires, RetryFallsDue
  <2>3. QED  BY <1>0, <1>4, <2>1, <2>2, OutboxKept
<1>5. QED  BY <1>1, <1>2, <1>3, <1>4

-----------------------------------------------------------------------------
LEMMA BInitInv == BInit => BInv
<1> SUFFICES ASSUME BInit PROVE BInv
  OBVIOUS
<1>1. TypeInv
  BY TypeInit DEF BInit
<1>2. OutboxOK
  BY DEF BInit, Idle, OutboxOK, OutboxStatuses
<1>3. BatchedIsPending /\ LinkedRows /\ AckedPayload /\ DeliveredWasReceived
  BY DEF BInit, Init, BatchedIsPending, LinkedRows, AckedPayload, DeliveredWasReceived
<1>4. QED  BY <1>1, <1>2, <1>3 DEF BInv

LEMMA BStep ==
    ASSUME BInv, [BNext]_batchVars
    PROVE  BInv'
<1>1. TypeInv'
  BY StepImplements, TypeStep DEF BInv
<1>2. CASE UNCHANGED batchVars
  BY <1>2 DEF batchVars, vars, sub, BInv, TypeInv, TypeOK, PendingNumbered, OutboxOK,
              BatchedIsPending, LinkedRows, AckedPayload, DeliveredWasReceived
<1>3. CASE BNext
  BY <1>1, <1>3, FlushProgress, OutboxOnly, FlushWrites, BJobStepInv, BulkInv,
     QuietInv DEF BNext
<1>4. QED  BY <1>2, <1>3

LEMMA BInvariant == BSpec => []BInv
BY BInitInv, BStep, PTL DEF BSpec

\* Only Enqueue adds to the history of late events.
LEMMA PassedMoves ==
    ASSUME [BNext]_batchVars
    PROVE  passed' = passed \/ \E e \in Events : Enqueue(e)
<1>1. ASSUME NEW r \in Replicas,
             \/ FlushRead(r) \/ FlushCheck(r) \/ ClaimConflict(r)
             \/ InsertThrows(r) \/ BCrash(r)
      PROVE  passed' = passed
  BY <1>1 DEF FlushRead, FlushCheck, ClaimConflict, InsertThrows, BCrash
<1>2. ASSUME NEW r \in Replicas, NEW d \in Deliveries,
             ClaimBatch(r, d) \/ FileTooLarge(r, d)
      PROVE  passed' = passed
  BY <1>2 DEF ClaimBatch, FileTooLarge
<1>3. ASSUME NEW j \in jobs, BJobStep(j)
      PROVE  passed' = passed
  BY <1>3 DEF BJobStep, BPostOutcome
<1>4. ASSUME \/ BCancelPending \/ BDeleteSubscription
             \/ \E d \in Deliveries : BDeleteExpired(d)
             \/ \E R \in SUBSET Replicas : BRetryPendingDeliveries(R)
             \/ \E e \in Events : DeleteExpiredOutbox(e)
      PROVE  passed' = passed
  BY <1>4 DEF BCancelPending, BDeleteSubscription, BDeleteExpired,
              BRetryPendingDeliveries, DeleteExpiredOutbox
<1>5. UNCHANGED batchVars => passed' = passed
  BY DEF batchVars
<1>6. QED  BY <1>1, <1>2, <1>3, <1>4, <1>5 DEF BNext

\* Outbox, flush, payloads and rows keep their shape.
THEOREM BatchTypeCorrect == BSpec => []BTypeOK
<1> DEFINE PassedOK == passed \subseteq Events \X Events
<1>1. BInit => PassedOK
  BY DEF BInit
<1>2. PassedOK /\ [BNext]_batchVars => PassedOK'
  <2> SUFFICES ASSUME PassedOK, [BNext]_batchVars PROVE PassedOK'
    OBVIOUS
  <2>1. ASSUME NEW e \in Events, Enqueue(e)
        PROVE  PassedOK'
    BY <2>1 DEF Enqueue, Ahead
  <2>2. QED  BY <2>1, PassedMoves
<1>3. BInv /\ PassedOK => BTypeOK
  BY DEF BInv, TypeInv, OutboxOK, BTypeOK
<1> HIDE DEF PassedOK
<1>4. QED  BY <1>1, <1>2, <1>3, BInvariant, PTL DEF BSpec

\* On every schedule, with overlapping executions and with crashes, a batched
\* event belongs to a delivery row that is still pending.
THEOREM NoEventStranded == BSpec => []BatchedIsPending
<1>1. BInv => BatchedIsPending  BY DEF BInv
<1>2. QED  BY <1>1, BInvariant, PTL

\* On every schedule, an event marked delivered was in a batch the receiver
\* acknowledged.
THEOREM DeliveryIsReal == BSpec => []DeliveredWasReceived
<1>1. BInv => DeliveredWasReceived  BY DEF BInv
<1>2. QED  BY <1>1, BInvariant, PTL

-----------------------------------------------------------------------------
(* What a batch takes from the queue.                                       *)

\* A set of numbers up to m has a greatest.
LEMMA Greatest ==
    ASSUME NEW m \in Nat, NEW N \in SUBSET (1 .. m), N # {}
    PROVE  \E n \in N : \A k \in N : k <= n
<1> DEFINE R == OpToRel(<, Nat)
           T == {m - n : n \in N}
<1>1. T \in SUBSET Nat /\ T # {}
  OBVIOUS
<1>2. \E x \in T : \A y \in T : ~(<<y, x>> \in R)
  <2> HIDE DEF R, T
  <2>1. IsWellFoundedOn(R, Nat)
    BY NatLessThanWellFounded DEF R
  <2>2. QED  BY <1>1, <2>1, WFMin
<1>3. PICK n \in N : \A y \in T : ~(<<y, m - n>> \in R)
  BY <1>2
<1>4. ASSUME NEW k \in N
      PROVE  k <= n
  <2>1. m - k \in Nat /\ m - n \in Nat /\ m - k \in T
    OBVIOUS
  <2>2. m - k < m - n => <<m - k, m - n>> \in R
    BY <2>1 DEF OpToRel
  <2>3. ~(m - k < m - n)
    BY <1>3, <2>1, <2>2
  <2>4. QED  BY <2>3
<1>5. QED  BY <1>4

\* The first n events are a prefix, and one of them is one.
LEMMA FirstOfPrefix ==
    ASSUME NEW S \in SUBSET Events, NEW n \in Nat, NEW f \in FirstOf(S, n),
           NEW e \in S, e <= f
    PROVE  e \in FirstOf(S, n)
<1> DEFINE upTo(x) == {g \in S : g <= x}
<1>1. IsFiniteSet(S) /\ S \subseteq Nat
  BY EventsAssumption, FS_Subset
<1>2. upTo(e) \subseteq upTo(f) /\ IsFiniteSet(upTo(f))
  <2>1. f \in S
    BY DEF FirstOf
  <2>2. IsFiniteSet(upTo(f))
    BY <1>1, FS_Subset
  <2>3. ASSUME NEW g \in S, g <= e PROVE g <= f
    BY <1>1, <2>1, <2>3
  <2>4. QED  BY <2>2, <2>3
<1>3. Cardinality(upTo(e)) <= Cardinality(upTo(f))
      /\ Cardinality(upTo(e)) \in Nat /\ Cardinality(upTo(f)) \in Nat
  BY <1>2, FS_Subset, FS_CardinalityType
<1>4. Cardinality(upTo(f)) <= n
  BY DEF FirstOf
<1>5. Cardinality(upTo(e)) <= n
  BY <1>3, <1>4
<1>6. QED  BY <1>5 DEF FirstOf

LEMMA FirstIsOne ==
    ASSUME NEW S \in SUBSET Events, NEW e \in FirstOf(S, 1), NEW f \in FirstOf(S, 1), e < f
    PROVE  FALSE
<1> DEFINE upTo == {g \in S : g <= f}
<1>1. /\ IsFiniteSet(S) /\ S \subseteq Nat /\ e \in S /\ f \in S
      /\ Cardinality(upTo) <= 1
  <2>1. IsFiniteSet(S) /\ S \subseteq Nat
    BY EventsAssumption, FS_Subset
  <2>2. e \in S /\ f \in S
    BY DEF FirstOf
  <2>3. Cardinality(upTo) <= 1
    BY DEF FirstOf
  <2>4. QED  BY <2>1, <2>2, <2>3
<1>2. IsFiniteSet(upTo) /\ {e} \cup {f} \subseteq upTo
  BY <1>1, FS_Subset
<1>3. Cardinality({e}) = 1 /\ IsFiniteSet({e}) /\ f \notin {e}
  <2>1. f # e
    BY <1>1
  <2>2. QED  BY <2>1, FS_Singleton
<1>4. Cardinality({e} \cup {f}) = 2
  BY <1>3, FS_AddElement
<1>5. Cardinality({e} \cup {f}) <= Cardinality(upTo) /\ Cardinality(upTo) \in Nat
  BY <1>2, FS_Subset, FS_CardinalityType
<1>6. QED  BY <1>1, <1>4, <1>5

\* A batch that fits is a prefix of what it was cut from; one that is too large
\* all the same has been cut down to one event.
LEMMA FittingFacts ==
    ASSUME NEW S \in SUBSET Events
    PROVE  /\ Fitting(S) \subseteq S
           /\ \A f \in Fitting(S), e \in S : e <= f => e \in Fitting(S)
           /\ Fitting(S) \in Oversize => \A f \in Fitting(S) : Fitting(S) = {f}
<1> DEFINE fits(n) == n = 1 \/ FirstOf(S, n) \notin Oversize
           last(n) == fits(n) /\ \A m \in n + 1 .. Cardinality(S) : ~fits(m)
           size == CHOOSE n \in 1 .. Cardinality(S) : last(n)
<1>1. Fitting(S) = FirstOf(S, size)
  BY DEF Fitting
<1>2. Fitting(S) \subseteq S
  BY <1>1 DEF FirstOf
<1>3. CASE S = {}
  BY <1>2, <1>3
<1>4. CASE S # {}
  <2>1. Cardinality(S) \in Nat /\ Cardinality(S) >= 1
    <3>1. IsFiniteSet(S)
      BY EventsAssumption, FS_Subset
    <3>2. Cardinality(S) \in Nat
      BY <3>1, FS_CardinalityType
    <3>3. Cardinality(S) # 0
      BY <1>4, <3>1, FS_EmptySet
    <3>4. QED  BY <3>2, <3>3
  <2>2. \E n \in 1 .. Cardinality(S) : last(n)
    <3> DEFINE N == {n \in 1 .. Cardinality(S) : fits(n)}
    <3>1. 1 \in N
      BY <2>1
    <3>2. PICK n \in N : \A k \in N : k <= n
      <4> HIDE DEF N, fits
      <4>1. N \in SUBSET (1 .. Cardinality(S))
        BY DEF N
      <4>2. QED  BY <2>1, <3>1, <4>1, Greatest
    <3> HIDE DEF fits
    <3>3. ASSUME NEW m \in n + 1 .. Cardinality(S)
          PROVE  ~fits(m)
      BY <2>1, <3>2
    <3>4. QED  BY <3>2, <3>3
  <2>3. size \in 1 .. Cardinality(S) /\ fits(size)
    <3> HIDE DEF fits
    <3>1. QED  BY <2>2
  <2> HIDE DEF size
  <2>4. \A f \in Fitting(S), e \in S : e <= f => e \in Fitting(S)
    BY <1>1, <2>1, <2>3, FirstOfPrefix
  <2>5. ASSUME Fitting(S) \in Oversize, NEW f \in Fitting(S)
        PROVE  Fitting(S) = {f}
    <3>1. Fitting(S) = FirstOf(S, 1)
      BY <1>1, <2>3, <2>5
    <3>2. ASSUME NEW e \in Fitting(S)
          PROVE  e = f
      <4>1. e \in Nat /\ f \in Nat
        BY <1>2, <2>5, EventsAssumption
      <4>2. ~(e < f) /\ ~(f < e)
        BY <2>5, <3>1, FirstIsOne
      <4>3. QED  BY <4>1, <4>2
    <3>3. QED  BY <2>5, <3>2
  <2>6. QED  BY <1>2, <2>4, <2>5
<1>5. QED  BY <1>3, <1>4

-----------------------------------------------------------------------------
(* How an event moves through the outbox.                                   *)

\* The steps that write to the outbox.
LEMMA OutboxWrites ==
    ASSUME BInv, [BNext]_batchVars
    PROVE  \/ outbox' = outbox
           \/ \E e \in Events : Enqueue(e) \/ DeleteExpiredOutbox(e)
           \/ \E r \in Replicas, d \in Deliveries : ClaimBatch(r, d) \/ FileTooLarge(r, d)
           \/ \E d \in Deliveries, s \in {"delivered", "failed", "cancelled"} :
                SetMembers(d, s)
           \/ BCancelPending \/ BDeleteSubscription
           \/ \E d \in Deliveries : BDeleteExpired(d)
<1>1. ASSUME NEW r \in Replicas,
             \/ FlushRead(r) \/ FlushCheck(r) \/ ClaimConflict(r)
             \/ InsertThrows(r) \/ BCrash(r)
      PROVE  outbox' = outbox
  BY <1>1 DEF FlushRead, FlushCheck, ClaimConflict, InsertThrows, BCrash
<1>2. ASSUME NEW R \in SUBSET Replicas, BRetryPendingDeliveries(R)
      PROVE  outbox' = outbox
  BY <1>2 DEF BRetryPendingDeliveries
<1>3. ASSUME NEW j \in jobs, BJobStep(j)
      PROVE  \/ outbox' = outbox
             \/ \E d \in Deliveries, s \in {"delivered", "failed", "cancelled"} :
                  SetMembers(d, s)
  <2>1. j.del \in Deliveries
    BY DEF BInv, TypeInv, TypeOK, Jobs
  <2>2. \/ outbox' = outbox
        \/ SetMembers(j.del, "delivered") \/ SetMembers(j.del, "failed")
        \/ SetMembers(j.del, "cancelled")
    BY <1>3 DEF BJobStep, BPostOutcome, BRecordSuccess, BRecordBlocked, BRecordCancelled
  <2>3. QED  BY <2>1, <2>2
<1>4. UNCHANGED batchVars => outbox' = outbox
  BY DEF batchVars
<1>5. QED  BY <1>1, <1>2, <1>3, <1>4 DEF BNext

\* What a step makes of one event.
LEMMA EventMoves ==
    ASSUME BInv, QueuedUnlinked, [BNext]_batchVars, NEW e \in Events
    PROVE  LET s == outbox[e]
               t == outbox'[e]
           IN  \/ t = s
               \/ s.status = "none" /\ t.status = "pending" /\ t.batch = s.batch
               \/ s.status = "pending" /\ t.status \in {"batched", "failed"}
               \/ /\ s.status # "none" /\ t.batch = s.batch
                  /\ t.status \in {"delivered", "failed", "cancelled"}
               \/ t.status = s.status /\ t.batch = None
               \/ s.status # "none" /\ t.status = "gone" /\ t.batch = None
<1>0. /\ outbox \in [Events -> [status : OutboxStatuses, batch : Deliveries \cup {None}]]
      /\ None \notin Deliveries
  BY NoneAssumption DEF BInv, OutboxOK
<1>1. CASE outbox' = outbox
  BY <1>1
<1>2. ASSUME NEW x \in Events, Enqueue(x) \/ DeleteExpiredOutbox(x)
      PROVE  \/ outbox'[e] = outbox[e]
             \/ /\ outbox[e].status = "none" /\ outbox'[e].status = "pending"
                /\ outbox'[e].batch = outbox[e].batch
             \/ /\ outbox[e].status # "none"
                /\ outbox'[e].status = "gone" /\ outbox'[e].batch = None
  BY <1>0, <1>2 DEF Enqueue, DeleteExpiredOutbox
<1>3. ASSUME NEW r \in Replicas, NEW d \in Deliveries, ClaimBatch(r, d) \/ FileTooLarge(r, d)
      PROVE  \/ outbox'[e] = outbox[e]
             \/ outbox[e].status = "pending" /\ outbox'[e].status \in {"batched", "failed"}
  <2>1. CASE ClaimBatch(r, d)
    BY <1>0, <2>1 DEF ClaimBatch, StillPending
  <2>2. CASE FileTooLarge(r, d)
    BY <1>0, <2>2 DEF FileTooLarge
  <2>3. QED  BY <1>3, <2>1, <2>2
<1>4. ASSUME NEW d \in Deliveries, NEW s \in {"delivered", "failed", "cancelled"},
             SetMembers(d, s)
      PROVE  \/ outbox'[e] = outbox[e]
             \/ /\ outbox[e].status # "none" /\ outbox'[e].status = s
                /\ outbox'[e].batch = outbox[e].batch
  BY <1>0, <1>4 DEF SetMembers, Members, QueuedUnlinked
<1>5. CASE BCancelPending
  BY <1>0, <1>5 DEF BCancelPending
<1>6. CASE BDeleteSubscription
  BY <1>0, <1>6 DEF BDeleteSubscription
<1>7. ASSUME NEW d \in Deliveries, BDeleteExpired(d)
      PROVE  \/ outbox'[e] = outbox[e]
             \/ outbox'[e].status = outbox[e].status /\ outbox'[e].batch = None
  BY <1>0, <1>7 DEF BDeleteExpired, Unlink
<1>8. QED  BY <1>1, <1>2, <1>3, <1>4, <1>5, <1>6, <1>7, OutboxWrites

\* An event never goes back: into the queue, or out of its final status.
LEMMA NeverBack ==
    ASSUME BInv, QueuedUnlinked, [BNext]_batchVars, NEW e \in Events
    PROVE  /\ outbox[e].status # "none" => outbox'[e].status # "none"
           /\ outbox[e].status \notin {"none", "pending"} =>
                outbox'[e].status \notin {"none", "pending"}
           /\ Settled(e) => Settled(e)'
BY EventMoves DEF Settled

LEMMA UnlinkedStep ==
    ASSUME BInv, QueuedUnlinked, [BNext]_batchVars
    PROVE  QueuedUnlinked'
BY EventMoves DEF QueuedUnlinked

LEMMA UnlinkedInvariant == BSpec => []QueuedUnlinked
<1>1. BInit => QueuedUnlinked
  BY DEF BInit, QueuedUnlinked
<1>2. QED  BY <1>1, BInvariant, UnlinkedStep, PTL DEF BSpec

\* On every schedule, over claims, conflicts, crashes and retries, an event
\* stays in the one batch it was put into and never returns to the queue.
THEOREM MembershipHolds == BSpec => MembershipStable
<1>1. ASSUME BInv, QueuedUnlinked, [BNext]_batchVars, NEW e \in Events
      PROVE  /\ outbox[e].batch # None => outbox'[e].batch \in {outbox[e].batch, None}
             /\ \A S \in {{"none"}, {"none", "pending"}, {"none", "pending", "batched"}} :
                  outbox[e].status \notin S => outbox'[e].status \notin S
  <2>1. outbox[e].batch # None => outbox'[e].batch \in {outbox[e].batch, None}
    BY <1>1, EventMoves DEF QueuedUnlinked
  <2>2. QED  BY <1>1, <2>1, NeverBack DEF Settled
<1>2. BInv /\ QueuedUnlinked /\ [BNext]_batchVars =>
        [\A e \in Events :
           /\ outbox[e].batch # None => outbox'[e].batch \in {outbox[e].batch, None}
           /\ \A S \in {{"none"}, {"none", "pending"}, {"none", "pending", "batched"}} :
                outbox[e].status \notin S => outbox'[e].status \notin S]_batchVars
  BY <1>1
<1>3. QED  BY <1>2, BInvariant, UnlinkedInvariant, PTL DEF BSpec, MembershipStable

-----------------------------------------------------------------------------
(* Order within one contract.                                               *)

OrderInv == /\ BInv /\ QueuedUnlinked
            /\ QueueInOrder /\ SelectionInOrder /\ SettledInOrder

\* What a step makes of the queue and the selection of one replica.
LEMMA FlushMoves ==
    ASSUME BInv, [BNext]_batchVars, NEW r \in Replicas
    PROVE  LET q == flush[r].queue
               qNew == flush'[r].queue
               selNew == flush'[r].sel
           IN  /\ \/ qNew \in {q, {}}
                  \/ qNew = WithStatus({"pending"}) /\ outbox' = outbox
                  \/ \E x : qNew = q \ OfEntity(q, x)
               /\ \/ selNew \in {flush[r].sel, {}}
                  \/ /\ outbox' = outbox
                     /\ \E x : /\ ~EarlierBatch(x)
                               /\ selNew = Fitting(FirstOf(OfEntity(q, x), BatchSize))
               /\ selNew = {} \/ qNew = q
<1> DEFINE q == flush[r].queue
           Reads == /\ flush'[r].queue = WithStatus({"pending"}) /\ flush'[r].sel = {}
                    /\ outbox' = outbox
           Passes == /\ \E x : flush'[r].queue = q \ OfEntity(q, x)
                     /\ flush'[r].sel = {}
           Selects == /\ flush'[r].queue = q /\ outbox' = outbox
                      /\ \E x : /\ ~EarlierBatch(x)
                                /\ flush'[r].sel =
                                     Fitting(FirstOf(OfEntity(q, x), BatchSize))
           Ends == flush'[r].queue = {} /\ flush'[r].sel = {}
<1>0. flush \in [Replicas -> [phase : {"idle", "check", "claim"},
                              queue : SUBSET Events, sel : SUBSET Events]]
  BY DEF BInv, OutboxOK
<1>1. ASSUME NEW c \in Replicas, NEW phase, NEW rest, NEW sel, Goto(c, phase, rest, sel)
      PROVE  IF c = r THEN flush'[r].queue = rest /\ flush'[r].sel = sel
                      ELSE flush'[r] = flush[r]
  BY <1>0, <1>1 DEF Goto
<1>2. ASSUME NEW c \in Replicas, NEW rest, NextGroup(c, rest)
      PROVE  IF c = r THEN flush'[r].queue = rest /\ flush'[r].sel = {}
                      ELSE flush'[r] = flush[r]
  BY <1>1, <1>2 DEF NextGroup
<1>3. ASSUME NEW c \in Replicas, FlushRead(c)
      PROVE  flush'[r] = flush[r] \/ Reads
  BY <1>1, <1>3 DEF FlushRead
<1>4. ASSUME NEW c \in Replicas, FlushCheck(c)
      PROVE  flush'[r] = flush[r] \/ Passes \/ Selects
  <2> DEFINE p == flush[c].queue
             oldest == CHOOSE e \in p : \A f \in p : e <= f
             group == OfEntity(p, oldest)
             selected == FirstOf(group, BatchSize)
  <2>1. /\ outbox' = outbox
        /\ \/ NextGroup(c, p \ group)
           \/ ~EarlierBatch(oldest) /\ Goto(c, "claim", p, Fitting(selected))
    BY <1>4 DEF FlushCheck
  <2> HIDE DEF oldest
  <2>2. CASE c # r
    BY <1>1, <1>2, <2>1, <2>2
  <2>3. CASE c = r
    BY <1>1, <1>2, <2>1, <2>3
  <2>4. QED  BY <2>2, <2>3
<1>5. ASSUME NEW c \in Replicas, NextGroup(c, Rest(c))
      PROVE  flush'[r] = flush[r] \/ Passes
  <2>1. PICK x : Rest(c) = flush[c].queue \ OfEntity(flush[c].queue, x)
    BY DEF Rest
  <2>2. QED  BY <1>2, <1>5, <2>1
<1>6. ASSUME NEW c \in Replicas, Goto(c, "idle", {}, {})
      PROVE  flush'[r] = flush[r] \/ Ends
  BY <1>1, <1>6
<1>7. ASSUME NEW c \in Replicas, BCrash(c)
      PROVE  flush'[r] = flush[r] \/ Ends
  BY <1>0, <1>7 DEF BCrash, Idle
<1>8. ASSUME NEW c \in Replicas, NEW d \in Deliveries, ClaimBatch(c, d) \/ FileTooLarge(c, d)
      PROVE  NextGroup(c, Rest(c)) \/ Goto(c, "idle", {}, {})
  BY <1>8 DEF ClaimBatch, FileTooLarge
<1>9. ASSUME NEW c \in Replicas, ClaimConflict(c) \/ InsertThrows(c)
      PROVE  NextGroup(c, Rest(c)) \/ Goto(c, "idle", {}, {})
  BY <1>9 DEF ClaimConflict, InsertThrows
<1>10. ASSUME NEW e \in Events, Enqueue(e) \/ DeleteExpiredOutbox(e)
       PROVE  flush' = flush
  BY <1>10 DEF Enqueue, DeleteExpiredOutbox
<1>11. ASSUME NEW j \in jobs, BJobStep(j)
       PROVE  flush' = flush
  BY <1>11 DEF BJobStep, BPostOutcome
<1>12. ASSUME \/ BCancelPending \/ BDeleteSubscription
              \/ \E d \in Deliveries : BDeleteExpired(d)
              \/ \E R \in SUBSET Replicas : BRetryPendingDeliveries(R)
       PROVE  flush' = flush
  BY <1>12 DEF BCancelPending, BDeleteSubscription, BDeleteExpired,
               BRetryPendingDeliveries
<1>13. UNCHANGED batchVars => flush' = flush
  BY DEF batchVars
<1>14. flush'[r] = flush[r] \/ Reads \/ Passes \/ Selects \/ Ends
  <2> HIDE DEF Reads, Passes, Selects, Ends
  <2>1. QED  BY <1>3, <1>4, <1>5, <1>6, <1>7, <1>8, <1>9, <1>10, <1>11, <1>12, <1>13
             DEF BNext
<1>15. QED  BY <1>14

\* An event enters the outbox by Enqueue, and what it comes too late for is
\* recorded then.
LEMMA Enters ==
    ASSUME OrderInv, [BNext]_batchVars, NEW e \in Events,
           outbox[e].status = "none", outbox'[e].status # "none"
    PROVE  /\ outbox'[e].status = "pending" /\ flush' = flush
           /\ \A f \in Events : f # e => outbox'[f] = outbox[f]
           /\ \A f \in Ahead(e) : <<e, f>> \in passed'
<1>0. outbox \in [Events -> [status : OutboxStatuses, batch : Deliveries \cup {None}]]
  BY DEF OrderInv, BInv, OutboxOK
<1>1. outbox[e].batch = None /\ None \notin Deliveries
  BY NoneAssumption DEF OrderInv, QueuedUnlinked
<1>2. ASSUME NEW x \in Events, Enqueue(x) \/ DeleteExpiredOutbox(x)
      PROVE  Enqueue(e)
  <2>1. x = e
    BY <1>0, <1>2 DEF Enqueue, DeleteExpiredOutbox
  <2>2. ~DeleteExpiredOutbox(e)
    BY DEF DeleteExpiredOutbox
  <2>3. QED  BY <1>2, <2>1, <2>2
<1>3. ASSUME NEW r \in Replicas, NEW d \in Deliveries,
             ClaimBatch(r, d) \/ FileTooLarge(r, d)
      PROVE  FALSE
  BY <1>0, <1>3 DEF ClaimBatch, StillPending, FileTooLarge
<1>4. ASSUME NEW d \in Deliveries, NEW s \in {"delivered", "failed", "cancelled"},
             SetMembers(d, s)
      PROVE  FALSE
  BY <1>0, <1>1, <1>4 DEF SetMembers, Members
<1>5. ~BCancelPending /\ ~BDeleteSubscription
  BY <1>0 DEF BCancelPending, BDeleteSubscription
<1>6. \A d \in Deliveries : ~BDeleteExpired(d)
  BY <1>0 DEF BDeleteExpired, Unlink
<1>7. Enqueue(e)
  BY <1>2, <1>3, <1>4, <1>5, <1>6, OutboxWrites DEF OrderInv
<1>8. QED  BY <1>0, <1>7 DEF Enqueue

\* What was too late stays recorded.
LEMMA PassedKept ==
    ASSUME [BNext]_batchVars
    PROVE  passed \subseteq passed'
<1>1. ASSUME NEW e \in Events, Enqueue(e)
      PROVE  passed \subseteq passed'
  BY <1>1 DEF Enqueue
<1>2. QED  BY <1>1, PassedMoves

LEMMA QueueStep ==
    ASSUME OrderInv, [BNext]_batchVars
    PROVE  QueueInOrder'
<1> SUFFICES ASSUME NEW r \in Replicas, NEW f \in flush'[r].queue, NEW e \in Events,
                    Before(e, f), <<e, f>> \notin passed', outbox'[e].status = "pending"
             PROVE  e \in flush'[r].queue
  BY DEF QueueInOrder, Before
<1>0. OutboxOK /\ QueueInOrder /\ <<e, f>> \notin passed
  BY PassedKept DEF OrderInv, BInv
<1>1. CASE outbox[e].status = "none"
  <2>1. flush' = flush /\ f \notin Ahead(e)
    BY <1>1, Enters
  <2>2. f \in Events
    BY <1>0, <2>1 DEF OutboxOK
  <2>3. QED  BY <2>1, <2>2 DEF Ahead
<1>2. CASE outbox[e].status # "none"
  <2>1. outbox[e].status = "pending"
    BY <1>2, NeverBack DEF OrderInv
  <2>2. CASE flush'[r].queue = flush[r].queue
    BY <1>0, <2>1, <2>2 DEF QueueInOrder
  <2>3. CASE flush'[r].queue = WithStatus({"pending"})
    BY <2>1, <2>3 DEF WithStatus
  <2>4. ASSUME NEW x, flush'[r].queue = flush[r].queue \ OfEntity(flush[r].queue, x)
        PROVE  e \in flush'[r].queue
    BY <1>0, <2>1, <2>4 DEF QueueInOrder, OfEntity, Before
  <2>5. QED  BY <2>2, <2>3, <2>4, FlushMoves DEF OrderInv
<1>3. QED  BY <1>1, <1>2

LEMMA SelectionStep ==
    ASSUME OrderInv, [BNext]_batchVars
    PROVE  SelectionInOrder'
<1> DEFINE Older(r, f) == \A e \in Events :
              Before(e, f) /\ <<e, f>> \notin passed' /\ Waiting(e)' => e \in flush'[r].sel
<1> SUFFICES ASSUME NEW r \in Replicas
             PROVE  /\ flush'[r].sel \subseteq flush'[r].queue
                    /\ \A f \in flush'[r].sel :
                         Older(r, f) /\ (flush'[r].sel \in Oversize => flush'[r].sel = {f})
  BY DEF SelectionInOrder, Before
<1>0. OutboxOK /\ SelectionInOrder /\ QueueInOrder /\ BatchedIsPending
  BY DEF OrderInv, BInv
<1>1. flush[r].queue \subseteq Events /\ flush[r].sel \subseteq flush[r].queue
  BY <1>0 DEF OutboxOK, SelectionInOrder
<1>2. flush'[r].sel \subseteq flush'[r].queue
  <2>1. ASSUME NEW x
        PROVE  Fitting(FirstOf(OfEntity(flush[r].queue, x), BatchSize)) \subseteq flush[r].queue
    <3>1. FirstOf(OfEntity(flush[r].queue, x), BatchSize) \subseteq flush[r].queue
      BY DEF OfEntity, FirstOf
    <3>2. QED  BY <1>1, <3>1, FittingFacts
  <2>2. QED  BY <1>1, <2>1, FlushMoves DEF OrderInv
<1>3. ASSUME NEW f \in flush'[r].sel
      PROVE  Older(r, f) /\ (flush'[r].sel \in Oversize => flush'[r].sel = {f})
  <2>1. ASSUME NEW e \in Events, Before(e, f), <<e, f>> \notin passed', Waiting(e)',
               ~Waiting(e)
        PROVE  FALSE
    <3>1. outbox[e].status = "none"
      BY <2>1, NeverBack DEF OrderInv, Waiting, Settled
    <3>2. flush' = flush /\ f \notin Ahead(e)
      BY <2>1, <3>1, Enters DEF Waiting
    <3>3. f \in flush[r].queue /\ f \in Events
      BY <1>1, <1>3, <3>2
    <3>4. QED  BY <2>1, <3>2, <3>3 DEF Ahead
  <2>2. CASE flush'[r].sel = flush[r].sel
    <3>1. flush[r].sel \in Oversize => flush[r].sel = {f}
      BY <1>0, <1>3, <2>2 DEF SelectionInOrder
    <3>2. Older(r, f)
      BY <1>0, <1>3, <2>1, <2>2, PassedKept DEF SelectionInOrder
    <3>3. QED  BY <2>2, <3>1, <3>2
  <2>3. ASSUME NEW x, ~EarlierBatch(x),
               flush'[r].sel = Fitting(FirstOf(OfEntity(flush[r].queue, x), BatchSize))
        PROVE  Older(r, f) /\ (flush'[r].sel \in Oversize => flush'[r].sel = {f})
    <3> DEFINE group == OfEntity(flush[r].queue, x)
               selected == FirstOf(group, BatchSize)
    <3>1. group \in SUBSET Events /\ selected \in SUBSET Events /\ selected \subseteq group
      BY <1>1 DEF OfEntity, FirstOf
    <3>2. f \in selected /\ f \in flush[r].queue /\ f \in Events /\ Entity[f] = Entity[x]
      <4>1. f \in selected
        BY <1>3, <2>3, <3>1, FittingFacts
      <4>2. QED  BY <3>1, <4>1 DEF OfEntity
    <3>3. ASSUME NEW e \in Events, Before(e, f), <<e, f>> \notin passed, Waiting(e)
          PROVE  e \in flush'[r].sel
      <4>1. outbox[e].status # "batched"
        BY <1>0, <2>3, <3>2, <3>3 DEF BatchedIsPending, EarlierBatch, Before
      <4>2. e \in group
        BY <1>0, <3>2, <3>3, <4>1 DEF QueueInOrder, Waiting, OfEntity, Before
      <4>3. e <= f
        BY <3>2, <3>3, EventsAssumption DEF Before
      <4>4. e \in selected
        <5> HIDE DEF group
        <5>1. QED  BY <3>1, <3>2, <4>2, <4>3, BatchAssumption, FirstOfPrefix
      <4>5. QED
        <5> HIDE DEF selected
        <5>1. QED  BY <1>3, <2>3, <3>1, <4>3, <4>4, FittingFacts DEF selected
    <3>4. flush'[r].sel \in Oversize => flush'[r].sel = {f}
      BY <1>3, <2>3, <3>1, FittingFacts
    <3>5. Older(r, f)
      BY <2>1, <3>3, PassedKept
    <3>6. QED  BY <3>4, <3>5
  <2>4. QED  BY <1>3, <2>2, <2>3, FlushMoves DEF OrderInv
<1>4. QED  BY <1>2, <1>3

LEMMA SettledStep ==
    ASSUME OrderInv, [BNext]_batchVars
    PROVE  SettledInOrder'
<1> SUFFICES ASSUME NEW e \in Events, NEW f \in Events, Before(e, f),
                    <<e, f>> \notin passed', Waiting(e)'
             PROVE  /\ ~Settled(f)'
                    /\ outbox'[f].status = "batched" =>
                         /\ outbox'[e].status = "batched"
                         /\ outbox'[e].batch = outbox'[f].batch
  BY DEF SettledInOrder, Before
<1>0. /\ outbox \in [Events -> [status : OutboxStatuses, batch : Deliveries \cup {None}]]
      /\ None \notin Deliveries /\ e # f
  BY NoneAssumption, EventsAssumption DEF OrderInv, BInv, OutboxOK, Before
<1>1. CASE ~Waiting(e)
  <2>1. outbox[e].status = "none"
    BY <1>1, NeverBack DEF OrderInv, Waiting, Settled
  <2>2. f \notin Ahead(e) /\ outbox'[f] = outbox[f]
    BY <1>0, <2>1, Enters DEF Waiting
  <2>3. outbox[f].status \in {"none", "pending"}
    BY <2>2 DEF Ahead
  <2>4. QED  BY <2>2, <2>3 DEF Settled
<1>2. CASE Waiting(e)
  <2>0. /\ ~Settled(f) /\ <<e, f>> \notin passed
        /\ outbox[f].status = "batched" =>
             outbox[e].status = "batched" /\ outbox[e].batch = outbox[f].batch
    BY <1>2, PassedKept DEF OrderInv, SettledInOrder
  <2>1. CASE outbox' = outbox
    BY <2>0, <2>1 DEF Settled
  <2>2. ASSUME NEW x \in Events, Enqueue(x) \/ DeleteExpiredOutbox(x)
        PROVE  outbox'[f].status = "batched" \/ Settled(f)' =>
                 outbox'[f] = outbox[f] /\ outbox'[e] = outbox[e]
    <3>1. CASE Enqueue(x)
      BY <1>0, <1>2, <2>0, <3>1 DEF Enqueue, Settled, Waiting
    <3>2. CASE DeleteExpiredOutbox(x)
      BY <1>0, <1>2, <2>0, <3>2 DEF DeleteExpiredOutbox, Settled, Waiting
    <3>3. QED  BY <2>2, <3>1, <3>2
  <2>3. ASSUME NEW r \in Replicas, NEW d \in Deliveries, ClaimBatch(r, d)
        PROVE  /\ ~Settled(f)'
               /\ outbox'[f].status = "batched" =>
                    /\ outbox'[e].status = "batched"
                    /\ outbox'[e].batch = outbox'[f].batch
    <3>1. \A x \in Events : outbox'[x] = IF x \in flush[r].sel
                                         THEN [status |-> "batched", batch |-> d]
                                         ELSE outbox[x]
      BY <2>3 DEF ClaimBatch
    <3>2. \A x \in flush[r].sel : outbox[x].status = "pending"
      BY <2>3 DEF ClaimBatch, StillPending
    <3>3. f \in flush[r].sel => e \in flush[r].sel
      BY <1>2, <2>0 DEF OrderInv, SelectionInOrder
    <3>4. QED  BY <1>2, <2>0, <3>1, <3>2, <3>3 DEF Settled, Waiting
  <2>4. ASSUME NEW r \in Replicas, NEW d \in Deliveries, FileTooLarge(r, d)
        PROVE  /\ outbox'[f] = outbox[f]
               /\ outbox[e].status = "batched" => outbox'[e] = outbox[e]
    <3>1. \A x \in Events : outbox'[x] = IF x \in flush[r].sel /\ outbox[x].status = "pending"
                                         THEN [status |-> "failed", batch |-> d]
                                         ELSE outbox[x]
      BY <2>4 DEF FileTooLarge
    <3>2. f \notin flush[r].sel
      <4>1. flush[r].sel \in Oversize
        BY <2>4 DEF FileTooLarge
      <4>2. QED  BY <1>0, <1>2, <2>0, <4>1 DEF OrderInv, SelectionInOrder
    <3>3. QED  BY <3>1, <3>2
  <2>5. ASSUME NEW d \in Deliveries, NEW s \in {"delivered", "failed", "cancelled"},
               SetMembers(d, s)
        PROVE  /\ ~Settled(f)'
               /\ outbox'[f].status = "batched" =>
                    /\ outbox'[e].status = "batched"
                    /\ outbox'[e].batch = outbox'[f].batch
    <3>1. \A x \in Events : /\ outbox'[x].batch = outbox[x].batch
                            /\ outbox'[x].status = IF outbox[x].batch = d THEN s
                                                   ELSE outbox[x].status
      BY <1>0, <2>5 DEF SetMembers, Members
    <3>2. outbox[f].status \in {"none", "pending"} => outbox[f].batch # d
      BY <1>0 DEF OrderInv, QueuedUnlinked
    <3>3. outbox[e].batch # d
      BY <1>0, <3>1 DEF Waiting
    <3>4. QED  BY <1>2, <2>0, <3>1, <3>2, <3>3 DEF Settled, Waiting
  <2>6. CASE BCancelPending \/ BDeleteSubscription
    <3>1. outbox'[e].status \notin {"none", "pending", "batched"}
      BY <1>0, <1>2, <2>6 DEF BCancelPending, BDeleteSubscription, Waiting
    <3>2. QED  BY <3>1 DEF Waiting
  <2>7. ASSUME NEW d \in Deliveries, BDeleteExpired(d)
        PROVE  /\ outbox'[f].status = outbox[f].status /\ outbox'[e].status = outbox[e].status
               /\ outbox[f].status = "batched" => outbox'[f].batch = outbox[f].batch
               /\ outbox[e].status = "batched" => outbox'[e].batch = outbox[e].batch
    BY <1>0, <2>7 DEF BDeleteExpired, DeleteExpired, Unlink, OrderInv, BInv, BatchedIsPending
  <2>8. QED
    BY <1>2, <2>0, <2>1, <2>2, <2>3, <2>4, <2>5, <2>6, <2>7, OutboxWrites
       DEF OrderInv, Settled, Waiting
<1>3. QED  BY <1>1, <1>2

\* On every schedule of overlapping flushes, conflicts, crashes, retries and
\* cancellations, and in whatever order the indexer dispatches, no event is
\* batched or delivered ahead of an older one of its contract that waits, unless
\* a flush had taken it up before the older one was enqueued.
THEOREM OrderHolds == BSpec => []OrderedOnceQueued
<1>1. BInit => OrderInv
  <2> SUFFICES ASSUME BInit PROVE OrderInv
    OBVIOUS
  <2>1. \A r \in Replicas : flush[r].queue = {} /\ flush[r].sel = {}
    BY DEF BInit, Idle
  <2>2. \A e \in Events : outbox[e].status = "none" /\ outbox[e].batch = None
    BY DEF BInit
  <2>3. QED
    BY <2>1, <2>2, BInitInv DEF OrderInv, QueuedUnlinked, QueueInOrder,
       SelectionInOrder, SettledInOrder, Settled, Waiting
<1>2. OrderInv /\ [BNext]_batchVars => OrderInv'
  BY BStep, UnlinkedStep, QueueStep, SelectionStep, SettledStep DEF OrderInv
<1>3. OrderInv => OrderedOnceQueued
  BY DEF OrderInv, SettledInOrder, OrderedOnceQueued, InTurn, Settled, Waiting
<1>4. QED  BY <1>1, <1>2, <1>3, PTL DEF BSpec
=============================================================================
