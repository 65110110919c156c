----------------------- MODULE WebhookDelivery_proofs -----------------------
(***************************************************************************)
(* Proofs about WebhookDelivery for every number of replicas and rows.      *)
(***************************************************************************)
EXTENDS WebhookDelivery, TLAPS

TypeInv == TypeOK /\ PendingNumbered

\* The shape of the rows a handler writes.
LEMMA RowFacts ==
    /\ Absent \in Rows /\ Leased \in Rows
    /\ Leased.attempt = 1
    /\ [Absent EXCEPT !.status = "gone"] \in Rows
    /\ [Leased EXCEPT !.status = "failed", !.proc = "done", !.lease = "null"] \in Rows
    /\ [Leased EXCEPT !.proc = "idle", !.lease = "null"] \in Rows
    /\ [Leased EXCEPT !.status = "failed", !.proc = "done", !.lease = "null"].attempt = 1
    /\ [Leased EXCEPT !.proc = "idle", !.lease = "null"].attempt = 1
<1>1. Absent \in Rows /\ Leased \in Rows /\ Leased.attempt = 1
  BY AttemptsAssumption DEF Absent, Leased, Rows, Statuses
<1>2. ASSUME NEW x \in Rows
      PROVE  /\ [x EXCEPT !.status = "gone"] \in Rows
             /\ [x EXCEPT !.proc = "idle", !.lease = "null"] \in Rows
             /\ [x EXCEPT !.status = "failed", !.proc = "done", !.lease = "null"] \in Rows
             /\ [x EXCEPT !.proc = "idle", !.lease = "null"].attempt = x.attempt
             /\ [x EXCEPT !.status = "failed", !.proc = "done",
                          !.lease = "null"].attempt = x.attempt
  BY DEF Rows, Statuses
<1>3. QED  BY <1>1, <1>2

\* The steps of one execution keep the types.
LEMMA JobStepTypes ==
    ASSUME TypeInv, NEW j \in jobs, JobStep(j)
    PROVE  TypeInv'
<1> USE AttemptsAssumption, FaultsAssumption DEF sub
<1>0. /\ j \in Jobs /\ j.del \in Deliveries
      /\ row[j.del] \in Rows
      /\ j.attempt \in 1 .. MAX_ATTEMPTS + 1
  BY DEF TypeInv, TypeOK, Jobs
<1>a. ASSUME NEW s \in Stages, Advance(j, s)
      PROVE  jobs' \subseteq Jobs
  <2>1. [j EXCEPT !.stage = s] \in Jobs
    BY <1>0 DEF Jobs
  <2>2. QED  BY <1>a, <2>1 DEF TypeInv, TypeOK, Advance
<1>b. ASSUME NEW x \in Rows, Write(j, x), x.status = "pending" => x.attempt > 0
      PROVE  TypeInv'
  BY <1>0, <1>b DEF TypeInv, TypeOK, PendingNumbered, Write, Done
<1>c. ASSUME MarkFailed(j)
      PROVE  TypeInv'
  <2>1. [row[j.del] EXCEPT !.status = "failed", !.proc = "done",
                           !.lease = "null", !.next = "null"] \in Rows
    BY <1>0 DEF Rows, Statuses
  <2>2. QED  BY <1>b, <1>c, <2>1, <1>0 DEF MarkFailed, Rows
<1>1. CASE CreateDelivery(j)
  <2>1. jobs' \subseteq Jobs
    BY <1>1, <1>a DEF CreateDelivery, Advance, Stages
  <2>2. QED
    BY <1>0, <1>1, <2>1, RowFacts DEF CreateDelivery, TypeInv, TypeOK, PendingNumbered
<1>2. CASE PayloadMissing(j) \/ RowDeleted(j)
  BY <1>2 DEF PayloadMissing, RowDeleted, Done, TypeInv, TypeOK, PendingNumbered
<1>3. CASE StartAttempt(j)
  <2>1. CASE row[j.del].status = "pending"
    <3>1. jobs' \subseteq Jobs
      BY <1>3, <2>1, <1>a DEF StartAttempt, Stages
    <3>2. row' \in [Deliveries -> Rows]
      BY <1>0, <1>3, <2>1 DEF StartAttempt, TypeInv, TypeOK, Rows
    <3>3. PendingNumbered'
      BY <1>0, <1>3, <2>1 DEF StartAttempt, TypeInv, TypeOK, PendingNumbered, Rows
    <3>4. QED  BY <1>3, <3>1, <3>2, <3>3 DEF StartAttempt, TypeInv, TypeOK
  <2>2. CASE row[j.del].status # "pending"
    BY <1>3, <2>2 DEF StartAttempt, Done, TypeInv, TypeOK, PendingNumbered
  <2>3. QED  BY <2>1, <2>2
<1>4. ASSUME NEW outcome \in Outcomes, PostOutcome(j, outcome)
      PROVE  TypeInv'
  <2>1. jobs' \subseteq Jobs
    BY <1>4, <1>a DEF PostOutcome, Outcomes, Stages
  <2>2. acked' \subseteq Deliveries
    BY <1>0, <1>4 DEF PostOutcome, TypeInv, TypeOK
  <2>3. QED  BY <1>4, <2>1, <2>2 DEF PostOutcome, TypeInv, TypeOK, PendingNumbered
<1>5. CASE RecordSuccess(j)
  <2>1. [row[j.del] EXCEPT !.status = "success", !.proc = "done",
                           !.lease = "null"] \in Rows
    BY <1>0 DEF Rows, Statuses
  <2>2. QED  BY <1>b, <1>5, <2>1, <1>0 DEF RecordSuccess, Rows
<1>6. CASE RecordBlocked(j)
  BY <1>6, <1>c DEF RecordBlocked
<1>7. CASE ScheduleRetryOrFail(j)
  <2>1. CASE Kind[j.del] = "ping" \/ Exhausted(j)
    BY <1>7, <2>1, <1>c DEF ScheduleRetryOrFail
  <2>2. CASE ~(Kind[j.del] = "ping" \/ Exhausted(j))
    <3> DEFINE x == [status |-> "pending", proc |-> "idle", lease |-> "null",
                     next |-> "later", attempt |-> NextAttempt(j.attempt)]
    <3>1. NextAttempt(j.attempt) \in 1 .. MAX_ATTEMPTS + 1
      BY <1>0 DEF NextAttempt
    <3>2. x \in Rows /\ x.attempt > 0
      BY <3>1 DEF Rows, Statuses
    <3>3. Write(j, x)
      BY <1>7, <2>2 DEF ScheduleRetryOrFail
    <3>4. QED  BY <1>b, <3>2, <3>3
  <2>3. QED  BY <2>1, <2>2
<1>8. CASE RecordCancelled(j)
  <2>1. [row[j.del] EXCEPT !.status = "cancelled", !.proc = "done",
                           !.lease = "null"] \in Rows
    BY <1>0 DEF Rows, Statuses
  <2>2. QED  BY <1>b, <1>8, <2>1, <1>0 DEF RecordCancelled, Rows
<1>9. QED
  BY <1>1, <1>2, <1>3, <1>4, <1>5, <1>6, <1>7, <1>8 DEF JobStep

\* A success that could not be written turns its execution into a failed one.
LEMMA NackedJob ==
    ASSUME TypeInv, NEW j \in jobs, SuccessWriteFails(j)
    PROVE  /\ UNCHANGED <<row, active, cancelling, patch, rolledBack, acked, overlaps>>
           /\ faults' \in 0 .. MaxFaults
           /\ \E k \in Jobs : /\ jobs' = (jobs \ {j}) \cup {k}
                             /\ k.del = j.del /\ k.attempt = j.attempt
                             /\ k.stage = "nack"
<1> DEFINE k == [j EXCEPT !.stage = "nack"]
<1>1. k \in Jobs /\ k.del = j.del /\ k.attempt = j.attempt /\ k.stage = "nack"
  BY DEF TypeInv, TypeOK, Jobs, Stages
<1>2. jobs' = (jobs \ {j}) \cup {k} /\ UNCHANGED <<row, active, cancelling, patch, rolledBack, acked, overlaps>>
  BY DEF SuccessWriteFails, Advance, sub
<1>3. faults' \in 0 .. MaxFaults
  BY FaultsAssumption DEF SuccessWriteFails, TypeInv, TypeOK
<1>4. QED  BY <1>1, <1>2, <1>3

\* What the second write of a PATCH and the deletion of a subscription do.
LEMMA CancelFacts ==
    ASSUME CancelPending
    PROVE  /\ cancelling > 0 /\ cancelling' = cancelling - 1 /\ patch' = "none"
           /\ UNCHANGED <<jobs, active, rolledBack, acked, faults, overlaps>>
           /\ row' = [d \in Deliveries |->
                        IF row[d].status = "pending"
                        THEN [row[d] EXCEPT !.status = "cancelled", !.proc = "done",
                                            !.lease = "null", !.next = "null"]
                        ELSE row[d]]
BY DEF CancelPending

LEMMA CancelledRows ==
    ASSUME row \in [Deliveries -> Rows], CancelPending
    PROVE  /\ row' \in [Deliveries -> Rows]
           /\ \A d \in Deliveries : IF row[d].status = "pending"
                                    THEN row'[d].status = "cancelled"
                                    ELSE row'[d] = row[d]
<1>1. \A d \in Deliveries : row'[d] = IF row[d].status = "pending"
                        THEN [row[d] EXCEPT !.status = "cancelled", !.proc = "done",
                                            !.lease = "null", !.next = "null"]
                        ELSE row[d]
  BY CancelFacts
<1>2. \A d \in Deliveries : /\ row'[d] \in Rows
                            /\ IF row[d].status = "pending"
                               THEN row'[d].status = "cancelled"
                               ELSE row'[d] = row[d]
  BY <1>1 DEF Rows, Statuses
<1>3. row' = [d \in Deliveries |-> row'[d]]
  <2>1. \E f : row' = [d \in Deliveries |-> f[d]]
    <3> DEFINE f == [d \in Deliveries |->
                        IF row[d].status = "pending"
                        THEN [row[d] EXCEPT !.status = "cancelled", !.proc = "done",
                                            !.lease = "null", !.next = "null"]
                        ELSE row[d]]
    <3>1. row' = f /\ f = [d \in Deliveries |-> f[d]]
      BY CancelFacts
    <3> HIDE DEF f
    <3>2. QED  BY <3>1
  <2>2. QED  BY <2>1
<1>4. QED  BY <1>2, <1>3

LEMMA DeleteFacts ==
    ASSUME DeleteSubscription
    PROVE  /\ patch' = "deleted" /\ active' = FALSE /\ cancelling' = 0
           /\ UNCHANGED <<jobs, rolledBack, acked, faults, overlaps>>
           /\ row' = [d \in Deliveries |-> IF row[d].status = "none" THEN row[d]
                                           ELSE [Absent EXCEPT !.status = "gone"]]
BY DEF DeleteSubscription

\* Rows and executions keep their shape, and a pending row its attempt number,
\* over every step of every replica.
LEMMA TypeStep ==
    ASSUME TypeInv, [Next]_vars
    PROVE  TypeInv'
<1> USE AttemptsAssumption, FaultsAssumption, KindAssumption, OverlapsAssumption,
        PatchesAssumption
<1> USE DEF TypeInv, TypeOK, PendingNumbered, sub
<1>a. ASSUME NEW r \in Replicas, NEW d \in Deliveries,
             NEW o \in {"fanout", "flush", "retry", "ping"},
             NEW a \in 1 .. MAX_ATTEMPTS + 1, NEW s \in Stages
      PROVE  Job(r, d, o, a, s) \in Jobs
  BY DEF Job, Jobs
<1>1. ASSUME NEW r \in Replicas, NEW d \in Deliveries, DispatchImmediate(r, d)
      PROVE  TypeInv'
  <2>1. Job(r, d, "fanout", 1, "create") \in Jobs
    BY <1>a DEF Stages
  <2>2. QED  BY <1>1, <2>1 DEF DispatchImmediate
<1>2. ASSUME NEW r \in Replicas, NEW d \in Deliveries, FlushClaim(r, d)
      PROVE  TypeInv'
  <2>1. Job(r, d, "flush", 1, "queued") \in Jobs
    BY <1>a DEF Stages
  <2>2. QED  BY <1>2, <2>1, RowFacts DEF FlushClaim
<1>3. ASSUME NEW r \in Replicas, NEW d \in Deliveries, SendTestDelivery(r, d)
      PROVE  TypeInv'
  <2>1. Job(r, d, "ping", 1, "posting") \in Jobs
    BY <1>a DEF Stages
  <2>2. QED  BY <1>3, <2>1, RowFacts DEF SendTestDelivery
<1>4. ASSUME NEW d \in Deliveries, FlushTooLarge(d)
      PROVE  TypeInv'
  BY <1>4, RowFacts DEF FlushTooLarge, Leased
<1>5. ASSUME NEW d \in Deliveries, EnqueueGasFeeAlert(d)
      PROVE  TypeInv'
  BY <1>5, RowFacts DEF EnqueueGasFeeAlert, Leased
<1>6. ASSUME NEW d \in Deliveries, DeleteExpired(d)
      PROVE  TypeInv'
  BY <1>6 DEF DeleteExpired, Absent, Rows, Statuses
<1>7. ASSUME NEW d \in Deliveries, LeaseExpires(d)
      PROVE  TypeInv'
  BY <1>7 DEF LeaseExpires, Overlap, Rows
<1>8. ASSUME NEW d \in Deliveries, RetryFallsDue(d)
      PROVE  TypeInv'
  BY <1>8 DEF RetryFallsDue, Rows
<1>9. ASSUME NEW R \in SUBSET Replicas, RetryPendingDeliveries(R)
      PROVE  TypeInv'
  <2>1. row' \in [Deliveries -> Rows]
    BY <1>9 DEF RetryPendingDeliveries, Rows
  <2>2. \A d \in Deliveries : row'[d].status = row[d].status
                               /\ row'[d].attempt = row[d].attempt
    BY <1>9 DEF RetryPendingDeliveries, Rows
  <2>3. ASSUME NEW r \in R, NEW d \in DueRows
        PROVE  Job(r, d, "retry", row[d].attempt, ClaimStage) \in Jobs
    <3>1. row[d].attempt \in 1 .. MAX_ATTEMPTS + 1
      BY DEF DueRows, Due, Rows
    <3>2. QED  BY <3>1, <1>a DEF DueRows, ClaimStage, Stages
  <2>4. Claims(R) \subseteq Jobs
    BY <2>3 DEF Claims
  <2>5. jobs' \subseteq Jobs
    BY <1>9, <2>4 DEF RetryPendingDeliveries
  <2>6. overlaps' \in [Deliveries -> 0 .. MaxOverlaps]
    <3>1. overlaps' = overlaps \/ Overlap(DueRows)
      BY <1>9, Zenon DEF RetryPendingDeliveries
    <3>2. QED  BY <3>1 DEF Overlap
  <2>7. QED  BY <1>9, <2>1, <2>2, <2>5, <2>6 DEF RetryPendingDeliveries
<1>10. ASSUME NEW j \in jobs, JobStep(j)
       PROVE  TypeInv'
  BY <1>10, JobStepTypes
<1>11. ASSUME NEW j \in jobs, JobFails(j) \/ SuccessWriteFails(j)
       PROVE  TypeInv'
  <2>1. CASE JobFails(j)
    BY <2>1 DEF JobFails, Done
  <2>2. CASE SuccessWriteFails(j)
    BY <2>2, NackedJob
  <2>3. QED  BY <1>11, <2>1, <2>2
<1>12. ASSUME NEW r \in Replicas, Crash(r)
       PROVE  TypeInv'
  BY <1>12 DEF Crash
<1>13. CASE Deactivate
  <2>1. cancelling' \in 0 .. MaxPatches
    BY <1>13 DEF Deactivate
  <2>2. QED  BY <1>13, <2>1 DEF Deactivate, Patches
<1>14. CASE CancelPending
  <2>1. cancelling' \in 0 .. MaxPatches
    <3>1. cancelling > 0 /\ cancelling' = cancelling - 1
      BY <1>14, CancelFacts, Zenon
    <3>2. QED  BY <3>1
  <2>2. row' \in [Deliveries -> Rows] /\ PendingNumbered'
    BY <1>14, CancelledRows
  <2>3. /\ patch' = "none"
        /\ UNCHANGED <<jobs, active, rolledBack, acked, faults, overlaps>>
    BY <1>14, CancelFacts
  <2>4. QED  BY <2>1, <2>2, <2>3 DEF Patches
<1>15. CASE Reactivate
  BY <1>15 DEF Reactivate, Patches
<1>16. CASE PatchDies
  <2>1. cancelling' \in 0 .. MaxPatches
    BY <1>16 DEF PatchDies
  <2>2. QED  BY <1>16, <2>1 DEF PatchDies, Patches
<1>17. CASE DeleteSubscription
  <2>1. \A d \in Deliveries : \/ row'[d] \in Rows /\ row'[d].status # "pending"
                              \/ row'[d] = row[d]
    BY <1>17, DeleteFacts, RowFacts DEF Absent
  <2>2. row' \in [Deliveries -> Rows] /\ PendingNumbered'
    BY <1>17, <2>1, DeleteFacts
  <2>3. QED  BY <1>17, <2>2, DeleteFacts DEF Patches
<1>18. CASE UNCHANGED vars
  BY <1>18 DEF vars
<1>19. ASSUME NEW d \in Deliveries, RollbackEvent(d) \/ ReindexEvent(d)
       PROVE  TypeInv'
  BY <1>19 DEF RollbackEvent, ReindexEvent
<1>20. QED
  BY <1>1, <1>2, <1>3, <1>4, <1>5, <1>6, <1>7, <1>8, <1>9, <1>10, <1>11,
     <1>12, <1>13, <1>14, <1>15, <1>16, <1>17, <1>18, <1>19 DEF Next

LEMMA TypeInit == Init => TypeInv
BY RowFacts, FaultsAssumption, OverlapsAssumption, PatchesAssumption
   DEF Init, TypeInv, TypeOK, PendingNumbered, Patches, Absent

\* Type correctness: whatever replicas, users and failures do, every column of
\* a delivery row and every field of an execution stays in its range.
THEOREM TypeCorrect == Spec => []TypeOK
<1>1. TypeInv => TypeOK  BY DEF TypeInv
<1>2. QED  BY TypeInit, TypeStep, <1>1, PTL DEF Spec

\* The same, with the numbering of pending rows, for the proofs below.
LEMMA TypeInvariant == Spec => []TypeInv
BY TypeInit, TypeStep, PTL DEF Spec

-----------------------------------------------------------------------------
(* What is true of every schedule, stale executions included.               *)

\* A success is written by an execution that has its 2xx; the receiver's
\* answer is never forgotten.
LEMMA SuccessStep ==
    ASSUME TypeInv, NoFalseSuccess, AckedJobs, [Next]_vars
    PROVE  NoFalseSuccess' /\ AckedJobs'
<1> USE DEF TypeInv, TypeOK, NoFalseSuccess, AckedJobs
<1>1. ASSUME NEW r \in Replicas, NEW d \in Deliveries,
             DispatchImmediate(r, d) \/ FlushClaim(r, d) \/ SendTestDelivery(r, d)
      PROVE  NoFalseSuccess' /\ AckedJobs'
  BY <1>1 DEF DispatchImmediate, FlushClaim, SendTestDelivery, Job, Leased
<1>2. ASSUME NEW d \in Deliveries, FlushTooLarge(d) \/ EnqueueGasFeeAlert(d)
      PROVE  NoFalseSuccess' /\ AckedJobs'
  BY <1>2 DEF FlushTooLarge, EnqueueGasFeeAlert, Leased
<1>3. ASSUME NEW d \in Deliveries,
             \/ DeleteExpired(d) \/ LeaseExpires(d) \/ RetryFallsDue(d)
             \/ RollbackEvent(d) \/ ReindexEvent(d)
      PROVE  NoFalseSuccess' /\ AckedJobs'
  BY <1>3 DEF DeleteExpired, LeaseExpires, RetryFallsDue, RollbackEvent,
              ReindexEvent, Absent, Rows
<1>4. ASSUME NEW R \in SUBSET Replicas, RetryPendingDeliveries(R)
      PROVE  NoFalseSuccess' /\ AckedJobs'
  <2>1. \A j \in Claims(R) : j.stage # "ack"
    BY DEF Claims, Job, ClaimStage
  <2>2. AckedJobs'
    BY <1>4, <2>1 DEF RetryPendingDeliveries
  <2>3. NoFalseSuccess'
    BY <1>4 DEF RetryPendingDeliveries, Rows
  <2>4. QED  BY <2>2, <2>3
<1>5. ASSUME NEW j \in jobs, JobStep(j)
      PROVE  NoFalseSuccess' /\ AckedJobs'
  <2>0. j \in Jobs /\ j.del \in Deliveries /\ row[j.del] \in Rows
    BY DEF Jobs
  <2>1. CASE CreateDelivery(j) \/ PayloadMissing(j) \/ RowDeleted(j)
    BY <2>0, <2>1 DEF CreateDelivery, PayloadMissing, RowDeleted, Done, Leased, Jobs
  <2>2. CASE StartAttempt(j)
    BY <2>0, <2>2 DEF StartAttempt, Done, Advance, Jobs, Rows
  <2>3. ASSUME NEW outcome \in Outcomes, PostOutcome(j, outcome)
        PROVE  NoFalseSuccess' /\ AckedJobs'
    BY <2>0, <2>3 DEF PostOutcome, Advance, Jobs
  <2>4. CASE RecordSuccess(j)
    BY <2>0, <2>4 DEF RecordSuccess, Write, Done, Rows
  <2>5. CASE RecordBlocked(j)
    BY <2>0, <2>5 DEF RecordBlocked, MarkFailed, Write, Done, Rows
  <2>6. CASE ScheduleRetryOrFail(j)
    <3>1. CASE MarkFailed(j)
      BY <2>0, <3>1 DEF MarkFailed, Write, Done, Rows
    <3>2. CASE ~MarkFailed(j)
      BY <2>0, <2>6, <3>2 DEF ScheduleRetryOrFail, Write, Done
    <3>3. QED  BY <3>1, <3>2
  <2>7. CASE RecordCancelled(j)
    BY <2>0, <2>7 DEF RecordCancelled, Write, Done, Rows
  <2>8. QED
    BY <1>5, <2>1, <2>2, <2>3, <2>4, <2>5, <2>6, <2>7 DEF JobStep
<1>6. ASSUME NEW j \in jobs, JobFails(j) \/ SuccessWriteFails(j)
      PROVE  NoFalseSuccess' /\ AckedJobs'
  <2>1. CASE JobFails(j)
    BY <2>1 DEF JobFails, Done
  <2>2. CASE SuccessWriteFails(j)
    BY <2>2, NackedJob
  <2>3. QED  BY <1>6, <2>1, <2>2
<1>7. ASSUME NEW r \in Replicas, Crash(r)
      PROVE  NoFalseSuccess' /\ AckedJobs'
  BY <1>7 DEF Crash
<1>8. CASE Deactivate \/ Reactivate \/ PatchDies \/ UNCHANGED vars
  BY <1>8 DEF Deactivate, Reactivate, PatchDies, vars
<1>9. CASE CancelPending
  BY <1>9 DEF CancelPending, Rows
<1>10. CASE DeleteSubscription
  BY <1>10 DEF DeleteSubscription, Absent
<1>11. QED
  BY <1>1, <1>2, <1>3, <1>4, <1>5, <1>6, <1>7, <1>8, <1>9, <1>10 DEF Next

\* No false success: a row of the delivery history reads 'success' only if the
\* receiver has answered one of its attempts with a 2xx.
THEOREM SuccessIsReal == Spec => []NoFalseSuccess
<1>1. Init => NoFalseSuccess /\ AckedJobs
  BY DEF Init, Absent, NoFalseSuccess, AckedJobs
<1>2. QED  BY <1>1, TypeInvariant, SuccessStep, PTL DEF Spec

\* An attempt number is copied or increased below MAX_ATTEMPTS only.
LEMMA AttemptsStep ==
    ASSUME TypeInv, AttemptsBounded, [Next]_vars
    PROVE  AttemptsBounded'
<1> USE AttemptsAssumption, KindAssumption DEF TypeInv, TypeOK, AttemptsBounded
<1>1. ASSUME NEW r \in Replicas, NEW d \in Deliveries,
             DispatchImmediate(r, d) \/ FlushClaim(r, d) \/ SendTestDelivery(r, d)
      PROVE  AttemptsBounded'
  BY <1>1 DEF DispatchImmediate, FlushClaim, SendTestDelivery, Job, Leased
<1>2. ASSUME NEW d \in Deliveries, FlushTooLarge(d) \/ EnqueueGasFeeAlert(d)
      PROVE  AttemptsBounded'
  <2>1. PICK x : x.attempt = 1 /\ row' = [row EXCEPT ![d] = x]
    BY <1>2, RowFacts, Zenon DEF FlushTooLarge, EnqueueGasFeeAlert
  <2>2. UNCHANGED jobs
    BY <1>2 DEF FlushTooLarge, EnqueueGasFeeAlert
  <2>3. QED  BY <2>1, <2>2
<1>3. ASSUME NEW d \in Deliveries,
             \/ DeleteExpired(d) \/ LeaseExpires(d) \/ RetryFallsDue(d)
             \/ RollbackEvent(d) \/ ReindexEvent(d)
      PROVE  AttemptsBounded'
  BY <1>3 DEF DeleteExpired, LeaseExpires, RetryFallsDue, RollbackEvent,
              ReindexEvent, Absent, Rows
<1>4. ASSUME NEW R \in SUBSET Replicas, RetryPendingDeliveries(R)
      PROVE  AttemptsBounded'
  <2>1. \A j \in Claims(R) : Kind[j.del] # "batch" => j.attempt <= MAX_ATTEMPTS
    BY DEF Claims, Job, DueRows
  <2>2. \A d \in Deliveries : row'[d].attempt = row[d].attempt
    BY <1>4 DEF RetryPendingDeliveries, Rows
  <2>3. QED  BY <1>4, <2>1, <2>2 DEF RetryPendingDeliveries
<1>5. ASSUME NEW j \in jobs, JobStep(j)
      PROVE  AttemptsBounded'
  <2>0. /\ j \in Jobs /\ j.del \in Deliveries /\ row[j.del] \in Rows
        /\ j.attempt \in Nat
    BY DEF Jobs
  <2>1. CASE CreateDelivery(j) \/ PayloadMissing(j) \/ RowDeleted(j)
    BY <2>0, <2>1 DEF CreateDelivery, PayloadMissing, RowDeleted, Done, Leased, Jobs
  <2>2. CASE StartAttempt(j)
    BY <2>0, <2>2 DEF StartAttempt, Done, Advance, Jobs, Rows
  <2>3. ASSUME NEW outcome \in Outcomes, PostOutcome(j, outcome)
        PROVE  AttemptsBounded'
    BY <2>0, <2>3 DEF PostOutcome, Advance, Jobs
  <2>4. CASE RecordSuccess(j)
    BY <2>0, <2>4 DEF RecordSuccess, Write, Done, Rows
  <2>5. CASE RecordBlocked(j)
    BY <2>0, <2>5 DEF RecordBlocked, MarkFailed, Write, Done, Rows
  <2>6. CASE ScheduleRetryOrFail(j)
    <3>1. CASE MarkFailed(j)
      BY <2>0, <3>1 DEF MarkFailed, Write, Done, Rows
    <3>2. CASE ~MarkFailed(j)
      <4>1. ~Exhausted(j)
        BY <2>6, <3>2 DEF ScheduleRetryOrFail
      <4>2. Kind[j.del] # "batch" => NextAttempt(j.attempt) <= MAX_ATTEMPTS
        BY <2>0, <4>1 DEF Exhausted, NextAttempt
      <4>3. QED
        BY <2>0, <2>6, <3>2, <4>2 DEF ScheduleRetryOrFail, Write, Done
    <3>3. QED  BY <3>1, <3>2
  <2>7. CASE RecordCancelled(j)
    BY <2>0, <2>7 DEF RecordCancelled, Write, Done, Rows
  <2>8. QED
    BY <1>5, <2>1, <2>2, <2>3, <2>4, <2>5, <2>6, <2>7 DEF JobStep
<1>6. ASSUME NEW j \in jobs, JobFails(j) \/ SuccessWriteFails(j)
      PROVE  AttemptsBounded'
  <2>1. CASE JobFails(j)
    BY <2>1 DEF JobFails, Done
  <2>2. CASE SuccessWriteFails(j)
    BY <2>2, NackedJob
  <2>3. QED  BY <1>6, <2>1, <2>2
<1>7. ASSUME NEW r \in Replicas, Crash(r)
      PROVE  AttemptsBounded'
  BY <1>7 DEF Crash
<1>8. CASE Deactivate \/ Reactivate \/ PatchDies \/ UNCHANGED vars
  BY <1>8 DEF Deactivate, Reactivate, PatchDies, vars
<1>9. CASE CancelPending
  BY <1>9 DEF CancelPending, Rows
<1>10. CASE DeleteSubscription
  BY <1>10 DEF DeleteSubscription, Absent
<1>11. QED
  BY <1>1, <1>2, <1>3, <1>4, <1>5, <1>6, <1>7, <1>8, <1>9, <1>10 DEF Next

\* Retries are bounded: outside batches no attempt is numbered beyond
\* MAX_ATTEMPTS, however executions overlap.
THEOREM RetriesBounded == Spec => []AttemptsBounded
<1>1. Init => AttemptsBounded
  BY AttemptsAssumption DEF Init, Absent, AttemptsBounded
<1>2. QED  BY <1>1, TypeInvariant, AttemptsStep, PTL DEF Spec

-----------------------------------------------------------------------------
(* What the lease gives a row that time has not opened to two executions.   *)

LeaseInv == ExclusiveDelivery /\ JobHoldsRow /\ Recoverable

\* An execution neither changes the subscription nor moves time.
LEMMA JobStepKeeps ==
    ASSUME NEW j, JobStep(j)
    PROVE  UNCHANGED <<active, cancelling, patch, rolledBack, faults, overlaps>>
BY DEF JobStep, CreateDelivery, PayloadMissing, RowDeleted, StartAttempt,
       PostOutcome, RecordSuccess, RecordBlocked, MarkFailed,
       ScheduleRetryOrFail, RecordCancelled, Write, sub

\* One step of an execution: it leaves its row recoverable, and the rows of
\* other executions alone because they are other rows.
LEMMA LeaseJobStep ==
    ASSUME TypeInv, LeaseInv, NEW j \in jobs, JobStep(j)
    PROVE  LeaseInv'
<1> USE DEF TypeInv, TypeOK, LeaseInv, ExclusiveDelivery, JobHoldsRow, Recoverable
<1>0. /\ j \in Jobs /\ j.del \in Deliveries /\ row[j.del] \in Rows
      /\ overlaps' = overlaps
  BY JobStepKeeps DEF Jobs
<1>a. ASSUME NEW x \in Rows, Write(j, x),
             x.status = "pending" => x.proc = "idle" /\ x.next # "null"
      PROVE  LeaseInv'
  BY <1>0, <1>a DEF Write, Done, Jobs
<1>b. ASSUME MarkFailed(j)
      PROVE  LeaseInv'
  <2> DEFINE x == [row[j.del] EXCEPT !.status = "failed", !.proc = "done",
                                     !.lease = "null", !.next = "null"]
  <2>1. x \in Rows /\ x.status = "failed"
    BY <1>0 DEF Rows, Statuses
  <2>2. QED  BY <1>a, <1>b, <2>1 DEF MarkFailed
<1>c. ASSUME NEW s, s # "create", j.stage # "create", Advance(j, s),
             \/ row' = row
             \/ row' = [row EXCEPT ![j.del].attempt = j.attempt, ![j.del].next = "null"]
                  /\ row[j.del].status = "pending"
      PROVE  LeaseInv'
  <2>1. PICK k : /\ k.del = j.del /\ k.stage = s
                 /\ jobs' = (jobs \ {j}) \cup {k}
    <3>1. /\ [j EXCEPT !.stage = s].del = j.del
          /\ [j EXCEPT !.stage = s].stage = s
      BY <1>0 DEF Jobs
    <3>2. QED  BY <1>c, <3>1, Zenon DEF Advance
  <2>2. ExclusiveDelivery'
    BY <1>0, <2>1
  <2>3. /\ \A d \in Deliveries : d # j.del => row'[d] = row[d]
        /\ \A d \in Deliveries : /\ row'[d].status = row[d].status
                                  /\ row'[d].proc = row[d].proc
                                  /\ row'[d].lease = row[d].lease
    BY <1>0, <1>c DEF Rows
  <2>4. JobHoldsRow'
    BY <1>0, <1>c, <2>1, <2>3 DEF Jobs
  <2>5. Recoverable'
    BY <1>0, <1>c, <2>3
  <2>6. QED  BY <2>2, <2>4, <2>5
<1>1. CASE CreateDelivery(j)
  <2>1. [j EXCEPT !.stage = "posting"].del = j.del
        /\ [j EXCEPT !.stage = "posting"].stage = "posting"
    BY <1>0 DEF Jobs
  <2>2. QED  BY <1>0, <1>1, <2>1 DEF CreateDelivery, Leased, Jobs
<1>2. CASE PayloadMissing(j) \/ RowDeleted(j)
  BY <1>2 DEF PayloadMissing, RowDeleted, Done
<1>3. CASE StartAttempt(j)
  <2>1. CASE row[j.del].status = "pending"
    BY <1>3, <2>1, <1>c DEF StartAttempt
  <2>2. CASE row[j.del].status # "pending"
    BY <1>3, <2>2 DEF StartAttempt, Done
  <2>3. QED  BY <2>1, <2>2
<1>4. ASSUME NEW outcome \in Outcomes, PostOutcome(j, outcome)
      PROVE  LeaseInv'
  BY <1>4, <1>c DEF PostOutcome, Outcomes
<1>5. CASE RecordSuccess(j)
  <2> DEFINE x == [row[j.del] EXCEPT !.status = "success", !.proc = "done",
                                     !.lease = "null"]
  <2>1. x \in Rows /\ x.status = "success"
    BY <1>0 DEF Rows, Statuses
  <2>2. QED  BY <1>a, <1>5, <2>1 DEF RecordSuccess
<1>6. CASE RecordBlocked(j)
  BY <1>6, <1>b DEF RecordBlocked
<1>7. CASE ScheduleRetryOrFail(j)
  <2>1. CASE MarkFailed(j)
    BY <2>1, <1>b
  <2>2. CASE ~MarkFailed(j)
    <3> DEFINE x == [status |-> "pending", proc |-> "idle", lease |-> "null",
                     next |-> "later", attempt |-> NextAttempt(j.attempt)]
    <3>1. NextAttempt(j.attempt) \in 1 .. MAX_ATTEMPTS + 1
      BY <1>0, AttemptsAssumption DEF NextAttempt, Jobs
    <3>2. x \in Rows /\ x.proc = "idle" /\ x.next # "null"
      BY <3>1, AttemptsAssumption DEF Rows, Statuses
    <3>3. Write(j, x)
      BY <1>7, <2>2 DEF ScheduleRetryOrFail
    <3>4. QED  BY <1>a, <3>2, <3>3
  <2>3. QED  BY <2>1, <2>2
<1>8. CASE RecordCancelled(j)
  <2> DEFINE x == [row[j.del] EXCEPT !.status = "cancelled", !.proc = "done",
                                     !.lease = "null"]
  <2>1. x \in Rows /\ x.status = "cancelled"
    BY <1>0 DEF Rows, Statuses
  <2>2. QED  BY <1>a, <1>8, <2>1 DEF RecordCancelled
<1>9. QED
  BY <1>1, <1>2, <1>3, <1>4, <1>5, <1>6, <1>7, <1>8 DEF JobStep

\* Every other step.  A claim takes only rows no execution holds: the row of an
\* execution that runs alone is processing under a lease that has not expired.
LEMMA LeaseStep ==
    ASSUME TypeInv, LeaseInv, [Next]_vars
    PROVE  LeaseInv'
<1> USE DEF TypeInv, TypeOK, LeaseInv, ExclusiveDelivery, JobHoldsRow, Recoverable
<1>1. ASSUME NEW r \in Replicas, NEW d \in Deliveries,
             DispatchImmediate(r, d) \/ FlushClaim(r, d) \/ SendTestDelivery(r, d)
      PROVE  LeaseInv'
  BY <1>1 DEF DispatchImmediate, FlushClaim, SendTestDelivery, Job, Leased,
              Unused, Jobs
<1>2. ASSUME NEW d \in Deliveries, FlushTooLarge(d) \/ EnqueueGasFeeAlert(d)
      PROVE  LeaseInv'
  <2>1. PICK x : /\ row' = [row EXCEPT ![d] = x]
                 /\ x.status # "pending" \/ Kind[d] = "gas"
    <3> HIDE DEF LeaseInv, TypeInv
    <3>1. [Leased EXCEPT !.status = "failed", !.proc = "done",
                         !.lease = "null"].status = "failed"
      BY DEF Leased
    <3>2. QED  BY <1>2, <3>1, Zenon DEF FlushTooLarge, EnqueueGasFeeAlert
  <2>2. UNCHANGED <<jobs, overlaps>> /\ \A i \in jobs : i.del # d
    BY <1>2 DEF FlushTooLarge, EnqueueGasFeeAlert, Unused
  <2>3. QED  BY <2>1, <2>2 DEF Jobs
<1>3. ASSUME NEW d \in Deliveries, DeleteExpired(d)
      PROVE  LeaseInv'
  BY <1>3 DEF DeleteExpired, Absent, Jobs
<1>4. ASSUME NEW d \in Deliveries, LeaseExpires(d)
      PROVE  LeaseInv'
  <2>1. /\ \A c \in Deliveries : c # d => row'[c] = row[c] /\ overlaps'[c] = overlaps[c]
        /\ overlaps'[d] = 0 => overlaps[d] = 0 /\ \A j \in jobs : j.del # d
    BY <1>4 DEF LeaseExpires, Overlap
  <2>2. /\ row'[d].status = row[d].status /\ row'[d].proc = row[d].proc
        /\ row'[d].next = row[d].next /\ row'[d].lease = "expired"
        /\ row[d].lease = "held"
    BY <1>4 DEF LeaseExpires, Rows
  <2>3. jobs' = jobs
    BY <1>4 DEF LeaseExpires
  <2>4. QED  BY <2>1, <2>2, <2>3 DEF Jobs
<1>5. ASSUME NEW d \in Deliveries, RetryFallsDue(d)
      PROVE  LeaseInv'
  BY <1>5 DEF RetryFallsDue, Rows, Jobs
<1>6. ASSUME NEW R \in SUBSET Replicas, RetryPendingDeliveries(R)
      PROVE  LeaseInv'
  <2>1. \A i \in jobs : overlaps[i.del] = 0 => i.del \notin DueRows
    BY DEF DueRows, Due
  <2>2. \A i \in Claims(R) : /\ i.del \in DueRows /\ i.rep \in R
                              /\ i.stage \in {"queued", "cancel"}
    BY DEF Claims, Job, ClaimStage
  <2>3. /\ \A d \in Deliveries : overlaps'[d] = 0 => overlaps[d] = 0
        /\ (\A r, s \in R : r = s) \/ \A d \in DueRows : overlaps'[d] # 0
    <3>1. \/ (\A r, s \in R : r = s) /\ overlaps' = overlaps
          \/ Overlap(DueRows)
      BY <1>6, Zenon DEF RetryPendingDeliveries
    <3>2. QED  BY <3>1 DEF Overlap, DueRows
  <2>4. \A i, k \in Claims(R) : i.del = k.del => i = k \/ overlaps'[i.del] # 0
    <3>1. CASE \A r, s \in R : r = s
      BY <3>1 DEF Claims, Job
    <3>2. CASE \A d \in DueRows : overlaps'[d] # 0
      BY <2>2, <3>2
    <3>3. QED  BY <2>3, <3>1, <3>2
  <2>5. ExclusiveDelivery'
    BY <1>6, <2>1, <2>2, <2>3, <2>4 DEF RetryPendingDeliveries, DueRows, Jobs
  <2>6. \A d \in DueRows : /\ row'[d].status = "pending"
                            /\ row'[d].proc = "processing"
                            /\ row'[d].lease = "held"
    <3> SUFFICES ASSUME NEW d \in DueRows
                 PROVE  /\ row'[d].status = "pending" /\ row'[d].proc = "processing"
                        /\ row'[d].lease = "held"
      OBVIOUS
    <3>1. d \in Deliveries /\ row[d] \in Rows /\ row[d].status = "pending"
      BY DEF DueRows, Due
    <3>2. row'[d] = [row[d] EXCEPT !.proc = "processing", !.lease = "held"]
      BY <1>6, <3>1 DEF RetryPendingDeliveries
    <3>3. QED  BY <3>1, <3>2 DEF Rows
  <2>7. \A d \in Deliveries \ DueRows : row'[d] = row[d]
    BY <1>6 DEF RetryPendingDeliveries
  <2>8. JobHoldsRow'
    <3> SUFFICES ASSUME NEW i \in jobs \cup Claims(R), overlaps'[i.del] = 0
                 PROVE  LET x == row'[i.del]
                        IN  IF i.stage = "create" THEN x.status = "none"
                            ELSE \/ x.status \in {"cancelled", "gone"}
                                 \/ x.status = "pending" /\ x.proc = "processing"
                                      /\ x.lease = "held"
      BY <1>6 DEF RetryPendingDeliveries
    <3>1. CASE i \in Claims(R)
      BY <2>2, <2>6, <3>1
    <3>2. CASE i \in jobs
      <4>1. i.del \in Deliveries \ DueRows /\ overlaps[i.del] = 0
        BY <2>1, <2>3, <3>2 DEF Jobs
      <4>2. QED  BY <2>7, <3>2, <4>1
    <3>3. QED  BY <3>1, <3>2
  <2>9. Recoverable'
    BY <2>3, <2>6, <2>7
  <2>10. QED  BY <2>5, <2>8, <2>9
<1>7. ASSUME NEW j \in jobs, JobStep(j)
      PROVE  LeaseInv'
  BY <1>7, LeaseJobStep
<1>8. ASSUME NEW j \in jobs, JobFails(j) \/ SuccessWriteFails(j)
      PROVE  LeaseInv'
  <2>1. CASE JobFails(j)
    BY <2>1 DEF JobFails, Done
  <2>2. CASE SuccessWriteFails(j)
    <3>1. PICK k \in Jobs : /\ jobs' = (jobs \ {j}) \cup {k}
                            /\ k.del = j.del /\ k.stage = "nack"
      BY <2>2, NackedJob
    <3>2. row' = row /\ overlaps' = overlaps /\ j.stage = "ack"
      BY <2>2, NackedJob DEF SuccessWriteFails
    <3>3. ExclusiveDelivery'
      BY <3>1, <3>2
    <3>4. JobHoldsRow' /\ Recoverable'
      BY <3>1, <3>2
    <3>5. QED  BY <3>3, <3>4
  <2>3. QED  BY <1>8, <2>1, <2>2
<1>9. ASSUME NEW r \in Replicas, Crash(r)
      PROVE  LeaseInv'
  BY <1>9 DEF Crash
<1>10. CASE Deactivate \/ Reactivate \/ PatchDies \/ UNCHANGED vars
  BY <1>10 DEF Deactivate, Reactivate, PatchDies, vars
<1>11. CASE CancelPending
  <2>1. \A d \in Deliveries : IF row[d].status = "pending"
                               THEN row'[d].status = "cancelled"
                               ELSE row'[d] = row[d]
    BY <1>11, CancelledRows
  <2>2. UNCHANGED <<jobs, overlaps>>
    BY <1>11, CancelFacts
  <2>3. QED  BY <2>1, <2>2 DEF Jobs
<1>12. CASE DeleteSubscription
  BY <1>12 DEF DeleteSubscription, Absent, Jobs
<1>13. ASSUME NEW d \in Deliveries, RollbackEvent(d) \/ ReindexEvent(d)
       PROVE  LeaseInv'
  BY <1>13 DEF RollbackEvent, ReindexEvent
<1>14. QED
  BY <1>1, <1>2, <1>3, <1>4, <1>5, <1>6, <1>7, <1>8, <1>9, <1>10, <1>11,
     <1>12, <1>13 DEF Next

LEMMA LeaseInit == Init => LeaseInv
BY DEF Init, Absent, LeaseInv, ExclusiveDelivery, JobHoldsRow, Recoverable

\* The invariant of the lease protocol.
LEMMA LeaseInvariant == Spec => [](TypeInv /\ LeaseInv)
<1>1. TypeInv /\ LeaseInv /\ [Next]_vars => LeaseInv'
  BY LeaseStep
<1>2. QED  BY <1>1, TypeInvariant, LeaseInit, PTL DEF Spec

\* Mutual exclusion: whatever crashes, retries and users do, two executions
\* work on one delivery row only after its lease ran out under one of them, or
\* after two replicas claimed it in one millisecond.
THEOREM LeaseExcludes == Spec => []ExclusiveDelivery
<1>1. LeaseInv => ExclusiveDelivery  BY DEF LeaseInv
<1>2. QED  BY <1>1, LeaseInvariant, PTL

\* Crash recovery: a pending row can be reclaimed at every moment, so a crash
\* at any point loses no delivery; a second execution let at the row by such an
\* overlap is the only thing that can take this away.
THEOREM CrashesRecoverable == Spec => []Recoverable
<1>1. LeaseInv => Recoverable  BY DEF LeaseInv
<1>2. QED  BY <1>1, LeaseInvariant, PTL

\* Nothing overwrites a delivered or failed row, but an execution that such an
\* overlap let at it.
THEOREM OutcomesFinal == Spec => OutcomeFinal
<1> DEFINE Final(d) == row[d].status \in {"success", "failed"} /\ overlaps[d] = 0 =>
                         row'[d].status \in {row[d].status, "gone"}
<1>1. ASSUME TypeInv, LeaseInv, [Next]_vars, NEW d \in Deliveries
      PROVE  Final(d)
  <2> SUFFICES ASSUME row[d].status \in {"success", "failed"}, overlaps[d] = 0
               PROVE  row'[d].status \in {row[d].status, "gone"}
    OBVIOUS
  <2> USE DEF TypeInv, TypeOK
  <2>0. row \in [Deliveries -> Rows] /\ jobs \subseteq Jobs
    BY <1>1
  <2>1. \A j \in jobs : j.del # d
    BY <1>1 DEF LeaseInv, JobHoldsRow
  <2>3. ASSUME NEW r \in Replicas, NEW c \in Deliveries,
               DispatchImmediate(r, c) \/ FlushClaim(r, c) \/ SendTestDelivery(r, c)
        PROVE  row'[d] = row[d]
    BY <2>0, <2>3 DEF DispatchImmediate, FlushClaim, SendTestDelivery, Unused
  <2>4. ASSUME NEW c \in Deliveries, FlushTooLarge(c) \/ EnqueueGasFeeAlert(c)
        PROVE  row'[d] = row[d]
    <3>1. c # d
      BY <2>4 DEF FlushTooLarge, EnqueueGasFeeAlert, Unused
    <3>2. PICK x : row' = [row EXCEPT ![c] = x]
      BY <2>4, Zenon DEF FlushTooLarge, EnqueueGasFeeAlert
    <3>3. QED  BY <2>0, <3>1, <3>2
  <2>5. ASSUME NEW c \in Deliveries,
               DeleteExpired(c) \/ LeaseExpires(c) \/ RetryFallsDue(c)
        PROVE  row'[d].status \in {row[d].status, "gone"}
    BY <2>0, <2>5 DEF DeleteExpired, LeaseExpires, RetryFallsDue, Absent, Rows
  <2>6. ASSUME NEW R \in SUBSET Replicas, RetryPendingDeliveries(R)
        PROVE  row'[d] = row[d]
    BY <2>0, <2>6 DEF RetryPendingDeliveries, DueRows, Due
  <2>7. ASSUME NEW j \in jobs, JobStep(j)
        PROVE  row'[d] = row[d]
    <3>1. j.del # d /\ j.del \in Deliveries
      BY <2>0, <2>1 DEF Jobs
    <3>2. QED
      BY <2>0, <2>7, <3>1 DEF JobStep, CreateDelivery, PayloadMissing, RowDeleted,
         StartAttempt, PostOutcome, RecordSuccess, RecordBlocked, MarkFailed,
         ScheduleRetryOrFail, RecordCancelled, Write
  <2>8. CASE UNCHANGED row
    BY <2>8
  <2>9. CASE CancelPending
    BY <2>9 DEF CancelPending
  <2>10. CASE DeleteSubscription
    BY <2>10 DEF DeleteSubscription, Absent
  <2>11. QED
    BY <1>1, <2>3, <2>4, <2>5, <2>6, <2>7, <2>8, <2>9, <2>10
       DEF Next, vars, JobFails, SuccessWriteFails, Crash, Deactivate, Reactivate,
           PatchDies, RollbackEvent, ReindexEvent
<1>2. TypeInv /\ LeaseInv /\ [Next]_vars => [\A d \in Deliveries : Final(d)]_vars
  BY <1>1
<1>3. QED  BY <1>2, LeaseInvariant, PTL DEF Spec, OutcomeFinal

-----------------------------------------------------------------------------
(* What a deactivation gives.                                               *)

\* The executions after a step of an execution: the others, and possibly itself
\* in a later stage.
LEMMA JobsAfterStep ==
    ASSUME TypeInv, NEW j \in jobs, JobStep(j)
    PROVE  /\ UNCHANGED <<active, cancelling, patch, overlaps>>
           /\ \A d \in Deliveries : d # j.del => row'[d] = row[d]
           /\ \A k \in jobs' : \/ k \in jobs \ {j}
                               \/ k.del = j.del /\ k.stage # "queued"
           /\ \A k \in jobs' : k.stage = "posting" /\ k.del = j.del =>
                k \in jobs \ {j} \/ j.stage = "create" \/ row[j.del].status = "pending"
<1> USE DEF sub
<1>0. j \in Jobs /\ j.del \in Deliveries /\ row \in [Deliveries -> Rows]
  BY DEF TypeInv, TypeOK, Jobs
<1>a. ASSUME NEW s \in Stages, Advance(j, s)
      PROVE  \E k : /\ jobs' = (jobs \ {j}) \cup {k}
                    /\ k.del = j.del /\ k.stage = s
  <2>1. [j EXCEPT !.stage = s].del = j.del /\ [j EXCEPT !.stage = s].stage = s
    BY <1>0 DEF Jobs
  <2>2. QED  BY <1>a, <2>1, Zenon DEF Advance
<1>1. CASE CreateDelivery(j)
  <2>1. PICK k : jobs' = (jobs \ {j}) \cup {k} /\ k.del = j.del /\ k.stage = "posting"
    BY <1>1, <1>a DEF CreateDelivery, Advance, Stages
  <2>2. QED  BY <1>0, <1>1, <2>1 DEF CreateDelivery
<1>2. CASE PayloadMissing(j) \/ RowDeleted(j)
  BY <1>2 DEF PayloadMissing, RowDeleted, Done
<1>3. CASE StartAttempt(j)
  <2>1. CASE row[j.del].status = "pending"
    <3>1. PICK k : jobs' = (jobs \ {j}) \cup {k} /\ k.del = j.del /\ k.stage = "posting"
      BY <1>3, <2>1, <1>a DEF StartAttempt, Stages
    <3>2. UNCHANGED <<active, cancelling, patch, overlaps>> /\ \A d \in Deliveries : d # j.del => row'[d] = row[d]
      BY <1>0, <1>3, <2>1 DEF StartAttempt
    <3>3. QED  BY <2>1, <3>1, <3>2
  <2>2. CASE row[j.del].status # "pending"
    BY <1>3, <2>2 DEF StartAttempt, Done
  <2>3. QED  BY <2>1, <2>2
<1>4. ASSUME NEW outcome \in Outcomes, PostOutcome(j, outcome)
      PROVE  /\ UNCHANGED <<active, cancelling, patch, overlaps, row>>
             /\ \A k \in jobs' : \/ k \in jobs \ {j}
                                 \/ k.del = j.del /\ k.stage \notin {"queued", "posting"}
  <2>1. PICK k : jobs' = (jobs \ {j}) \cup {k} /\ k.del = j.del /\ k.stage = outcome
    BY <1>4, <1>a DEF PostOutcome, Outcomes, Stages
  <2>2. QED  BY <1>4, <2>1 DEF PostOutcome, Outcomes
<1>5. ASSUME NEW x, Write(j, x)
      PROVE  /\ UNCHANGED <<active, cancelling, patch, overlaps>> /\ jobs' = jobs \ {j}
             /\ \A d \in Deliveries : d # j.del => row'[d] = row[d]
  BY <1>0, <1>5 DEF Write, Done
<1>6. CASE RecordSuccess(j) \/ RecordBlocked(j) \/ ScheduleRetryOrFail(j) \/ RecordCancelled(j)
  <2>1. \E x : Write(j, x)
    <3>1. CASE RecordSuccess(j)  BY <3>1, Zenon DEF RecordSuccess
    <3>2. CASE MarkFailed(j)  BY <3>2, Zenon DEF MarkFailed
    <3>3. CASE RecordBlocked(j)  BY <3>2, <3>3, Zenon DEF RecordBlocked
    <3>4. CASE ScheduleRetryOrFail(j)
      BY <3>2, <3>4, Zenon DEF ScheduleRetryOrFail
    <3>5. CASE RecordCancelled(j)  BY <3>5, Zenon DEF RecordCancelled
    <3>6. QED  BY <1>6, <3>1, <3>3, <3>4, <3>5
  <2>2. QED  BY <1>5, <2>1
<1>7. QED  BY <1>1, <1>2, <1>3, <1>4, <1>6 DEF JobStep

\* What time has opened to a second execution stays open.
LEMMA OverlapsGrow ==
    ASSUME TypeInv, [Next]_vars, NEW d \in Deliveries, overlaps'[d] = 0
    PROVE  overlaps[d] = 0
<1> USE DEF TypeInv, TypeOK
<1>1. ASSUME NEW c \in Deliveries, LeaseExpires(c)
      PROVE  overlaps[d] = 0
  BY <1>1 DEF LeaseExpires, Overlap
<1>2. ASSUME NEW R \in SUBSET Replicas, RetryPendingDeliveries(R)
      PROVE  overlaps[d] = 0
  <2>1. overlaps' = overlaps \/ Overlap(DueRows)
    BY <1>2, Zenon DEF RetryPendingDeliveries
  <2>2. QED  BY <2>1 DEF Overlap
<1>3. ASSUME NEW j \in jobs, JobStep(j)
      PROVE  overlaps[d] = 0
  BY <1>3, JobStepKeeps
<1>4. CASE UNCHANGED overlaps
  BY <1>4
<1>5. QED
  BY <1>1, <1>2, <1>3, <1>4
     DEF Next, vars, DispatchImmediate, FlushClaim, SendTestDelivery, FlushTooLarge,
         EnqueueGasFeeAlert, DeleteExpired, RetryFallsDue, RollbackEvent, ReindexEvent,
         JobFails, SuccessWriteFails, Crash, Deactivate, CancelPending, Reactivate,
         PatchDies, DeleteSubscription

\* Only a claim puts a retry into the queue, and one of an inactive subscription
\* is to be cancelled; nobody but the waiting execution revives its row.
LEMMA RetriesStep ==
    ASSUME TypeInv, LeaseInv, RetriesCancelled, [Next]_vars
    PROVE  RetriesCancelled'
<1> SUFFICES ASSUME ~active', cancelling' = 0, patch' = "none",
                    NEW k \in jobs', k.origin = "retry", k.stage = "queued",
                    overlaps'[k.del] = 0
             PROVE  row'[k.del].status # "pending"
  BY DEF RetriesCancelled
<1> USE DEF sub
<1>0. row \in [Deliveries -> Rows] /\ jobs \subseteq Jobs /\ \A i \in jobs : i.del \in Deliveries
  BY DEF TypeInv, TypeOK, Jobs
<1>a. ASSUME UNCHANGED <<active, cancelling, patch>>, k \in jobs,
             row'[k.del].status \in {row[k.del].status, "gone"}
      PROVE  row'[k.del].status # "pending"
  BY <1>0, <1>a, OverlapsGrow DEF RetriesCancelled
<1>1. ASSUME NEW r \in Replicas, NEW d \in Deliveries,
             DispatchImmediate(r, d) \/ FlushClaim(r, d) \/ SendTestDelivery(r, d)
      PROVE  row'[k.del].status # "pending"
  <2>1. k \in jobs /\ k.del # d
    BY <1>1 DEF DispatchImmediate, FlushClaim, SendTestDelivery, Job, Unused
  <2>2. row'[k.del] = row[k.del] /\ UNCHANGED <<active, cancelling, patch>>
    BY <1>0, <1>1, <2>1 DEF DispatchImmediate, FlushClaim, SendTestDelivery
  <2>3. QED  BY <1>a, <2>1, <2>2
<1>2. ASSUME NEW d \in Deliveries, FlushTooLarge(d) \/ EnqueueGasFeeAlert(d)
      PROVE  row'[k.del].status # "pending"
  <2>1. k \in jobs /\ k.del # d /\ UNCHANGED <<active, cancelling, patch>>
    BY <1>2 DEF FlushTooLarge, EnqueueGasFeeAlert, Unused
  <2>2. PICK x : row' = [row EXCEPT ![d] = x]
    BY <1>2, Zenon DEF FlushTooLarge, EnqueueGasFeeAlert
  <2>3. QED  BY <1>0, <1>a, <2>1, <2>2
<1>3. ASSUME NEW d \in Deliveries,
             \/ DeleteExpired(d) \/ LeaseExpires(d) \/ RetryFallsDue(d)
             \/ RollbackEvent(d) \/ ReindexEvent(d)
      PROVE  row'[k.del].status # "pending"
  <2>1. k \in jobs /\ UNCHANGED <<active, cancelling, patch>>
    BY <1>3 DEF DeleteExpired, LeaseExpires, RetryFallsDue, RollbackEvent, ReindexEvent
  <2>2. row'[k.del].status \in {row[k.del].status, "gone"}
    BY <1>0, <1>3, <2>1 DEF DeleteExpired, LeaseExpires, RetryFallsDue,
                            RollbackEvent, ReindexEvent, Absent, Rows
  <2>3. QED  BY <1>a, <2>1, <2>2
<1>4. ASSUME NEW R \in SUBSET Replicas, RetryPendingDeliveries(R)
      PROVE  row'[k.del].status # "pending"
  <2>1. UNCHANGED <<active, cancelling, patch>> /\ jobs' = jobs \cup Claims(R)
    BY <1>4 DEF RetryPendingDeliveries
  <2>2. \A i \in Claims(R) : i.stage = "cancel"
    BY <2>1 DEF Claims, Job, ClaimStage
  <2>3. k \in jobs
    BY <2>1, <2>2
  <2>4. row'[k.del].status = row[k.del].status
    BY <1>0, <1>4, <2>3 DEF RetryPendingDeliveries, Rows
  <2>5. QED  BY <1>a, <2>1, <2>3, <2>4
<1>5. ASSUME NEW j \in jobs, JobStep(j)
      PROVE  row'[k.del].status # "pending"
  <2>1. k \in jobs \ {j} /\ UNCHANGED <<active, cancelling, patch>>
    BY <1>5, JobsAfterStep
  <2>2. k.del # j.del
    BY <1>5, <2>1, JobsAfterStep DEF LeaseInv, ExclusiveDelivery
  <2>3. row'[k.del] = row[k.del]
    BY <1>0, <1>5, <2>1, <2>2, JobsAfterStep
  <2>4. QED  BY <1>a, <2>1, <2>3
<1>6. ASSUME NEW j \in jobs, JobFails(j) \/ SuccessWriteFails(j)
      PROVE  row'[k.del].status # "pending"
  <2>1. CASE JobFails(j)
    BY <1>a, <2>1 DEF JobFails, Done
  <2>2. CASE SuccessWriteFails(j)
    BY <1>a, <2>2, NackedJob
  <2>3. QED  BY <1>6, <2>1, <2>2
<1>7. ASSUME NEW r \in Replicas, Crash(r)
      PROVE  row'[k.del].status # "pending"
  BY <1>a, <1>7 DEF Crash
<1>8. CASE Deactivate \/ Reactivate \/ PatchDies \/ DeleteSubscription
  <2>1. CASE Deactivate
    BY <2>1 DEF Deactivate, TypeInv, TypeOK
  <2>2. CASE Reactivate \/ PatchDies
    BY <2>2 DEF Reactivate, PatchDies
  <2>3. CASE DeleteSubscription
    BY <2>3, DeleteFacts
  <2>4. QED  BY <1>8, <2>1, <2>2, <2>3
<1>9. CASE CancelPending
  BY <1>0, <1>9, CancelFacts, CancelledRows
<1>10. CASE UNCHANGED vars
  BY <1>a, <1>10 DEF vars
<1>11. QED
  BY <1>1, <1>2, <1>3, <1>4, <1>5, <1>6, <1>7, <1>8, <1>9, <1>10 DEF Next

\* No retry starts an attempt between the cancellation of a deactivated
\* subscription's rows and its reactivation, except of a row that an overlap let
\* a second execution revive.
THEOREM DeactivationHolds == Spec => NoRetryWhileInactive
<1> DEFINE Waits(j) == /\ j.origin = "retry" /\ overlaps[j.del] = 0
                       /\ ~active /\ cancelling = 0 /\ patch = "none"
                       =>
                         ~(j.stage = "queued" /\ [j EXCEPT !.stage = "posting"] \in jobs')
<1>1. ASSUME TypeInv, LeaseInv, RetriesCancelled, [Next]_vars, NEW j \in jobs
      PROVE  Waits(j)
  <2> DEFINE k == [j EXCEPT !.stage = "posting"]
  <2> SUFFICES ASSUME j.origin = "retry", overlaps[j.del] = 0, ~active, cancelling = 0,
                      patch = "none", j.stage = "queued", k \in jobs'
               PROVE  FALSE
    OBVIOUS
  <2>1. /\ j \in Jobs /\ jobs \subseteq Jobs
        /\ k.del = j.del /\ k.stage = "posting" /\ k.origin = "retry"
    BY <1>1 DEF TypeInv, TypeOK, Jobs
  <2> HIDE DEF k
  <2>2. row[j.del].status # "pending"
    BY <1>1 DEF RetriesCancelled
  <2>3. k \notin jobs
    BY <1>1, <2>1 DEF LeaseInv, ExclusiveDelivery
  <2>4. ASSUME NEW i \in jobs, JobStep(i)
        PROVE  FALSE
    <3>1. k.del = i.del
      BY <1>1, <2>3, <2>4, JobsAfterStep
    <3>2. i = j
      BY <1>1, <2>1, <3>1 DEF LeaseInv, ExclusiveDelivery
    <3>3. QED  BY <1>1, <2>1, <2>2, <2>3, <2>4, <3>2, JobsAfterStep
  <2>5. ASSUME NEW R \in SUBSET Replicas, RetryPendingDeliveries(R)
        PROVE  FALSE
    <3>1. \A i \in Claims(R) : i.stage = "cancel"
      BY DEF Claims, Job, ClaimStage
    <3>2. QED  BY <2>1, <2>3, <2>5, <3>1 DEF RetryPendingDeliveries
  <2>6. ASSUME NEW r \in Replicas, NEW d \in Deliveries,
               DispatchImmediate(r, d) \/ FlushClaim(r, d) \/ SendTestDelivery(r, d)
        PROVE  FALSE
    BY <2>1, <2>3, <2>6 DEF DispatchImmediate, FlushClaim, SendTestDelivery, Job
  <2>7. ASSUME NEW i \in jobs, SuccessWriteFails(i)
        PROVE  FALSE
    BY <1>1, <2>1, <2>3, <2>7, NackedJob
  <2>8. QED
    BY <1>1, <2>3, <2>4, <2>5, <2>6, <2>7
       DEF Next, vars, FlushTooLarge, EnqueueGasFeeAlert, DeleteExpired, LeaseExpires,
           RetryFallsDue, JobFails, Done, Crash, Deactivate, CancelPending, Reactivate,
           PatchDies, DeleteSubscription, RollbackEvent, ReindexEvent
<1>2. TypeInv /\ LeaseInv /\ RetriesCancelled /\ [Next]_vars =>
        [\A j \in jobs : Waits(j)]_vars
  BY <1>1
<1>3. Init => RetriesCancelled
  BY DEF Init, RetriesCancelled
<1>4. TypeInv /\ LeaseInv /\ RetriesCancelled /\ [Next]_vars => RetriesCancelled'
  BY RetriesStep
<1>5. QED  BY <1>2, <1>3, <1>4, LeaseInvariant, PTL DEF Spec, NoRetryWhileInactive
=============================================================================
