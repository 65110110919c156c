-------------------------- MODULE WebhookDelivery --------------------------
(***************************************************************************)
(* The rows of _webhook_deliveries and the executions of deliverOnce() that *)
(* work on them, for one subscription served by several service replicas    *)
(* (src/webhooks/dispatcher.ts, the PATCH handler of src/api/webhooks.ts).  *)
(*                                                                         *)
(* A row is the only thing the replicas share.  What a replica remembers of *)
(* a row between two awaits is a JOB: a claimed row waiting in              *)
(* runWithConcurrency's queue, or a deliverOnce() call suspended at its     *)
(* HTTP request.  Jobs vanish when their replica crashes.                   *)
(*                                                                         *)
(* Time is abstract.  A lease is "held" until it is "expired"; a retry is   *)
(* "later" until it is "due".  Every length of time between the two, and so *)
(* every ratio of backoffMs() to LEASE_DURATION_MS, is covered.             *)
(***************************************************************************)
EXTENDS Integers, FiniteSets

CONSTANTS
    Replicas,        \* service processes running the delivery worker
    Deliveries,      \* ids of delivery rows
    Kind,            \* what each row delivers, see Kinds
    MAX_ATTEMPTS,    \* dispatcher.ts:33
    MaxFaults,       \* bound: crashes and database errors in a behaviour
    MaxOverlaps,     \* bound: overlaps (see the variable) of one row
    MaxPatches       \* bound: deactivating PATCHes under way at one time

Kinds == {"event",   \* one contract event, immediate strategy
          "batch",   \* a batch of outbox events
          "gas",     \* a gas fee alert
          "ping"}    \* the user-triggered test delivery

ASSUME KindAssumption == Kind \in [Deliveries -> Kinds]
ASSUME AttemptsAssumption == MAX_ATTEMPTS \in Nat /\ MAX_ATTEMPTS > 0
ASSUME FaultsAssumption == MaxFaults \in Nat
ASSUME OverlapsAssumption == MaxOverlaps \in Nat
ASSUME PatchesAssumption == MaxPatches \in Nat

VARIABLES
    row,         \* the delivery rows, by id
    jobs,        \* executions in the memory of the replicas
    active,      \* the subscription's "active" column
    cancelling,  \* PATCHes that set active = false and have the rows still to
                 \* cancel
    patch,       \* "died": a PATCH never came to cancel the rows; "deleted": the
                 \* subscription is no more; otherwise "none"
    rolledBack,  \* rows whose Event rollbackLedgers() has deleted
    acked,       \* ids the receiver has answered with a 2xx
    faults,      \* crashes and database errors so far
    overlaps     \* history: how often time has let a second execution at a row,
                 \* because the lease ran out under an execution or because
                 \* several replicas claimed in one millisecond

sub == <<active, cancelling, patch>>

vars == <<row, jobs, sub, rolledBack, acked, faults, overlaps>>

Statuses == {"none", "pending", "success", "failed", "cancelled", "gone"}

Rows == [status : Statuses,
         proc   : {"idle", "processing", "done"},
         lease  : {"null", "held", "expired"},
         next   : {"null", "later", "due"},
         attempt : 0 .. MAX_ATTEMPTS + 1]

Stages == {"create",    \* fan-out queued, its row not yet created
           "queued",    \* claimed, waiting for a slot of the pool
           "posting",   \* the attempt is recorded, the request is out
           "ack", "nack", "blocked",  \* answered: 2xx, error, SSRF guard
           "cancel"}    \* claimed for a subscription seen inactive

Outcomes == {"ack", "nack", "blocked"}

Jobs == [rep : Replicas, del : Deliveries,
         origin : {"fanout", "flush", "retry", "ping"},
         attempt : 1 .. MAX_ATTEMPTS + 1,
         stage : Stages]

Patches == {"none", "died", "deleted"}

Absent == [status |-> "none", proc |-> "idle", lease |-> "null",
           next |-> "null", attempt |-> 0]

Init == /\ row = [d \in Deliveries |-> Absent]
        /\ jobs = {}
        /\ active = TRUE
        /\ cancelling = 0
        /\ patch = "none"
        /\ rolledBack = {}
        /\ acked = {}
        /\ faults = 0
        /\ overlaps = [d \in Deliveries |-> 0]

-----------------------------------------------------------------------------
(* Creating rows.                                                           *)

Leased == [status |-> "pending", proc |-> "processing", lease |-> "held",
           next |-> "null", attempt |-> 1]

Job(r, d, origin, attempt, stage) ==
    [rep |-> r, del |-> d, origin |-> origin, attempt |-> attempt,
     stage |-> stage]

Unused(d) == row[d].status = "none" /\ \A j \in jobs : j.del # d

\* webhookWorkerRunning: a worker tick awaits all the jobs it started.
WorkerIdle(r) == \A j \in jobs : j.rep = r => j.origin \notin {"flush", "retry"}

\* dispatchWebhooks() read the subscription as active and started the fan-out;
\* nothing is persisted yet, and the call does not wait for it.
DispatchImmediate(r, d) ==
    /\ Kind[d] = "event" /\ Unused(d) /\ active
    /\ jobs' = jobs \cup {Job(r, d, "fanout", 1, "create")}
    /\ UNCHANGED <<row, sub, rolledBack, acked, faults, overlaps>>

\* deliverOnce() without a deliveryId creates the row with a lease.
CreateDelivery(j) ==
    /\ j.stage = "create" /\ patch # "deleted"
    /\ row' = [row EXCEPT ![j.del] = Leased]
    /\ jobs' = (jobs \ {j}) \cup {[j EXCEPT !.stage = "posting"]}
    /\ UNCHANGED <<sub, rolledBack, acked, faults, overlaps>>

\* Mutant of FlushClaim: the first attempt has number 0.
FlushClaimFromZero(r, d) ==
    /\ Kind[d] = "batch" /\ Unused(d) /\ active /\ WorkerIdle(r)
    /\ row' = [row EXCEPT ![d] = Leased]
    /\ jobs' = jobs \cup {Job(r, d, "flush", 0, "queued")}
    /\ UNCHANGED <<sub, rolledBack, acked, faults, overlaps>>

\* The claim transaction of flushPendingWebhookBatches(); the outbox side of
\* it is in WebhookBatching.
FlushClaim(r, d) ==
    /\ Kind[d] = "batch" /\ Unused(d) /\ active /\ WorkerIdle(r)
    /\ row' = [row EXCEPT ![d] = Leased]
    /\ jobs' = jobs \cup {Job(r, d, "flush", 1, "queued")}
    /\ UNCHANGED <<sub, rolledBack, acked, faults, overlaps>>

\* A single event larger than MAX_BATCH_BODY_BYTES is filed as failed.
FlushTooLarge(d) ==
    /\ Kind[d] = "batch" /\ Unused(d) /\ patch # "deleted"
    /\ row' = [row EXCEPT ![d] = [Leased EXCEPT !.status = "failed",
                                                !.proc = "done",
                                                !.lease = "null"]]
    /\ UNCHANGED <<jobs, sub, rolledBack, acked, faults, overlaps>>

\* enqueueGasFeeAlertDeliveries(): idle, and no nextRetryAt.
EnqueueGasFeeAlert(d) ==
    /\ Kind[d] = "gas" /\ Unused(d) /\ active
    /\ row' = [row EXCEPT ![d] = [Leased EXCEPT !.proc = "idle",
                                                !.lease = "null"]]
    /\ UNCHANGED <<jobs, sub, rolledBack, acked, faults, overlaps>>

\* Mutant of SendTestDelivery: the first attempt has number 0.
SendTestDeliveryFromZero(r, d) ==
    /\ Kind[d] = "ping" /\ Unused(d) /\ patch # "deleted"
    /\ row' = [row EXCEPT ![d] = Leased]
    /\ jobs' = jobs \cup {Job(r, d, "ping", 0, "posting")}
    /\ UNCHANGED <<sub, rolledBack, acked, faults, overlaps>>

\* sendTestDelivery() creates its row and posts without looking at "active".
SendTestDelivery(r, d) ==
    /\ Kind[d] = "ping" /\ Unused(d) /\ patch # "deleted"
    /\ row' = [row EXCEPT ![d] = Leased]
    /\ jobs' = jobs \cup {Job(r, d, "ping", 1, "posting")}
    /\ UNCHANGED <<sub, rolledBack, acked, faults, overlaps>>

-----------------------------------------------------------------------------
(* Claiming rows for a retry.                                               *)

\* Mutants of Due: a lease that has not expired is reclaimed; an expired one
\* is not.
DueWhileLeased(d) == /\ row[d].status = "pending"
                     /\ \/ row[d].proc = "idle" /\ row[d].next = "due"
                        \/ row[d].proc = "processing"

DueOnlyIdle(d) == row[d].status = "pending" /\ row[d].proc = "idle" /\ row[d].next = "due"

\* The where clause of the claim.  A null nextRetryAt satisfies no "lte".
Due(d) == /\ row[d].status = "pending"
          /\ \/ row[d].proc = "idle" /\ row[d].next = "due"
             \/ row[d].proc = "processing" /\ row[d].lease = "expired"

DueRows == {d \in Deliveries : Due(d)}

\* Mutant of ClaimStage: the retry loop does not look at "active".
ClaimStageUnchecked == "queued"

\* The subscription is read with the rows: an inactive one is not delivered to.
ClaimStage == IF active THEN "queued" ELSE "cancel"

\* Every claimant gets an item for every due row.
Claims(R) == {Job(r, d, "retry", row[d].attempt, ClaimStage) :
                r \in R, d \in DueRows}

\* The rows of D are open to a second execution.
Overlap(D) ==
    /\ \A d \in D : overlaps[d] < MaxOverlaps
    /\ overlaps' = [d \in Deliveries |-> IF d \in D THEN overlaps[d] + 1
                                                    ELSE overlaps[d]]

\* The claim transaction of retryPendingDeliveries(), run by the replicas of R
\* in one millisecond.  Each selects the due ids; the first updateMany leases
\* them and the others' match nothing; but the rows are read back by
\* leaseExpiresAt = leaseExpiry, which is the same value for all of R.
RetryPendingDeliveries(R) ==
    /\ DueRows # {} /\ R # {}
    /\ \A r \in R : WorkerIdle(r)
    /\ IF \A r, s \in R : r = s THEN overlaps' = overlaps ELSE Overlap(DueRows)
    /\ row' = [d \in Deliveries |->
                 IF d \in DueRows
                 THEN [row[d] EXCEPT !.proc = "processing", !.lease = "held"]
                 ELSE row[d]]
    /\ jobs' = jobs \cup Claims(R)
    /\ UNCHANGED <<sub, rolledBack, acked, faults>>

-----------------------------------------------------------------------------
(* One delivery attempt.                                                    *)

Done(j) == jobs' = jobs \ {j}

Advance(j, stage) == jobs' = (jobs \ {j}) \cup {[j EXCEPT !.stage = stage]}

\* There is neither a stored payload nor an event to rebuild one from: the test
\* delivery never had an event, and an event's may have been rolled back.
NoPayload(d) == Kind[d] = "ping" \/ d \in rolledBack

\* deliverOnce() returns and the row keeps its lease.
PayloadMissing(j) ==
    /\ j.stage = "queued" /\ NoPayload(j.del)
    /\ Done(j)
    /\ UNCHANGED <<row, sub, rolledBack, acked, faults, overlaps>>

\* updateMany where status = 'pending'; no match ends the job.
StartAttempt(j) ==
    /\ j.stage = "queued" /\ ~NoPayload(j.del)
    /\ IF row[j.del].status = "pending"
       THEN /\ row' = [row EXCEPT ![j.del].attempt = j.attempt,
                                  ![j.del].next = "null"]
            /\ Advance(j, "posting")
       ELSE Done(j) /\ row' = row
    /\ UNCHANGED <<sub, rolledBack, acked, faults, overlaps>>

\* assertSafeUrl() and safePost(): a 2xx, any other answer or error, or the
\* SSRF guard's refusal, before the request or on a redirect.
PostOutcome(j, outcome) ==
    /\ j.stage = "posting"
    /\ Advance(j, outcome)
    /\ acked' = IF outcome = "ack" THEN acked \cup {j.del} ELSE acked
    /\ UNCHANGED <<row, sub, rolledBack, faults, overlaps>>

\* prisma's update of a row that exists; no status and no lease is compared.
Write(j, new) ==
    /\ row[j.del].status # "gone"
    /\ row' = [row EXCEPT ![j.del] = new]
    /\ Done(j)
    /\ UNCHANGED <<sub, rolledBack, acked, faults, overlaps>>

\* Mutant of RecordSuccess: every answer counts as a delivery.
RecordAnyAnswer(j) ==
    /\ j.stage \in {"ack", "nack"}
    /\ Write(j, [row[j.del] EXCEPT !.status = "success", !.proc = "done",
                                   !.lease = "null"])

RecordSuccess(j) ==
    /\ j.stage = "ack"
    /\ Write(j, [row[j.del] EXCEPT !.status = "success", !.proc = "done",
                                   !.lease = "null"])

MarkFailed(j) ==
    Write(j, [row[j.del] EXCEPT !.status = "failed", !.proc = "done",
                                !.lease = "null", !.next = "null"])

RecordBlocked(j) == j.stage = "blocked" /\ MarkFailed(j)

\* A batch is retried indefinitely: its attempts past MAX_ATTEMPTS are one.
NextAttempt(n) == IF n > MAX_ATTEMPTS THEN n ELSE n + 1

\* Mutant of Exhausted: compares the attempt made, not the next one.
ExhaustedOneLate(j) == Kind[j.del] # "batch" /\ j.attempt > MAX_ATTEMPTS

Exhausted(j) == Kind[j.del] # "batch" /\ j.attempt + 1 > MAX_ATTEMPTS

\* Mutant of ScheduleRetryOrFail: nextRetryAt is not written.
ScheduleRetryNever(j) ==
    /\ j.stage = "nack"
    /\ IF Kind[j.del] = "ping" \/ Exhausted(j)
       THEN MarkFailed(j)
       ELSE Write(j, [row[j.del] EXCEPT !.proc = "idle", !.lease = "null",
                                        !.attempt = NextAttempt(j.attempt)])

ScheduleRetryOrFail(j) ==
    /\ j.stage = "nack"
    /\ IF Kind[j.del] = "ping" \/ Exhausted(j)
       THEN MarkFailed(j)
       ELSE Write(j, [status |-> "pending", proc |-> "idle", lease |-> "null",
                      next |-> "later", attempt |-> NextAttempt(j.attempt)])

\* The retry loop found the subscription inactive when it claimed the row.
RecordCancelled(j) ==
    /\ j.stage = "cancel"
    /\ Write(j, [row[j.del] EXCEPT !.status = "cancelled", !.proc = "done",
                                   !.lease = "null"])

\* The update of a deleted row, or the insert of one whose subscription was
\* deleted, throws; the pool logs it.
RowDeleted(j) ==
    /\ \/ /\ j.stage \in {"ack", "nack", "blocked", "cancel"}
          /\ row[j.del].status = "gone"
       \/ j.stage = "create" /\ patch = "deleted"
    /\ Done(j)
    /\ UNCHANGED <<row, sub, rolledBack, acked, faults, overlaps>>

JobStep(j) == \/ CreateDelivery(j) \/ PayloadMissing(j) \/ StartAttempt(j)
              \/ RecordSuccess(j) \/ RecordBlocked(j)
              \/ ScheduleRetryOrFail(j) \/ RecordCancelled(j) \/ RowDeleted(j)
              \/ \E outcome \in Outcomes : PostOutcome(j, outcome)

-----------------------------------------------------------------------------
(* The subscription, time and failures.                                     *)

\* PATCH active = false: the subscription first, its rows in a second
\* transaction.  Nothing keeps two PATCHes apart.
Deactivate ==
    /\ patch # "deleted" /\ cancelling < MaxPatches
    /\ active' = FALSE /\ cancelling' = cancelling + 1
    /\ UNCHANGED <<row, jobs, patch, rolledBack, acked, faults, overlaps>>

\* Mutant of CancelPending: the where clause has no status.
CancelAll ==
    /\ cancelling > 0 /\ cancelling' = cancelling - 1
    /\ patch' = "none"
    /\ row' = [d \in Deliveries |->
                 IF row[d].status \in {"none", "gone"} THEN row[d]
                 ELSE [row[d] EXCEPT !.status = "cancelled", !.proc = "done",
                                     !.lease = "null", !.next = "null"]]
    /\ UNCHANGED <<jobs, active, rolledBack, acked, faults, overlaps>>

CancelPending ==
    /\ cancelling > 0 /\ cancelling' = cancelling - 1
    /\ patch' = "none"
    /\ row' = [d \in Deliveries |->
                 IF row[d].status = "pending"
                 THEN [row[d] EXCEPT !.status = "cancelled", !.proc = "done",
                                     !.lease = "null", !.next = "null"]
                 ELSE row[d]]
    /\ UNCHANGED <<jobs, active, rolledBack, acked, faults, overlaps>>

\* PATCH active = true, possibly between the two writes of a deactivation.
Reactivate ==
    /\ ~active /\ patch # "deleted"
    /\ active' = TRUE /\ patch' = "none"
    /\ UNCHANGED <<row, jobs, cancelling, rolledBack, acked, faults, overlaps>>

\* cleanupExpiredWebhookDeliveries(): only terminal rows expire.
DeleteExpired(d) ==
    /\ row[d].status \in {"success", "failed", "cancelled"}
    /\ row' = [row EXCEPT ![d] = [Absent EXCEPT !.status = "gone"]]
    /\ UNCHANGED <<jobs, sub, rolledBack, acked, faults, overlaps>>

\* DELETE /webhooks/:id cascades to the rows.
DeleteSubscription ==
    /\ patch # "deleted" /\ patch' = "deleted"
    /\ active' = FALSE /\ cancelling' = 0
    /\ row' = [d \in Deliveries |-> IF row[d].status = "none" THEN row[d]
                                    ELSE [Absent EXCEPT !.status = "gone"]]
    /\ UNCHANGED <<jobs, rolledBack, acked, faults, overlaps>>

\* rollbackLedgers() deletes the Event of a delivery that was dispatched; the
\* delivery row refers to it by id only and stays.
RollbackEvent(d) ==
    /\ Kind[d] = "event" /\ ~Unused(d) /\ d \notin rolledBack
    /\ rolledBack' = rolledBack \cup {d}
    /\ UNCHANGED <<row, jobs, sub, acked, faults, overlaps>>

\* The ledger is indexed again, with the same event in it.
ReindexEvent(d) ==
    /\ d \in rolledBack /\ rolledBack' = rolledBack \ {d}
    /\ UNCHANGED <<row, jobs, sub, acked, faults, overlaps>>

\* LEASE_DURATION_MS pass, whether or not the execution that holds the lease
\* has ended.
LeaseExpires(d) ==
    /\ row[d].lease = "held"
    /\ IF \E j \in jobs : j.del = d THEN Overlap({d}) ELSE overlaps' = overlaps
    /\ row' = [row EXCEPT ![d].lease = "expired"]
    /\ UNCHANGED <<jobs, sub, rolledBack, acked, faults>>

\* backoffMs(attempt) pass.
RetryFallsDue(d) ==
    /\ row[d].next = "later"
    /\ row' = [row EXCEPT ![d].next = "due"]
    /\ UNCHANGED <<jobs, sub, rolledBack, acked, faults, overlaps>>

\* A process exits, and is restarted.
Crash(r) ==
    /\ faults < MaxFaults /\ faults' = faults + 1
    /\ jobs' = {j \in jobs : j.rep # r}
    /\ UNCHANGED <<row, sub, rolledBack, acked, overlaps>>

\* A database call throws, and runWithConcurrency logs it and drops the item;
\* or the read replica does not have the row yet, and deliverOnce() returns.
JobFails(j) ==
    /\ faults < MaxFaults /\ faults' = faults + 1
    /\ j.stage # "posting"
    /\ Done(j)
    /\ UNCHANGED <<row, sub, rolledBack, acked, overlaps>>

\* The write of a success throws inside the try block that made the request,
\* and its catch clause treats the attempt as failed.
SuccessWriteFails(j) ==
    /\ faults < MaxFaults /\ faults' = faults + 1
    /\ j.stage = "ack"
    /\ Advance(j, "nack")
    /\ UNCHANGED <<row, sub, rolledBack, acked, overlaps>>

\* The API process dies between the two writes of a PATCH.
PatchDies ==
    /\ faults < MaxFaults /\ faults' = faults + 1
    /\ cancelling > 0 /\ cancelling' = cancelling - 1
    /\ patch' = "died"
    /\ UNCHANGED <<row, jobs, active, rolledBack, acked, overlaps>>

Next == \/ \E r \in Replicas, d \in Deliveries :
             \/ DispatchImmediate(r, d) \/ FlushClaim(r, d)
             \/ SendTestDelivery(r, d)
        \/ \E d \in Deliveries :
             \/ FlushTooLarge(d) \/ EnqueueGasFeeAlert(d) \/ DeleteExpired(d)
             \/ RollbackEvent(d) \/ ReindexEvent(d)
             \/ LeaseExpires(d) \/ RetryFallsDue(d)
        \/ \E R \in SUBSET Replicas : RetryPendingDeliveries(R)
        \/ \E j \in jobs : JobStep(j) \/ JobFails(j) \/ SuccessWriteFails(j)
        \/ \E r \in Replicas : Crash(r)
        \/ Deactivate \/ CancelPending \/ Reactivate \/ PatchDies \/ DeleteSubscription

Spec == Init /\ [][Next]_vars

\* Promises settle, timers fire, and the 25 ms interval starts a tick whenever
\* none is running.  Nothing is assumed of users, crashes or the receiver.
Fairness ==
    /\ \A r \in Replicas, d \in Deliveries :
         WF_vars(\E j \in jobs : j.rep = r /\ j.del = d /\ JobStep(j))
    /\ \A d \in Deliveries : WF_vars(LeaseExpires(d)) /\ WF_vars(RetryFallsDue(d))
    /\ WF_vars(CancelPending)
    /\ SF_vars(\E r \in Replicas : RetryPendingDeliveries({r}))

FairSpec == Spec /\ Fairness

-----------------------------------------------------------------------------
(* Properties.                                                              *)

\* Every row, job and counter has the shape its column or closure has.
TypeOK == /\ row \in [Deliveries -> Rows]
          /\ jobs \subseteq Jobs
          /\ active \in BOOLEAN /\ patch \in Patches
          /\ cancelling \in 0 .. MaxPatches
          /\ rolledBack \subseteq Deliveries /\ acked \subseteq Deliveries
          /\ faults \in 0 .. MaxFaults
          /\ overlaps \in [Deliveries -> 0 .. MaxOverlaps]

\* A row reads 'success' only if the receiver answered an attempt of it with a
\* 2xx, whatever stale executions write to it (RecordSuccess).
NoFalseSuccess == \A d \in Deliveries : row[d].status = "success" => d \in acked

\* Outside batches, MAX_ATTEMPTS bounds the attempt number of every row and of
\* every execution, although executions restart and repeat attempts.
AttemptsBounded ==
    /\ \A d \in Deliveries : Kind[d] # "batch" => row[d].attempt <= MAX_ATTEMPTS
    /\ \A j \in jobs : Kind[j.del] # "batch" => j.attempt <= MAX_ATTEMPTS

\* Two executions work on one row only if time let them: a lease that ran out
\* under the first, or one millisecond for two claims.  Nothing else, no crash,
\* cancellation, retention or retry, opens a row to a second execution.
ExclusiveDelivery ==
    \A i, j \in jobs : i.del = j.del => i = j \/ overlaps[i.del] # 0

\* A pending row can always be claimed again, even if every process dies now: it
\* has a lease that will expire or a retry time that will come, unless two
\* executions were let at it.  (Gas alert rows start without either: see
\* GasAlertsSettle.)
Recoverable ==
    \A d \in Deliveries :
      row[d].status = "pending" /\ Kind[d] # "gas" /\ overlaps[d] = 0 =>
        \/ row[d].proc = "processing" /\ row[d].lease # "null"
        \/ row[d].proc = "idle" /\ row[d].next # "null"

\* Terminal outcomes are final: a delivered or failed row is never pending,
\* delivered, failed or cancelled anew; it is only ever deleted.  The late
\* answer of a second execution is the one thing that can overwrite it.
OutcomeFinal ==
    [][\A d \in Deliveries :
         row[d].status \in {"success", "failed"} /\ overlaps[d] = 0 =>
           row'[d].status \in {row[d].status, "gone"}]_vars

\* After every deactivation under way has cancelled the rows, the retry loop
\* starts no attempt until the subscription is reactivated (#482); only a row
\* that a second execution made pending again is attempted.
NoRetryWhileInactive ==
    [][\A j \in jobs :
         /\ j.origin = "retry" /\ overlaps[j.del] = 0
         /\ ~active /\ cancelling = 0 /\ patch = "none"
         => ~(j.stage = "queued" /\ [j EXCEPT !.stage = "posting"] \in jobs')]_vars

\* A row that nobody works on and that no claim will ever match.
Stranded(d) ==
    /\ row[d].status = "pending" /\ Kind[d] # "gas"
    /\ \A j \in jobs : j.del # d
    /\ row[d].lease = "null" /\ row[d].next = "null"

\* Every delivery of a single event is settled: retries end in success, in
\* failure after MAX_ATTEMPTS, in cancellation or in deletion.  Two things keep
\* one pending for good: its Event was rolled back and does not come back, or
\* overlapping executions have stranded it.
EventsSettle ==
    \A d \in Deliveries : Kind[d] = "event" =>
      (<>[](d \notin rolledBack) =>
         ((row[d].status = "pending") ~>
            (row[d].status # "pending" \/ (Stranded(d) /\ overlaps[d] # 0))))

\* If a process exits during delivery, the row is reclaimed: a pending row that
\* no process works on has a lease to expire or a retry time to come.
CrashReclaimed == \A d \in Deliveries : ~Stranded(d)

\* Gas alerts are sent by the shared retry worker: a row enqueued for one is
\* eventually settled.
GasAlertsSettle ==
    \A d \in Deliveries : Kind[d] = "gas" =>
      (row[d].status = "pending") ~> (row[d].status # "pending")

-----------------------------------------------------------------------------
(* Inductive strengthenings, proved in WebhookDelivery_proofs.              *)

\* A pending row carries the number of an attempt, so a claim can copy it.
PendingNumbered == \A d \in Deliveries : row[d].status = "pending" => row[d].attempt > 0

\* An execution that will report a success has had its 2xx.
AckedJobs == \A j \in jobs : j.stage = "ack" => j.del \in acked

\* What the row of an execution looks like while it runs alone: not created
\* yet, or leased to it, or taken away by a cancellation or a deletion.
JobHoldsRow ==
    \A j \in jobs : overlaps[j.del] = 0 =>
      LET x == row[j.del]
      IN  IF j.stage = "create" THEN x.status = "none"
          ELSE \/ x.status \in {"cancelled", "gone"}
               \/ x.status = "pending" /\ x.proc = "processing" /\ x.lease = "held"

\* After a deactivation has cancelled the rows, no retry waits for a slot with a
\* row it would still find pending.
RetriesCancelled ==
    ~active /\ cancelling = 0 /\ patch = "none" =>
      \A j \in jobs :
        j.origin = "retry" /\ j.stage = "queued" /\ overlaps[j.del] = 0 =>
          row[j.del].status # "pending"
=============================================================================
