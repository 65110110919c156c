-------------------------- MODULE WebhookBatching --------------------------
(***************************************************************************)
(* Batch delivery: the rows of _webhook_outbox_events of one subscription,  *)
(* enqueued by dispatchWebhooks() and grouped into delivery rows by         *)
(* flushPendingWebhookBatches() (src/webhooks/dispatcher.ts).               *)
(*                                                                         *)
(* The module extends WebhookDelivery: each action is one of that module    *)
(* together with what the same transaction writes to the outbox.  Events    *)
(* are numbered in their delivery order, by ledger sequence, transaction    *)
(* hash and event id; they are dispatched in any order, as the workers of a *)
(* catch-up, a repair and the order of an RPC answer have it.               *)
(***************************************************************************)
EXTENDS WebhookDelivery

CONSTANTS
    Events,             \* outbox events, numbers in delivery order
    Entity,             \* entityKey of each event: its contract address
    Oversize,           \* sets of events whose body exceeds MAX_BATCH_BODY_BYTES
    BatchSize,          \* the subscription's batchSize
    MAX_PENDING_OUTBOX_EVENTS,
    None                \* null batchDeliveryId

ASSUME EventsAssumption == Events \subseteq Nat /\ IsFiniteSet(Events)
ASSUME BatchAssumption == BatchSize \in Nat /\ BatchSize > 0
ASSUME CapacityAssumption == MAX_PENDING_OUTBOX_EVENTS \in Nat
ASSUME OversizeAssumption == Oversize \subseteq SUBSET Events
ASSUME BatchRowsAssumption == \A d \in Deliveries : Kind[d] = "batch"
ASSUME NoneAssumption == None \notin Deliveries

VARIABLES
    outbox,    \* status and batchDeliveryId of each event
    flush,     \* where each replica is in flushPendingWebhookBatches()
    payload,   \* events in the batchPayload of each delivery row
    received,  \* events of batches the receiver answered with a 2xx
    passed     \* history: <<e, f>> if a flush had taken up f, or f had left the
               \* queue, before the older e of its contract was enqueued

batchVars == <<vars, outbox, flush, payload, received, passed>>

OutboxStatuses == {"none", "pending", "batched", "delivered", "failed",
                   "cancelled", "gone"}

Idle == [phase |-> "idle", queue |-> {}, sel |-> {}]

BInit == /\ Init
         /\ outbox = [e \in Events |-> [status |-> "none", batch |-> None]]
         /\ flush = [r \in Replicas |-> Idle]
         /\ payload = [d \in Deliveries |-> {}]
         /\ received = {}
         /\ passed = {}

Members(d) == {e \in Events : outbox[e].batch = d}

WithStatus(S) == {e \in Events : outbox[e].status \in S}

\* Two events of one contract, the older one first.
Before(e, f) == e < f /\ Entity[e] = Entity[f]

-----------------------------------------------------------------------------
(* Enqueueing.                                                              *)

\* Younger events of the contract that e can no longer be put in front of.
Ahead(e) ==
    {f \in Events : /\ Before(e, f)
                    /\ \/ outbox[f].status \notin {"none", "pending"}
                       \/ \E r \in Replicas : f \in flush[r].queue}

\* The enqueue transaction of dispatchWebhooks(): the subscription is locked
\* and active, the event is new, and the queue is below its limit; otherwise
\* nothing is written, and at the limit the caller gets an error.
Enqueue(e) ==
    /\ active
    /\ outbox[e].status = "none"
    /\ Cardinality(WithStatus({"pending", "batched"})) < MAX_PENDING_OUTBOX_EVENTS
    /\ outbox' = [outbox EXCEPT ![e].status = "pending"]
    /\ passed' = passed \cup ({e} \X Ahead(e))
    /\ UNCHANGED <<vars, flush, payload, received>>

-----------------------------------------------------------------------------
(* Flushing.                                                                *)

\* The first n events of S in delivery order.
FirstOf(S, n) == {e \in S : Cardinality({f \in S : f <= e}) <= n}

\* The while loop that drops last events until the body fits, or one is left.
Fitting(S) ==
    LET fits(n) == n = 1 \/ FirstOf(S, n) \notin Oversize
    IN  FirstOf(S, CHOOSE n \in 1 .. Cardinality(S) :
                     fits(n) /\ \A m \in n + 1 .. Cardinality(S) : ~fits(m))

OfEntity(S, e) == {f \in S : Entity[f] = Entity[e]}

Goto(r, phase, queue, sel) ==
    flush' = [flush EXCEPT ![r] = [phase |-> phase, queue |-> queue, sel |-> sel]]

\* The loop goes on with the next group, or the flush is over.
NextGroup(r, rest) ==
    Goto(r, IF rest = {} THEN "idle" ELSE "check", rest, {})

\* Read the pending queue of the subscription.
FlushRead(r) ==
    /\ flush[r].phase = "idle" /\ WorkerIdle(r) /\ active
    /\ WithStatus({"pending"}) # {}
    /\ Goto(r, "check", WithStatus({"pending"}), {})
    /\ UNCHANGED <<vars, outbox, payload, received, passed>>

\* Mutant of EarlierBatch: an unfinished batch does not hold its entity back.
EarlierBatchIgnored(e) == FALSE

\* An earlier batch of the same entity has not been settled.
EarlierBatch(e) ==
    \E f \in Events : /\ Entity[f] = Entity[e]
                      /\ outbox[f].status = "batched"
                      /\ outbox[f].batch # None
                      /\ row[outbox[f].batch].status = "pending"

\* Take the group of the oldest event left.  An unfinished batch of the same
\* entity, or a group that is neither full nor old enough, is passed over.
FlushCheck(r) ==
    LET q == flush[r].queue
        oldest == CHOOSE e \in q : \A f \in q : e <= f
        group == OfEntity(q, oldest)
        selected == FirstOf(group, BatchSize)
    IN  /\ flush[r].phase = "check"
        /\ \E windowElapsed \in BOOLEAN :
             IF EarlierBatch(oldest)
                  \/ ~(Cardinality(selected) >= BatchSize \/ windowElapsed)
             THEN NextGroup(r, q \ group)
             ELSE Goto(r, "claim", q, Fitting(selected))
        /\ UNCHANGED <<vars, outbox, payload, received, passed>>

Rest(r) == LET q == flush[r].queue
           IN  q \ OfEntity(q, CHOOSE e \in flush[r].sel : TRUE)

\* The unique idempotencyKey, a hash of the event ids, belongs to a row already.
KeyTaken(r) == \E d \in Deliveries : /\ row[d].status \notin {"none", "gone"}
                                     /\ payload[d] = flush[r].sel

\* Mutant of StillPending: the number of claimed events is not compared.
ClaimUnchecked(r) == TRUE

\* The claim's updateMany where status = 'pending' matched every selected event.
StillPending(r) == \A e \in flush[r].sel : outbox[e].status = "pending"

\* The claim transaction: delivery row and membership together, or nothing if
\* one of the selected events is no longer pending.  One claim ends the flush.
ClaimBatch(r, d) ==
    /\ flush[r].phase = "claim" /\ flush[r].sel \notin Oversize
    /\ ~KeyTaken(r) /\ StillPending(r)
    /\ FlushClaim(r, d)
    /\ outbox' = [e \in Events |-> IF e \in flush[r].sel
                                   THEN [status |-> "batched", batch |-> d]
                                   ELSE outbox[e]]
    /\ payload' = [payload EXCEPT ![d] = flush[r].sel]
    /\ Goto(r, "idle", {}, {})
    /\ UNCHANGED <<received, passed>>

\* WEBHOOK_BATCH_CLAIM_CONFLICT or WEBHOOK_BATCH_SUBSCRIPTION_INACTIVE.
ClaimConflict(r) ==
    /\ flush[r].phase = "claim" /\ flush[r].sel \notin Oversize
    /\ ~active \/ ~(KeyTaken(r) \/ StillPending(r))
    /\ NextGroup(r, Rest(r))
    /\ UNCHANGED <<vars, outbox, payload, received, passed>>

\* One event too large for any batch: a failed delivery row records it.
FileTooLarge(r, d) ==
    /\ flush[r].phase = "claim" /\ flush[r].sel \in Oversize
    /\ ~KeyTaken(r) /\ FlushTooLarge(d)
    /\ outbox' = [e \in Events |->
                    IF e \in flush[r].sel /\ outbox[e].status = "pending"
                    THEN [status |-> "failed", batch |-> d]
                    ELSE outbox[e]]
    /\ payload' = [payload EXCEPT ![d] = flush[r].sel]
    /\ NextGroup(r, Rest(r))
    /\ UNCHANGED <<received, passed>>

\* The insert throws, because of the unique key or of a deleted subscription;
\* unlike a conflict, that ends the worker tick.
InsertThrows(r) ==
    /\ flush[r].phase = "claim"
    /\ IF flush[r].sel \in Oversize THEN KeyTaken(r) \/ patch = "deleted"
                                     ELSE KeyTaken(r) /\ active
    /\ Goto(r, "idle", {}, {})
    /\ UNCHANGED <<vars, outbox, payload, received, passed>>

-----------------------------------------------------------------------------
(* Deliveries, with their outbox side.                                      *)

\* updateMany where batchDeliveryId = d.
SetMembers(d, status) ==
    outbox' = [e \in Events |-> IF e \in Members(d)
                                THEN [outbox[e] EXCEPT !.status = status]
                                ELSE outbox[e]]

BPostOutcome(j, outcome) ==
    /\ PostOutcome(j, outcome)
    /\ received' = IF outcome = "ack" THEN received \cup payload[j.del] ELSE received
    /\ UNCHANGED <<outbox, flush, payload, passed>>

BRecordSuccess(j) == RecordSuccess(j) /\ SetMembers(j.del, "delivered")

\* Mutant of BRecordBlocked: the outbox is not updated with the row.
BlockRowOnly(j) == RecordBlocked(j) /\ outbox' = outbox

BRecordBlocked(j) == RecordBlocked(j) /\ SetMembers(j.del, "failed")

BRecordCancelled(j) == RecordCancelled(j) /\ SetMembers(j.del, "cancelled")

\* A batch is never exhausted, so a failed attempt leaves the outbox alone.
BJobStep(j) ==
    \/ \E outcome \in Outcomes : BPostOutcome(j, outcome)
    \/ /\ \/ BRecordSuccess(j) \/ BRecordBlocked(j) \/ BRecordCancelled(j)
          \/ /\ StartAttempt(j) \/ ScheduleRetryOrFail(j) \/ RowDeleted(j)
             /\ outbox' = outbox
       /\ UNCHANGED <<flush, payload, received, passed>>

BCancelPending ==
    /\ CancelPending
    /\ outbox' = [e \in Events |->
                    IF outbox[e].status \in {"pending", "batched"}
                    THEN [outbox[e] EXCEPT !.status = "cancelled"]
                    ELSE outbox[e]]
    /\ UNCHANGED <<flush, payload, received, passed>>

\* Deleting a delivery row sets the batchDeliveryId of its events to null.
Unlink(D) == outbox' = [e \in Events |-> IF outbox[e].batch \in D
                                         THEN [outbox[e] EXCEPT !.batch = None]
                                         ELSE outbox[e]]

BDeleteExpired(d) ==
    DeleteExpired(d) /\ Unlink({d}) /\ UNCHANGED <<flush, payload, received, passed>>

\* cleanupAllExpiredWebhookDeliveries() on the outbox: terminal rows only.
DeleteExpiredOutbox(e) ==
    /\ outbox[e].status \in {"delivered", "failed", "cancelled"}
    /\ outbox' = [outbox EXCEPT ![e] = [status |-> "gone", batch |-> None]]
    /\ UNCHANGED <<vars, flush, payload, received, passed>>

BDeleteSubscription ==
    /\ DeleteSubscription
    /\ outbox' = [e \in Events |-> IF outbox[e].status = "none" THEN outbox[e]
                                   ELSE [status |-> "gone", batch |-> None]]
    /\ UNCHANGED <<flush, payload, received, passed>>

BRetryPendingDeliveries(R) ==
    /\ \A r \in R : flush[r].phase = "idle"
    /\ RetryPendingDeliveries(R)
    /\ UNCHANGED <<outbox, flush, payload, received, passed>>

\* A crash takes the replica's flush and its jobs with it.
BCrash(r) ==
    /\ faults < MaxFaults /\ faults' = faults + 1
    /\ flush[r].phase # "idle" \/ \E j \in jobs : j.rep = r
    /\ jobs' = {j \in jobs : j.rep # r}
    /\ flush' = [flush EXCEPT ![r] = Idle]
    /\ UNCHANGED <<row, sub, rolledBack, acked, overlaps, outbox, payload, received,
                   passed>>

BNext ==
    \/ \E e \in Events : Enqueue(e) \/ DeleteExpiredOutbox(e)
    \/ \E r \in Replicas :
         \/ FlushRead(r) \/ FlushCheck(r) \/ ClaimConflict(r)
         \/ InsertThrows(r) \/ BCrash(r)
         \/ \E d \in Deliveries : ClaimBatch(r, d) \/ FileTooLarge(r, d)
    \/ \E R \in SUBSET Replicas : BRetryPendingDeliveries(R)
    \/ \E j \in jobs : BJobStep(j)
    \/ \E d \in Deliveries : BDeleteExpired(d)
    \/ BCancelPending \/ BDeleteSubscription
    \/ /\ \/ \E j \in jobs : JobFails(j) \/ SuccessWriteFails(j)
          \/ \E d \in Deliveries : LeaseExpires(d) \/ RetryFallsDue(d)
          \/ Deactivate \/ Reactivate \/ PatchDies
       /\ UNCHANGED <<outbox, flush, payload, received, passed>>

BSpec == BInit /\ [][BNext]_batchVars

-----------------------------------------------------------------------------
(* Properties.                                                              *)

\* The outbox, the flushes and the payloads have the shape of their columns and
\* closures.
BTypeOK ==
    /\ TypeOK
    /\ outbox \in [Events -> [status : OutboxStatuses,
                              batch : Deliveries \cup {None}]]
    /\ flush \in [Replicas -> [phase : {"idle", "check", "claim"},
                               queue : SUBSET Events, sel : SUBSET Events]]
    /\ payload \in [Deliveries -> SUBSET Events]
    /\ received \subseteq Events
    /\ passed \subseteq Events \X Events

\* No event is stuck behind a finished delivery: while an outbox event is
\* 'batched', its delivery row is still pending, so it will be delivered,
\* failed or cancelled with it.
BatchedIsPending ==
    \A e \in Events : outbox[e].status = "batched" =>
        /\ outbox[e].batch # None
        /\ row[outbox[e].batch].status = "pending"

\* An event is reported delivered only after the receiver has answered a batch
\* with that event in it with a 2xx.
DeliveredWasReceived ==
    \A e \in Events : outbox[e].status = "delivered" => e \in received

\* e, older than f, is not left behind by f: when f is in a batch, e is out of
\* the queue, or in the same batch.
InTurn(e, f) ==
    outbox[f].status \in {"batched", "delivered"} =>
      \/ outbox[e].status \notin {"pending", "batched"}
      \/ outbox[e].batch = outbox[f].batch /\ outbox[e].status = outbox[f].status

\* Events are ordered per contract: none is batched or delivered ahead of an
\* older one that is still waiting.
OrderedPerEntity == \A e, f \in Events : Before(e, f) => InTurn(e, f)

\* The flushes keep that order, whatever two of them read before the other's
\* claim: only an event that was enqueued after a flush had taken up a younger
\* one is left behind by it.
OrderedOnceQueued ==
    \A e, f \in Events : Before(e, f) /\ <<e, f>> \notin passed => InTurn(e, f)

\* A batch keeps its membership over crashes and retries, and no event is sent
\* in two: an event never moves from one delivery row to another, and once it
\* is batched, or settled, it never goes back to the queue or into a batch.
MembershipStable ==
    [][\A e \in Events :
         /\ outbox[e].batch # None => outbox'[e].batch \in {outbox[e].batch, None}
         /\ \A S \in {{"none"}, {"none", "pending"}, {"none", "pending", "batched"}} :
              outbox[e].status \notin S => outbox'[e].status \notin S]_batchVars

-----------------------------------------------------------------------------
(* Inductive strengthenings, proved in WebhookBatching_proofs.              *)

\* An event linked to a delivery row is in that row's stored payload.
LinkedRows ==
    \A e \in Events : outbox[e].batch # None =>
        /\ row[outbox[e].batch].status # "none"
        /\ e \in payload[outbox[e].batch]

\* The receiver has the payload of an execution that had its 2xx.
AckedPayload == \A j \in jobs : j.stage = "ack" => payload[j.del] \subseteq received

\* An event that is still in the queue belongs to no delivery row.
QueuedUnlinked ==
    \A e \in Events : outbox[e].status \in {"none", "pending"} => outbox[e].batch = None

Waiting(e) == outbox[e].status \in {"pending", "batched"}

Settled(e) == outbox[e].status \notin {"none", "pending", "batched"}

\* A queue that was read holds, with an event, every older one of its contract
\* that is still waiting and was not passed before it came.
QueueInOrder ==
    \A r \in Replicas : \A f \in flush[r].queue : \A e \in Events :
      Before(e, f) /\ <<e, f>> \notin passed /\ outbox[e].status = "pending" =>
        e \in flush[r].queue

\* So does a selection, with those that are in a batch too; it is taken from the
\* queue, and what was selected although it is too large is one event.
SelectionInOrder ==
    \A r \in Replicas :
      /\ flush[r].sel \subseteq flush[r].queue
      /\ \A f \in flush[r].sel :
           /\ \A e \in Events : Before(e, f) /\ <<e, f>> \notin passed /\ Waiting(e) =>
                                  e \in flush[r].sel
           /\ flush[r].sel \in Oversize => flush[r].sel = {f}

\* A contract's events are settled in order, batch by batch.
SettledInOrder ==
    \A e, f \in Events : Before(e, f) /\ <<e, f>> \notin passed /\ Waiting(e) =>
      /\ ~Settled(f)
      /\ outbox[f].status = "batched" =>
           outbox[e].status = "batched" /\ outbox[e].batch = outbox[f].batch
=============================================================================
