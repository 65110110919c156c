----------------------------- MODULE RampOrders -----------------------------
(***************************************************************************)
(* The orders of the fiat on/off-ramp: POST /execute with its KYC check and *)
(* usage counters, the provider's callbacks, the synchronising GET, refunds *)
(* and the reconciliation with the provider (src/api/ramp.ts and            *)
(* src/services/ramp).                                                      *)
(*                                                                         *)
(* Every await is a step of its own.  transitionOrder() reads the status,   *)
(* checks it against ALLOWED_TRANSITIONS and then writes the new one with   *)
(* no condition; nothing keeps two of its callers apart.  All orders are    *)
(* those of one user, and each has an amount of 1.  Reads go to the primary *)
(* (the read client falls back to it).                                      *)
(***************************************************************************)
EXTENDS Integers, FiniteSets

CONSTANTS
    Orders,        \* orders the user places
    Followed,      \* bound: the orders that go on after they are placed
    Handlers,      \* bound: callbacks, GETs, refunds and polls at a time
    DailyLimit,    \* TIER_LIMITS[tier].dailyUsd
    MonthlyLimit,  \* TIER_LIMITS[tier].monthlyUsd
    MaxDays,       \* bound: midnights in a behaviour
    MaxFaults      \* bound: requests that die and calls that fail

ASSUME OrdersAssumption == IsFiniteSet(Orders)
ASSUME FollowedAssumption == Followed \subseteq Orders
ASSUME BoundsAssumption == /\ DailyLimit \in Nat /\ MonthlyLimit \in Nat
                           /\ MaxDays \in Nat /\ MaxFaults \in Nat

VARIABLES
    row,      \* RampOrder: status, whether providerOrderId is set, refundStatus
    log,      \* RampOrderEvent: the <<fromStatus, toStatus>> of each order
    prov,     \* what the provider has made of the order
    kyc,      \* RampKycRecord: usage counters and the day of the last reset
    day,
    exec,     \* POST /execute of each order
    req,      \* the other requests
    lost,     \* history: orders an event of which was not written
    faults

vars == <<row, log, prov, kyc, day, exec, req, lost, faults>>

Statuses == {"pending", "processing", "completed", "failed", "refunded"}

\* The table's status 'cancelled', after 'pending', is one no caller asks for.
ALLOWED_TRANSITIONS ==
    {<<"pending", "processing">>, <<"pending", "failed">>,
     <<"processing", "completed">>, <<"processing", "failed">>,
     <<"completed", "refunded">>}

Idle == [pc |-> "idle"]

Init == /\ row = [o \in Orders |-> [status |-> "none", ref |-> FALSE, refund |-> "none"]]
        /\ log = [o \in Orders |-> {}]
        /\ prov = [o \in Orders |-> "none"]
        /\ kyc = [daily |-> 0, monthly |-> 0, reset |-> 0]
        /\ day = 1
        /\ exec = [o \in Orders |-> [pc |-> "new", resetAt |-> 0]]
        /\ req = [h \in Handlers |-> Idle]
        /\ lost = {}
        /\ faults = 0

-----------------------------------------------------------------------------
(* POST /execute.                                                           *)

Exec(o, from, to) == exec[o].pc = from /\ exec' = [exec EXCEPT ![o].pc = to]

Fault == faults < MaxFaults /\ faults' = faults + 1

\* appendEvent() swallows the error of its insert.
AppendEvent(o, from, to) ==
    \/ /\ log' = [log EXCEPT ![o] = @ \cup {<<from, to>>}]
       /\ UNCHANGED <<lost, faults>>
    \/ Fault /\ lost' = lost \cup {o} /\ UNCHANGED log

NeedsReset == kyc.reset < day

\* checkKycAllowance(): the counters are compared with the limits of the tier.
CheckKycAllowance(o) ==
    LET dailyUsed == IF NeedsReset THEN 0 ELSE kyc.daily
        allowed == dailyUsed + 1 <= DailyLimit /\ kyc.monthly + 1 <= MonthlyLimit
    IN  /\ Exec(o, "new", IF allowed THEN "create" ELSE "done")
        /\ UNCHANGED <<row, log, prov, kyc, day, req, lost, faults>>

\* createOrder(): the row, and then its first event.
CreateOrder(o) ==
    /\ Exec(o, "create", "created")
    /\ row' = [row EXCEPT ![o].status = "pending"]
    /\ UNCHANGED <<log, prov, kyc, day, req, lost, faults>>

LogCreated(o) ==
    /\ Exec(o, "created", "place")
    /\ AppendEvent(o, "none", "pending")
    /\ UNCHANGED <<row, prov, kyc, day, req>>

\* The provider takes the order.  It may fail, or take it and its answer is lost.
GatewayExecuteOrder(o) ==
    /\ \/ Exec(o, "place", "attach") /\ prov' = [prov EXCEPT ![o] = "processing"] /\ UNCHANGED faults
       \/ Exec(o, "place", "refuse") /\ prov' \in {prov, [prov EXCEPT ![o] = "processing"]} /\ Fault
    /\ UNCHANGED <<row, log, kyc, day, req, lost>>

\* transitionOrder(order.id, 'failed') of the error path.  No other request
\* can find an order without a reference: its read and its write are one step.
RefuseOrder(o) ==
    /\ Exec(o, "refuse", "refused")
    /\ row' = [row EXCEPT ![o].status = "failed"]
    /\ UNCHANGED <<log, prov, kyc, day, req, lost, faults>>

LogRefused(o) ==
    /\ Exec(o, "refused", "done")
    /\ AppendEvent(o, "pending", "failed")
    /\ UNCHANGED <<row, prov, kyc, day, req>>

\* attachProviderOrderId() writes the status 'processing' directly ...
AttachProviderOrderId(o) ==
    /\ Exec(o, "attach", "attached")
    /\ row' = [row EXCEPT ![o].status = "processing", ![o].ref = TRUE]
    /\ UNCHANGED <<log, prov, kyc, day, req, lost, faults>>

\* Mutant of LogAttached: an event that changes nothing is not written.
LogAttachedChanges(o) ==
    /\ Exec(o, "attached", "usage")
    /\ IF row[o].status = "processing" THEN UNCHANGED <<log, lost, faults>>
       ELSE AppendEvent(o, row[o].status, "processing")
    /\ UNCHANGED <<row, prov, kyc, day, req>>

\* ... and logs as fromStatus what it reads afterwards.
LogAttached(o) ==
    /\ Exec(o, "attached", "usage")
    /\ AppendEvent(o, row[o].status, "processing")
    /\ UNCHANGED <<row, prov, kyc, day, req>>

\* recordKycUsage() reads the day of the last reset, and the clock ...
ReadKycUsage(o) ==
    /\ exec[o].pc = "usage"
    /\ exec' = [exec EXCEPT ![o] = [pc |-> "record", resetAt |-> IF NeedsReset THEN day ELSE 0]]
    /\ UNCHANGED <<row, log, prov, kyc, day, req, lost, faults>>

\* Mutant of RecordKycUsage: the first order of a day resets both counters.
RecordKycResetsBoth(o) ==
    /\ exec[o].pc = "record"
    /\ exec' = [exec EXCEPT ![o] = [pc |-> "done", resetAt |-> 0]]
    /\ kyc' = IF exec[o].resetAt > 0
              THEN [daily |-> 1, monthly |-> 1, reset |-> exec[o].resetAt]
              ELSE [kyc EXCEPT !.daily = @ + 1, !.monthly = @ + 1]
    /\ UNCHANGED <<row, log, prov, day, req, lost, faults>>

\* ... and then increments the counters, or starts the daily one again.
RecordKycUsage(o) ==
    /\ exec[o].pc = "record"
    /\ exec' = [exec EXCEPT ![o] = [pc |-> "done", resetAt |-> 0]]
    /\ kyc' = IF exec[o].resetAt > 0
              THEN [daily |-> 1, monthly |-> kyc.monthly + 1, reset |-> exec[o].resetAt]
              ELSE [kyc EXCEPT !.daily = @ + 1, !.monthly = @ + 1]
    /\ UNCHANGED <<row, log, prov, day, req, lost, faults>>

\* Steps whose event is due next.
Unlogged == {"created", "refused", "attached"}

\* The process exits, or a database call throws, at any await.
ExecuteDies(o) ==
    /\ exec[o].pc \notin {"new", "done"} /\ Fault
    /\ exec' = [exec EXCEPT ![o] = [pc |-> "done", resetAt |-> 0]]
    /\ lost' = IF exec[o].pc \in Unlogged THEN lost \cup {o} ELSE lost
    /\ UNCHANGED <<row, log, prov, kyc, day, req>>

-----------------------------------------------------------------------------
(* Callbacks, polls and refunds.                                            *)

Becomes(h, r) == req' = [req EXCEPT ![h] = r]

Await(h, pc) == req[h].pc = pc

Others == <<prov, kyc, day, exec>>

\* The provider has reported every status that the order went through; a
\* callback may come late, twice, out of order or not at all.
Reported(o) ==
    CASE prov[o] = "none"     -> {}
      [] prov[o] = "refunded" -> {"processing", "completed", "refunded"}
      [] OTHER                -> {"processing", prov[o]}

\* Mutant of Webhook: a status the mapping does not know counts as completed.
WebhookDefaultsToCompleted(h, o) ==
    /\ Await(h, "idle") /\ row[o].ref /\ prov[o] # "none"
    /\ \E s \in Reported(o) :
         Becomes(h, [pc |-> "read", o |-> o, to |-> IF s = "processing" THEN "completed" ELSE s])
    /\ UNCHANGED <<row, log, lost, faults>> /\ UNCHANGED Others

\* POST /webhook/:provider finds the order by the provider's reference; before
\* that is attached the callback is acknowledged and dropped.
Webhook(h, o) ==
    /\ Await(h, "idle") /\ row[o].ref
    /\ \E s \in Reported(o) : Becomes(h, [pc |-> "read", o |-> o, to |-> s])
    /\ UNCHANGED <<row, log, lost, faults>> /\ UNCHANGED Others

\* GET /orders/:id of an order being processed asks the provider.
GetOrder(h, o) ==
    /\ Await(h, "idle") /\ row[o].status = "processing" /\ row[o].ref
    /\ Becomes(h, [pc |-> "sync", o |-> o])
    /\ UNCHANGED <<row, log, lost, faults>> /\ UNCHANGED Others

\* An order of runReconciliation()'s loop, with the status of its snapshot.
Reconcile(h, o) ==
    /\ Await(h, "idle") /\ row[o].ref
    /\ row[o].status \in {"processing", "completed", "failed", "pending"}
    /\ Becomes(h, [pc |-> "poll", o |-> o, seen |-> row[o].status])
    /\ UNCHANGED <<row, log, lost, faults>> /\ UNCHANGED Others

\* getProviderOrderStatus() answers: GET passes on what differs from
\* 'processing'; reconciliation heals only an open order, to completed or failed.
GetProviderOrderStatus(h) ==
    LET remote == prov[req[h].o]
        passOn == \/ Await(h, "sync") /\ remote # "processing"
                  \/ /\ Await(h, "poll") /\ remote \in {"completed", "failed"}
                     /\ req[h].seen \in {"processing", "pending"}
    IN  /\ Await(h, "sync") \/ Await(h, "poll")
        /\ Becomes(h, IF passOn THEN [pc |-> "read", o |-> req[h].o, to |-> remote] ELSE Idle)
        /\ UNCHANGED <<row, log, lost, faults>> /\ UNCHANGED Others

\* Mutant of TransitionRead: only a final status is kept from changing.
TransitionReadOpen(h) ==
    LET from == row[req[h].o].status
    IN  /\ Await(h, "read")
        /\ Becomes(h, IF from \notin {"failed", "refunded", req[h].to}
                      THEN [pc |-> "write", o |-> req[h].o, from |-> from, to |-> req[h].to]
                      ELSE Idle)
        /\ UNCHANGED <<row, log, lost, faults>> /\ UNCHANGED Others

\* transitionOrder(): the status is read and checked ...
TransitionRead(h) ==
    LET from == row[req[h].o].status
    IN  /\ Await(h, "read")
        /\ Becomes(h, IF <<from, req[h].to>> \in ALLOWED_TRANSITIONS
                      THEN [pc |-> "write", o |-> req[h].o, from |-> from, to |-> req[h].to]
                      ELSE Idle)
        /\ UNCHANGED <<row, log, lost, faults>> /\ UNCHANGED Others

\* ... the row is updated whatever its status is by then ...
TransitionWrite(h) ==
    LET r == req[h]
    IN  /\ Await(h, "write")
        /\ row' = [row EXCEPT ![r.o].status = r.to,
                              ![r.o].refund = IF r.to = "refunded" THEN "completed" ELSE @]
        /\ Becomes(h, [r EXCEPT !.pc = "append"])
        /\ UNCHANGED <<log, lost, faults>> /\ UNCHANGED Others

\* ... and the event is written.
TransitionAppend(h) ==
    /\ Await(h, "append")
    /\ AppendEvent(req[h].o, req[h].from, req[h].to)
    /\ Becomes(h, Idle)
    /\ UNCHANGED row /\ UNCHANGED Others

\* POST /refund of an order with a reference.  The request to the provider
\* goes out before markRefundInitiated() writes.
Refund(h, o) ==
    /\ Await(h, "idle") /\ row[o].ref
    /\ row[o].status \in {"completed", "failed", "processing"}
    /\ Becomes(h, [pc |-> "refund", o |-> o])
    /\ UNCHANGED <<row, log, lost, faults>> /\ UNCHANGED Others

\* Mutant of MarkRefundInitiated: writes the wrong column.
MarkStatusInitiated(h) ==
    /\ Await(h, "refund")
    /\ row' = [row EXCEPT ![req[h].o].status = "initiated"]
    /\ Becomes(h, [req[h] EXCEPT !.pc = "refunding"])
    /\ UNCHANGED <<log, lost, faults>> /\ UNCHANGED Others

MarkRefundInitiated(h) ==
    /\ Await(h, "refund")
    /\ row' = [row EXCEPT ![req[h].o].refund = "initiated"]
    /\ Becomes(h, [req[h] EXCEPT !.pc = "refunding"])
    /\ UNCHANGED <<log, lost, faults>> /\ UNCHANGED Others

LogRefundInitiated(h) ==
    LET status == row[req[h].o].status
    IN  /\ Await(h, "refunding")
        /\ AppendEvent(req[h].o, status, status)
        /\ Becomes(h, Idle)
        /\ UNCHANGED row /\ UNCHANGED Others

RequestDies(h) ==
    /\ ~Await(h, "idle") /\ Fault
    /\ Becomes(h, Idle)
    /\ lost' = IF req[h].pc = "append" THEN lost \cup {req[h].o} ELSE lost
    /\ UNCHANGED <<row, log>> /\ UNCHANGED Others

-----------------------------------------------------------------------------
(* The provider and the calendar.                                           *)

ProviderMoves(o) ==
    /\ \/ prov[o] = "processing" /\ \E s \in {"completed", "failed"} :
            prov' = [prov EXCEPT ![o] = s]
       \/ prov[o] = "completed" /\ prov' = [prov EXCEPT ![o] = "refunded"]
    /\ UNCHANGED <<row, log, kyc, day, exec, req, lost, faults>>

Midnight == /\ day <= MaxDays /\ day' = day + 1
            /\ UNCHANGED <<row, log, prov, kyc, exec, req, lost, faults>>

ExecuteStep(o) == \/ CheckKycAllowance(o) \/ CreateOrder(o) \/ LogCreated(o)
                  \/ GatewayExecuteOrder(o) \/ RefuseOrder(o) \/ LogRefused(o)
                  \/ AttachProviderOrderId(o) \/ LogAttached(o)
                  \/ ReadKycUsage(o) \/ RecordKycUsage(o) \/ ExecuteDies(o)

RequestStep(h) == \/ GetProviderOrderStatus(h) \/ TransitionRead(h)
                  \/ TransitionWrite(h) \/ TransitionAppend(h)
                  \/ MarkRefundInitiated(h) \/ LogRefundInitiated(h) \/ RequestDies(h)

Next == \/ \E o \in Orders : ExecuteStep(o)
        \/ \E o \in Followed : ProviderMoves(o)
        \/ \E h \in Handlers : RequestStep(h)
        \/ \E h \in Handlers, o \in Followed :
             Webhook(h, o) \/ GetOrder(h, o) \/ Reconcile(h, o) \/ Refund(h, o)
        \/ Midnight

Spec == Init /\ [][Next]_vars

-----------------------------------------------------------------------------
(* Properties.                                                              *)

Requests ==
    {Idle} \cup [pc : {"sync", "refund", "refunding"}, o : Orders]
           \cup [pc : {"poll"}, o : Orders, seen : Statuses]
           \cup [pc : {"read"}, o : Orders, to : Statuses]
           \cup [pc : {"write", "append"}, o : Orders, from : Statuses, to : Statuses]

\* Rows, requests and counters have their types.
TypeOK ==
    /\ row \in [Orders -> [status : Statuses \cup {"none"}, ref : BOOLEAN,
                           refund : {"none", "initiated", "completed"}]]
    /\ log \in [Orders -> SUBSET ((Statuses \cup {"none"}) \X Statuses)]
    /\ prov \in [Orders -> Statuses \cup {"none"}]
    /\ kyc \in [daily : Nat, monthly : Nat, reset : Nat]
    /\ day \in Nat
    /\ exec \in [Orders -> [pc : {"new", "create", "created", "place", "attach", "refuse",
                                  "refused", "attached", "usage", "record", "done"},
                            resetAt : Nat]]
    /\ req \in [Handlers -> Requests]
    /\ lost \subseteq Orders
    /\ faults \in 0 .. MaxFaults

Decided(s) == CASE s \in {"completed", "refunded"} -> "paid"
                [] s = "failed"                    -> "failed"
                [] OTHER                           -> "open"

Truth == [o \in Orders |-> Decided(prov[o])]

Outcome == [o \in Orders |-> IF row[o].status = "failed" /\ ~row[o].ref THEN "refused"
                             ELSE Decided(row[o].status)]

Abstract == INSTANCE RampOutcome WITH truth <- Truth, outcome <- Outcome

\* However callbacks, polls, reconciliation and refunds overlap, an order is
\* settled once: refused before it has a reference, or as the provider has
\* settled it (transitionOrder's unconditional writes never take this back).
SettledOnce == Abstract!Spec

\* The audit log has the status of every order, unless its event is due next,
\* failed to be written or died with its request.
AuditedStatus ==
    \A o \in Orders : row[o].status # "none" =>
      \/ o \in lost \/ exec[o].pc \in Unlogged
      \/ \E e \in log[o] : e[2] = row[o].status
      \/ \E h \in Handlers : req[h].pc = "append" /\ req[h].o = o /\ req[h].to = row[o].status

\* The monthly counter never runs ahead of the orders placed: it counts each
\* order with a reference at most once, across resets of the daily one, and
\* misses only those whose request has not recorded its usage.
MonthlyUsageCounts ==
    /\ kyc.monthly <= Cardinality({o \in Orders : row[o].ref})
    /\ faults = 0 => kyc.monthly =
         Cardinality({o \in Orders : row[o].ref /\ exec[o].pc = "done"})

\* The row moves along ALLOWED_TRANSITIONS, although transitionOrder() checks
\* one status and overwrites another.  The only way off the table is a callback
\* or poll that read 'processing', waited, and writes 'completed' over a refund.
TableExceptLateCompletion ==
    [][\A o \in Orders : LET move == <<row[o].status, row'[o].status>> IN
         \/ move[1] \in {"none", move[2]} \/ move \in ALLOWED_TRANSITIONS
         \/ /\ move = <<"refunded", "completed">>
            /\ \E h \in Handlers : /\ req[h].pc = "write" /\ req[h].o = o
                                    /\ req[h].from = "processing" /\ req[h].to = "completed"]_vars
=============================================================================
