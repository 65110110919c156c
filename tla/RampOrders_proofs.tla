-------------------------- MODULE RampOrders_proofs --------------------------
(***************************************************************************)
(* Proofs about RampOrders for any orders, requests, limits and bounds.     *)
(***************************************************************************)
EXTENDS RampOrders, FiniteSetTheorems, TLAPS

-----------------------------------------------------------------------------
(* The inductive invariant.                                                 *)

\* Status s is news of order o that the provider has given.
Agrees(o, s) == Decided(s) \in {"open", Decided(prov[o])}

\* Where POST /execute stands, and what the row and the provider have by then.
Placing ==
    \A o \in Orders :
      /\ exec[o].pc \in {"new", "create"} => row[o].status = "none"
      /\ exec[o].pc \in {"created", "place", "attach", "refuse"} => row[o].status = "pending"
      /\ exec[o].pc = "refused" => row[o].status = "failed"
      /\ exec[o].pc \in {"new", "create", "created", "place", "attach", "refuse", "refused"}
           => ~row[o].ref
      /\ exec[o].pc \in {"attached", "usage", "record"} => row[o].ref
      /\ exec[o].pc \in {"new", "create", "created", "place"} => prov[o] = "none"
      /\ exec[o].pc = "attach" => prov[o] # "none"

\* A row with a reference follows the provider.
Following ==
    \A o \in Orders :
      /\ row[o].ref => /\ row[o].status \in {"processing", "completed", "failed", "refunded"}
                       /\ Agrees(o, row[o].status)
                       /\ prov[o] # "none"
      /\ ~row[o].ref => row[o].status \in {"none", "pending", "failed"}

\* A request has an order with a reference; what it is to write is the
\* provider's, and off the open states.  The row is never behind what it read.
Requesting ==
    \A h \in Handlers : LET r == req[h] IN
      /\ r.pc # "idle" => row[r.o].ref
      /\ r.pc \in {"read", "write", "append"} => Agrees(r.o, r.to)
      /\ r.pc = "write" => /\ r.from \in {"processing", "completed"}
                           /\ <<r.from, r.to>> \in ALLOWED_TRANSITIONS
      /\ r.pc = "write" /\ r.from = "completed" =>
           row[r.o].status \in {"completed", "refunded"}

Inv == TypeOK /\ Placing /\ Following /\ Requesting

-----------------------------------------------------------------------------
(* Types.                                                                   *)

\* What a request at some stage holds.
LEMMA RequestTypes ==
    ASSUME TypeOK, NEW h \in Handlers
    PROVE  /\ req[h] \in Requests
           /\ req[h].pc # "idle" => req[h].o \in Orders
           /\ req[h].pc = "poll" => req[h].seen \in Statuses
           /\ req[h].pc \in {"read", "write", "append"} => req[h].to \in Statuses
           /\ req[h].pc \in {"write", "append"} => req[h].from \in Statuses
BY DEF TypeOK, Requests, Idle

LEMMA AppendTypes ==
    ASSUME TypeOK, NEW o \in Orders, NEW from \in Statuses \cup {"none"}, NEW to \in Statuses,
           AppendEvent(o, from, to)
    PROVE  /\ log' \in [Orders -> SUBSET ((Statuses \cup {"none"}) \X Statuses)]
           /\ lost' \subseteq Orders
           /\ faults' \in 0 .. MaxFaults
BY BoundsAssumption DEF TypeOK, AppendEvent, Fault

LEMMA TypeInit == Init => TypeOK
BY BoundsAssumption DEF Init, TypeOK, Requests, Idle

LEMMA ExecuteTypes ==
    ASSUME Inv, NEW o \in Orders, ExecuteStep(o)
    PROVE  TypeOK'
<1> USE BoundsAssumption DEF Inv
<1>1. CASE CheckKycAllowance(o)
  BY <1>1 DEF TypeOK, CheckKycAllowance, Exec
<1>2. CASE CreateOrder(o)
  BY <1>2 DEF TypeOK, CreateOrder, Exec, Statuses
<1>3. CASE LogCreated(o)
  <2>1. AppendEvent(o, "none", "pending")  BY <1>3 DEF LogCreated
  <2>2. "pending" \in Statuses  BY DEF Statuses
  <2>3. exec' = [exec EXCEPT ![o].pc = "place"]  BY <1>3 DEF LogCreated, Exec
  <2>4. QED  BY <1>3, <2>1, <2>2, <2>3, AppendTypes DEF TypeOK, LogCreated
<1>4. CASE GatewayExecuteOrder(o)
  <2>1. prov' \in [Orders -> Statuses \cup {"none"}]
    <3>1. prov' \in {prov, [prov EXCEPT ![o] = "processing"]}
      BY <1>4 DEF GatewayExecuteOrder
    <3>2. QED  BY <3>1 DEF TypeOK, Statuses
  <2>2. faults' \in 0 .. MaxFaults
    BY <1>4 DEF TypeOK, GatewayExecuteOrder, Fault
  <2>3. exec' \in {[exec EXCEPT ![o].pc = "attach"], [exec EXCEPT ![o].pc = "refuse"]}
    BY <1>4 DEF GatewayExecuteOrder, Exec
  <2>4. QED  BY <1>4, <2>1, <2>2, <2>3 DEF TypeOK, GatewayExecuteOrder
<1>5. CASE RefuseOrder(o)
  BY <1>5 DEF TypeOK, RefuseOrder, Exec, Statuses
<1>6. CASE LogRefused(o)
  <2>1. AppendEvent(o, "pending", "failed")  BY <1>6 DEF LogRefused
  <2>2. "pending" \in Statuses /\ "failed" \in Statuses  BY DEF Statuses
  <2>3. exec' = [exec EXCEPT ![o].pc = "done"]  BY <1>6 DEF LogRefused, Exec
  <2>4. QED  BY <1>6, <2>1, <2>2, <2>3, AppendTypes DEF TypeOK, LogRefused
<1>7. CASE AttachProviderOrderId(o)
  <2> DEFINE RowType == [status : Statuses \cup {"none"}, ref : BOOLEAN,
                         refund : {"none", "initiated", "completed"}]
             linked == [[row[o] EXCEPT !.status = "processing"] EXCEPT !.ref = TRUE]
  <2>1. row[o] \in RowType /\ row \in [Orders -> RowType]
    BY DEF TypeOK
  <2>2. [row[o] EXCEPT !.status = "processing"] \in RowType
    BY <2>1 DEF Statuses
  <2>3. linked \in RowType
    BY <2>2
  <2>4. row' \in [Orders -> RowType]
    <3> HIDE DEF RowType
    <3>1. row' = [row EXCEPT ![o] = linked]
      BY <1>7, <2>1 DEF AttachProviderOrderId
    <3>2. QED  BY <2>1, <2>3, <3>1
  <2>5. exec' = [exec EXCEPT ![o].pc = "attached"]
    BY <1>7 DEF AttachProviderOrderId, Exec
  <2>6. QED  BY <1>7, <2>4, <2>5 DEF TypeOK, AttachProviderOrderId
<1>8. CASE LogAttached(o)
  <2>1. AppendEvent(o, row[o].status, "processing")  BY <1>8 DEF LogAttached
  <2>2. "processing" \in Statuses /\ row[o].status \in Statuses \cup {"none"}
    BY DEF Statuses, TypeOK
  <2>3. exec' = [exec EXCEPT ![o].pc = "usage"]  BY <1>8 DEF LogAttached, Exec
  <2>4. QED  BY <1>8, <2>1, <2>2, <2>3, AppendTypes DEF TypeOK, LogAttached
<1>9. CASE ReadKycUsage(o)
  BY <1>9 DEF TypeOK, ReadKycUsage
<1>10. CASE RecordKycUsage(o)
  <2>1. kyc' \in [daily : Nat, monthly : Nat, reset : Nat]
    <3>1. CASE exec[o].resetAt > 0
      BY <1>10, <3>1 DEF TypeOK, RecordKycUsage
    <3>2. CASE ~(exec[o].resetAt > 0)
      <4> DEFINE KycType == [daily : Nat, monthly : Nat, reset : Nat]
                 day1 == [kyc EXCEPT !.daily = @ + 1]
      <4>1. kyc' = [day1 EXCEPT !.monthly = day1.monthly + 1]
        BY <1>10, <3>2 DEF RecordKycUsage, TypeOK
      <4>2. day1 \in KycType
        BY DEF TypeOK
      <4> HIDE DEF day1
      <4>3. QED  BY <4>1, <4>2
    <3>3. QED  BY <3>1, <3>2
  <2>2. exec' = [exec EXCEPT ![o] = [pc |-> "done", resetAt |-> 0]]
    BY <1>10 DEF RecordKycUsage
  <2>3. QED  BY <1>10, <2>1, <2>2 DEF TypeOK, RecordKycUsage
<1>11. CASE ExecuteDies(o)
  BY <1>11 DEF TypeOK, ExecuteDies, Fault
<1>12. QED
  BY <1>1, <1>2, <1>3, <1>4, <1>5, <1>6, <1>7, <1>8, <1>9, <1>10, <1>11 DEF ExecuteStep

\* A request goes on as r.
LEMMA BecomesTypes ==
    ASSUME TypeOK, NEW h \in Handlers, NEW r \in Requests, Becomes(h, r)
    PROVE  req' \in [Handlers -> Requests]
BY DEF TypeOK, Becomes

LEMMA RequestStepTypes ==
    ASSUME Inv, NEW h \in Handlers, RequestStep(h)
    PROVE  TypeOK'
<1> USE BoundsAssumption, RequestTypes, BecomesTypes DEF Inv
<1>0. Idle \in Requests  BY DEF Requests
<1>1. CASE GetProviderOrderStatus(h)
  <2>1. req[h].o \in Orders /\ prov[req[h].o] \in Statuses \cup {"none"}
    BY <1>1 DEF GetProviderOrderStatus, Await, TypeOK
  <2>2. prov[req[h].o] # "none"
    BY <1>1, <2>1 DEF GetProviderOrderStatus, Await, Requesting, Following
  <2>3. [pc |-> "read", o |-> req[h].o, to |-> prov[req[h].o]] \in Requests
    BY <2>1, <2>2 DEF Requests
  <2>4. req' \in [Handlers -> Requests]
    BY <1>0, <1>1, <2>3 DEF GetProviderOrderStatus
  <2>5. QED  BY <1>1, <2>4 DEF GetProviderOrderStatus, TypeOK, Others
<1>2. CASE TransitionRead(h)
  <2>1. req[h].o \in Orders /\ req[h].to \in Statuses /\ row[req[h].o].status \in Statuses \cup {"none"}
    BY <1>2 DEF TransitionRead, Await, TypeOK
  <2>2. <<row[req[h].o].status, req[h].to>> \in ALLOWED_TRANSITIONS => row[req[h].o].status \in Statuses
    BY DEF ALLOWED_TRANSITIONS, Statuses
  <2>3. [pc |-> "write", o |-> req[h].o, from |-> row[req[h].o].status, to |-> req[h].to] \in Requests
          \/ <<row[req[h].o].status, req[h].to>> \notin ALLOWED_TRANSITIONS
    BY <2>1, <2>2 DEF Requests
  <2>4. req' \in [Handlers -> Requests]
    BY <1>0, <1>2, <2>3 DEF TransitionRead
  <2>5. QED  BY <1>2, <2>4 DEF TransitionRead, TypeOK, Others
<1>3. CASE TransitionWrite(h)
  <2>1. req[h].o \in Orders /\ req[h].to \in Statuses /\ [req[h] EXCEPT !.pc = "append"] \in Requests
    BY <1>3 DEF TransitionWrite, Await, Requests, Idle
  <2>2. req' \in [Handlers -> Requests]
    BY <1>3, <2>1 DEF TransitionWrite
  <2>3. QED  BY <1>3, <2>1, <2>2 DEF TransitionWrite, TypeOK, Others
<1>4. CASE TransitionAppend(h)
  <2>1. req[h].o \in Orders /\ req[h].to \in Statuses /\ req[h].from \in Statuses
    BY <1>4 DEF TransitionAppend, Await
  <2>2. AppendEvent(req[h].o, req[h].from, req[h].to) /\ req' \in [Handlers -> Requests]
    BY <1>0, <1>4 DEF TransitionAppend
  <2>3. QED  BY <1>4, <2>1, <2>2, AppendTypes DEF TransitionAppend, TypeOK, Others
<1>5. CASE MarkRefundInitiated(h)
  <2>1. req[h].o \in Orders /\ [req[h] EXCEPT !.pc = "refunding"] \in Requests
    BY <1>5 DEF MarkRefundInitiated, Await, Requests, Idle
  <2>2. req' \in [Handlers -> Requests]
    BY <1>5, <2>1 DEF MarkRefundInitiated
  <2>3. QED  BY <1>5, <2>1, <2>2 DEF MarkRefundInitiated, TypeOK, Others
<1>6. CASE LogRefundInitiated(h)
  <2>1. req[h].o \in Orders /\ row[req[h].o].status \in Statuses
    BY <1>6 DEF LogRefundInitiated, Await, Requesting, Following, Statuses
  <2>2. /\ AppendEvent(req[h].o, row[req[h].o].status, row[req[h].o].status)
        /\ req' \in [Handlers -> Requests]
    BY <1>0, <1>6 DEF LogRefundInitiated
  <2>3. QED  BY <1>6, <2>1, <2>2, AppendTypes DEF LogRefundInitiated, TypeOK, Others
<1>7. CASE RequestDies(h)
  <2>1. req' \in [Handlers -> Requests]
    BY <1>0, <1>7 DEF RequestDies
  <2>2. QED  BY <1>7, <2>1 DEF RequestDies, TypeOK, Others, Fault, Await
<1>8. QED
  BY <1>1, <1>2, <1>3, <1>4, <1>5, <1>6, <1>7 DEF RequestStep

LEMMA OtherTypes ==
    ASSUME Inv, NEW o \in Orders
    PROVE  /\ ProviderMoves(o) => TypeOK'
           /\ Midnight => TypeOK'
           /\ \A h \in Handlers :
                Webhook(h, o) \/ GetOrder(h, o) \/ Reconcile(h, o) \/ Refund(h, o) => TypeOK'
<1> USE DEF Inv
<1>1. ASSUME ProviderMoves(o) PROVE TypeOK'
  <2>1. \E s \in Statuses : prov' = [prov EXCEPT ![o] = s]
    BY <1>1 DEF ProviderMoves, Statuses
  <2>2. QED  BY <1>1, <2>1 DEF TypeOK, ProviderMoves
<1>2. ASSUME Midnight PROVE TypeOK'
  BY <1>2 DEF TypeOK, Midnight
<1>3. ASSUME NEW h \in Handlers, Webhook(h, o) \/ GetOrder(h, o) \/ Reconcile(h, o) \/ Refund(h, o)
      PROVE  TypeOK'
  <2>1. \E r \in Requests : Becomes(h, r)
    <3>1. CASE Webhook(h, o)
      <4>1. PICK s \in Reported(o) : Becomes(h, [pc |-> "read", o |-> o, to |-> s])
        BY <3>1 DEF Webhook
      <4>2. s \in Statuses
        BY DEF TypeOK, Reported, Statuses
      <4>3. [pc |-> "read", o |-> o, to |-> s] \in Requests
        BY <4>2 DEF Requests
      <4>4. QED  BY <4>1, <4>3
    <3>2. CASE GetOrder(h, o) \/ Refund(h, o)
      <4>1. [pc |-> "sync", o |-> o] \in Requests /\ [pc |-> "refund", o |-> o] \in Requests
        BY DEF Requests
      <4>2. QED  BY <3>2, <4>1 DEF GetOrder, Refund
    <3>3. CASE Reconcile(h, o)
      <4>1. [pc |-> "poll", o |-> o, seen |-> row[o].status] \in Requests
        BY <3>3 DEF Requests, Reconcile, Statuses
      <4>2. QED  BY <3>3, <4>1 DEF Reconcile
    <3>4. QED  BY <1>3, <3>1, <3>2, <3>3
  <2>2. req' \in [Handlers -> Requests]
    BY <2>1, BecomesTypes
  <2>3. UNCHANGED <<row, log, lost, faults>> /\ UNCHANGED Others
    BY <1>3 DEF Webhook, GetOrder, Reconcile, Refund
  <2>4. QED  BY <2>2, <2>3 DEF TypeOK, Others
<1>4. QED  BY <1>1, <1>2, <1>3

LEMMA TypeStep ==
    ASSUME Inv, [Next]_vars
    PROVE  TypeOK'
<1>1. CASE UNCHANGED vars
  BY <1>1 DEF vars, Inv, TypeOK
<1>2. ASSUME Midnight PROVE TypeOK'
  BY <1>2 DEF Inv, TypeOK, Midnight
<1>3. QED
  BY <1>1, <1>2, FollowedAssumption, ExecuteTypes, RequestStepTypes, OtherTypes DEF Next

-----------------------------------------------------------------------------
(* The row, the requests and the provider.                                  *)

LEMMA InvInit == Init => Inv
<1> SUFFICES ASSUME Init PROVE Inv
  OBVIOUS
<1>1. Placing /\ Following /\ Requesting
  BY DEF Init, Placing, Following, Requesting, Idle
<1>2. QED  BY <1>1, TypeInit DEF Inv

\* The provider never takes back what it has decided.
LEMMA AgreesGrows ==
    ASSUME NEW o \in Orders, NEW s, Agrees(o, s),
           Decided(prov[o]) \in {"open", Decided(prov'[o])}
    PROVE  Agrees(o, s)'
BY DEF Agrees, Decided

LEMMA ExecuteKeeps ==
    ASSUME Inv, NEW o \in Orders, ExecuteStep(o)
    PROVE  Placing' /\ Following' /\ Requesting'
<1> USE DEF Inv
<1>0. Requesting => \A h \in Handlers : req[h].pc # "idle" => req[h].o \in Orders
  BY RequestTypes
<1>1. ASSUME UNCHANGED <<row, prov, req>>,
             \A p \in Orders \ {o} : exec'[p] = exec[p],
             \/ exec[o].pc = "new" /\ exec'[o].pc = "create"
             \/ exec[o].pc = "created" /\ exec'[o].pc = "place"
             \/ exec[o].pc \in {"attached", "usage"} /\ exec'[o].pc \in {"usage", "record"}
             \/ exec'[o].pc = "done"
      PROVE  Placing' /\ Following' /\ Requesting'
  <2>1. Following' /\ Requesting'
    BY <1>1 DEF Following, Requesting, Agrees
  <2>2. Placing'
    BY <1>1 DEF Placing, TypeOK
  <2>3. QED  BY <2>1, <2>2
<1>2. CASE CheckKycAllowance(o)
  <2>1. PICK pc \in {"create", "done"} : exec' = [exec EXCEPT ![o].pc = pc]
    BY <1>2 DEF CheckKycAllowance, Exec
  <2>2. exec'[o].pc = pc /\ \A p \in Orders \ {o} : exec'[p] = exec[p]
    BY <2>1 DEF TypeOK
  <2>3. exec[o].pc = "new" /\ UNCHANGED <<row, prov, req>>
    BY <1>2 DEF CheckKycAllowance, Exec
  <2>4. QED  BY <1>1, <2>1, <2>2, <2>3
<1>3. CASE LogCreated(o) \/ LogRefused(o) \/ LogAttached(o)
  BY <1>1, <1>3 DEF LogCreated, LogRefused, LogAttached, Exec, TypeOK
<1>4. CASE ReadKycUsage(o) \/ RecordKycUsage(o) \/ ExecuteDies(o)
  BY <1>1, <1>4 DEF ReadKycUsage, RecordKycUsage, ExecuteDies, TypeOK
<1>5. CASE CreateOrder(o)
  BY <1>0, <1>5 DEF CreateOrder, Exec, TypeOK, Placing, Following, Requesting, Agrees
<1>6. CASE RefuseOrder(o)
  BY <1>0, <1>6 DEF RefuseOrder, Exec, TypeOK, Placing, Following, Requesting, Agrees
<1>7. CASE GatewayExecuteOrder(o)
  <2>1. /\ prov[o] = "none" /\ ~row[o].ref /\ row[o].status = "pending"
        /\ UNCHANGED <<row, req>>
        /\ prov' \in {prov, [prov EXCEPT ![o] = "processing"]}
    BY <1>7 DEF GatewayExecuteOrder, Exec, Placing
  <2>2. \A p \in Orders : Decided(prov'[p]) = Decided(prov[p])
    BY <2>1 DEF Decided, TypeOK
  <2>3. Placing'
    <3>1. PICK pc \in {"attach", "refuse"} :
             exec' = [exec EXCEPT ![o].pc = pc] /\ (pc = "attach" => prov'[o] = "processing")
      BY <1>7 DEF GatewayExecuteOrder, Exec, TypeOK
    <3>2. exec'[o].pc = pc /\ \A p \in Orders \ {o} : exec'[p] = exec[p] /\ prov'[p] = prov[p]
      BY <2>1, <3>1 DEF TypeOK
    <3>3. QED  BY <2>1, <3>1, <3>2 DEF Placing
  <2>4. Following'
    BY <2>1, <2>2 DEF Following, Agrees, TypeOK
  <2>5. Requesting'
    BY <1>0, <2>1, <2>2 DEF Requesting, Agrees
  <2>6. QED  BY <2>3, <2>4, <2>5
<1>8. CASE AttachProviderOrderId(o)
  <2>1. /\ exec[o].pc = "attach" /\ row[o].status = "pending" /\ ~row[o].ref /\ prov[o] # "none"
        /\ exec' = [exec EXCEPT ![o].pc = "attached"]
        /\ UNCHANGED <<prov, req>>
    BY <1>8 DEF AttachProviderOrderId, Exec, Placing
  <2>2. /\ row'[o].status = "processing" /\ row'[o].ref
        /\ \A p \in Orders \ {o} : row'[p] = row[p]
    BY <1>8 DEF AttachProviderOrderId, TypeOK
  <2>3. Placing'
    BY <2>1, <2>2 DEF Placing, TypeOK
  <2>4. Following'
    BY <2>1, <2>2 DEF Following, Agrees, Decided
  <2>5. Requesting'
    BY <1>0, <2>1, <2>2 DEF Requesting, Agrees
  <2>6. QED  BY <2>3, <2>4, <2>5
<1>9. QED
  BY <1>2, <1>3, <1>4, <1>5, <1>6, <1>7, <1>8 DEF ExecuteStep

\* A request that begins or ends, or goes on without writing the row.
LEMMA ReadingKeeps ==
    ASSUME Inv, NEW h \in Handlers, NEW r \in Requests, Becomes(h, r),
           UNCHANGED <<row, prov, exec>>,
           r.pc # "idle" => row[r.o].ref,
           r.pc \in {"read", "write", "append"} => Agrees(r.o, r.to),
           r.pc = "write" => /\ r.from \in {"processing", "completed"}
                             /\ <<r.from, r.to>> \in ALLOWED_TRANSITIONS,
           r.pc = "write" /\ r.from = "completed" => row[r.o].status \in {"completed", "refunded"}
    PROVE  Placing' /\ Following' /\ Requesting'
<1>1. Placing' /\ Following'
  BY DEF Inv, Placing, Following, Agrees
<1>2. \A g \in Handlers : req'[g] = IF g = h THEN r ELSE req[g]
  BY DEF Inv, TypeOK, Becomes
<1>3. Requesting'
  BY <1>2 DEF Inv, Requesting, Agrees
<1>4. QED  BY <1>1, <1>3

\* What transitionOrder()'s update leaves in the rows.
LEMMA WriteRow ==
    ASSUME TypeOK, NEW h \in Handlers, TransitionWrite(h), row[req[h].o].ref
    PROVE  /\ row'[req[h].o].status = req[h].to
           /\ row'[req[h].o].ref /\ row'[req[h].o].ref = row[req[h].o].ref
           /\ \A p \in Orders \ {req[h].o} : row'[p] = row[p]
<1> DEFINE RowType == [status : Statuses \cup {"none"}, ref : BOOLEAN,
                       refund : {"none", "initiated", "completed"}]
           o == req[h].o
           mid == [row EXCEPT ![o].status = req[h].to]
<1>1. o \in Orders /\ req[h].to \in Statuses
  BY RequestTypes DEF TransitionWrite, Await
<1>2. row' = [mid EXCEPT ![o].refund = IF req[h].to = "refunded" THEN "completed" ELSE mid[o].refund]
  BY DEF TransitionWrite
<1>3. row \in [Orders -> RowType]
  BY DEF TypeOK
<1>4. mid \in [Orders -> RowType]
  BY <1>1, <1>3
<1>5. mid[o].status = req[h].to /\ mid[o].ref = row[o].ref /\ \A p \in Orders \ {o} : mid[p] = row[p]
  BY <1>1, <1>3
<1> HIDE DEF mid
<1>6. /\ row'[o].status = mid[o].status /\ row'[o].ref = mid[o].ref
      /\ \A p \in Orders \ {o} : row'[p] = mid[p]
  BY <1>1, <1>2, <1>4
<1>7. QED  BY <1>5, <1>6

LEMMA RequestKeeps ==
    ASSUME Inv, NEW h \in Handlers, RequestStep(h)
    PROVE  Placing' /\ Following' /\ Requesting'
<1> USE RequestTypes DEF Inv
<1>0. Idle \in Requests /\ Idle.pc = "idle"
  BY DEF Requests, Idle
<1>1. CASE GetProviderOrderStatus(h)
  <2> DEFINE next == [pc |-> "read", o |-> req[h].o, to |-> prov[req[h].o]]
  <2>1. req[h].o \in Orders /\ row[req[h].o].ref /\ prov[req[h].o] \in Statuses
    BY <1>1 DEF GetProviderOrderStatus, Await, Requesting, Following, TypeOK
  <2>2. next \in Requests /\ Agrees(req[h].o, prov[req[h].o])
    BY <2>1 DEF Requests, Agrees
  <2>3. UNCHANGED <<row, prov, exec>> /\ (Becomes(h, next) \/ Becomes(h, Idle))
    BY <1>1 DEF GetProviderOrderStatus, Others
  <2>4. QED  BY <1>0, <2>1, <2>2, <2>3, ReadingKeeps
<1>2. CASE TransitionRead(h)
  <2> DEFINE from == row[req[h].o].status
             next == [pc |-> "write", o |-> req[h].o, from |-> from, to |-> req[h].to]
  <2>1. req[h].o \in Orders /\ req[h].to \in Statuses /\ row[req[h].o].ref /\ Agrees(req[h].o, req[h].to)
    BY <1>2 DEF TransitionRead, Await, Requesting
  <2>2. UNCHANGED <<row, prov, exec>>
    BY <1>2 DEF TransitionRead, Others
  <2>3. CASE <<from, req[h].to>> \in ALLOWED_TRANSITIONS
    <3>1. Becomes(h, next)
      BY <1>2, <2>3 DEF TransitionRead
    <3>2. from \in {"processing", "completed"}
      BY <2>1, <2>3 DEF ALLOWED_TRANSITIONS, Following
    <3>3. next \in Requests
      BY <2>1, <3>2 DEF Requests, Statuses
    <3>4. QED  BY <2>1, <2>2, <2>3, <3>1, <3>2, <3>3, ReadingKeeps
  <2>4. CASE <<from, req[h].to>> \notin ALLOWED_TRANSITIONS
    BY <1>0, <1>2, <2>2, <2>4, ReadingKeeps DEF TransitionRead
  <2>5. QED  BY <2>3, <2>4
<1>3. CASE TransitionWrite(h)
  <2> DEFINE o == req[h].o
             to == req[h].to
  <2>1. /\ o \in Orders /\ to \in Statuses /\ row[o].ref /\ Agrees(o, to)
        /\ to \in {"completed", "failed", "refunded"}
        /\ req[h].from \in {"processing", "completed"}
        /\ <<req[h].from, to>> \in ALLOWED_TRANSITIONS
        /\ req[h].from = "completed" => row[o].status \in {"completed", "refunded"}
    BY <1>3 DEF TransitionWrite, Await, Requesting, ALLOWED_TRANSITIONS
  <2>2. /\ row'[o].status = to /\ row'[o].ref
        /\ \A p \in Orders \ {o} : row'[p] = row[p]
    BY <1>3, <2>1, WriteRow
  <2>3. /\ req'[h].pc = "append" /\ req'[h].o = o /\ req'[h].to = to
        /\ \A g \in Handlers \ {h} : req'[g] = req[g]
        /\ UNCHANGED <<prov, exec>>
    BY <1>3 DEF TransitionWrite, Becomes, TypeOK, Others, Await, Requests, Idle
  <2>4. Decided(prov[o]) = Decided(to) /\ Decided(to) # "open" /\ prov[o] # "none"
    BY <2>1 DEF Agrees, Decided, Following
  <2>5. Placing'
    BY <2>1, <2>2, <2>3 DEF Placing
  <2>6. Following'
    BY <2>1, <2>2, <2>3, <2>4 DEF Following, Agrees
  <2>7. ASSUME NEW g \in Handlers, req[g].pc = "write", req[g].from = "completed", req[g].o = o
        PROVE  to \in {"completed", "refunded"}
    <3>1. req[g].to = "refunded" /\ Agrees(o, "refunded")
      BY <2>7 DEF Requesting, ALLOWED_TRANSITIONS
    <3>2. QED  BY <2>1, <2>4, <3>1 DEF Agrees, Decided
  <2>8. Requesting'
    BY <2>1, <2>2, <2>3, <2>7 DEF Requesting, Agrees
  <2>9. QED  BY <2>5, <2>6, <2>8
<1>4. CASE TransitionAppend(h) \/ LogRefundInitiated(h) \/ RequestDies(h)
  <2>1. UNCHANGED <<row, prov, exec>> /\ Becomes(h, Idle)
    BY <1>4 DEF TransitionAppend, LogRefundInitiated, RequestDies, Others
  <2>2. QED  BY <1>0, <2>1, ReadingKeeps
<1>5. CASE MarkRefundInitiated(h)
  <2>1. req[h].o \in Orders /\ row[req[h].o].ref
    BY <1>5 DEF MarkRefundInitiated, Await, Requesting
  <2>2. \A p \in Orders : row'[p].status = row[p].status /\ row'[p].ref = row[p].ref
    BY <1>5, <2>1 DEF MarkRefundInitiated, TypeOK
  <2>3. /\ req'[h].pc = "refunding" /\ req'[h].o = req[h].o
        /\ \A g \in Handlers \ {h} : req'[g] = req[g]
        /\ UNCHANGED <<prov, exec>>
    BY <1>5 DEF MarkRefundInitiated, Becomes, TypeOK, Others, Await, Requests, Idle
  <2>4. Placing' /\ Following'
    BY <2>2, <2>3 DEF Placing, Following, Agrees
  <2>5. Requesting'
    BY <2>1, <2>2, <2>3 DEF Requesting, Agrees
  <2>6. QED  BY <2>4, <2>5
<1>6. QED
  BY <1>1, <1>2, <1>3, <1>4, <1>5 DEF RequestStep

LEMMA OtherKeeps ==
    ASSUME Inv, NEW o \in Orders
    PROVE  /\ ProviderMoves(o) => Placing' /\ Following' /\ Requesting'
           /\ \A h \in Handlers :
                Webhook(h, o) \/ GetOrder(h, o) \/ Reconcile(h, o) \/ Refund(h, o)
                  => Placing' /\ Following' /\ Requesting'
<1> USE DEF Inv
<1>1. ASSUME ProviderMoves(o) PROVE Placing' /\ Following' /\ Requesting'
  <2>1. /\ UNCHANGED <<row, exec, req>> /\ prov[o] # "none" /\ prov'[o] # "none"
        /\ \A p \in Orders \ {o} : prov'[p] = prov[p]
        /\ Decided(prov[o]) \in {"open", Decided(prov'[o])}
    BY <1>1 DEF ProviderMoves, Decided, TypeOK
  <2>2. \A p \in Orders : \A s : Agrees(p, s) => Agrees(p, s)'
    BY <2>1, AgreesGrows DEF Agrees
  <2>3. \A h \in Handlers : req[h].pc # "idle" => req[h].o \in Orders
    BY RequestTypes
  <2>4. Placing'
    BY <2>1 DEF Placing
  <2>5. Following'
    BY <2>1, <2>2 DEF Following
  <2>6. Requesting'
    BY <2>1, <2>2, <2>3 DEF Requesting
  <2>7. QED  BY <2>4, <2>5, <2>6
<1>2. ASSUME NEW h \in Handlers, Webhook(h, o)
      PROVE  Placing' /\ Following' /\ Requesting'
  <2>1. PICK s \in Reported(o) : Becomes(h, [pc |-> "read", o |-> o, to |-> s])
    BY <1>2 DEF Webhook
  <2>2. s \in Statuses /\ Agrees(o, s)
    BY DEF TypeOK, Reported, Statuses, Agrees, Decided
  <2>3. [pc |-> "read", o |-> o, to |-> s] \in Requests
    BY <2>2 DEF Requests
  <2>4. row[o].ref /\ UNCHANGED <<row, prov, exec>>
    BY <1>2 DEF Webhook, Others
  <2>5. QED  BY <2>1, <2>2, <2>3, <2>4, ReadingKeeps
<1>3. ASSUME NEW h \in Handlers, GetOrder(h, o) \/ Reconcile(h, o) \/ Refund(h, o)
      PROVE  Placing' /\ Following' /\ Requesting'
  <2>1. row[o].ref /\ UNCHANGED <<row, prov, exec>>
    BY <1>3 DEF GetOrder, Reconcile, Refund, Others
  <2>2. PICK r \in Requests : Becomes(h, r) /\ r.o = o /\ r.pc \in {"sync", "poll", "refund"}
    <3>1. /\ [pc |-> "sync", o |-> o] \in Requests /\ [pc |-> "refund", o |-> o] \in Requests
          /\ row[o].status \in Statuses => [pc |-> "poll", o |-> o, seen |-> row[o].status] \in Requests
      BY DEF Requests
    <3>2. QED  BY <1>3, <3>1 DEF GetOrder, Reconcile, Refund, Statuses
  <2>3. QED  BY <2>1, <2>2, ReadingKeeps
<1>4. QED  BY <1>1, <1>2, <1>3

LEMMA InvStep ==
    ASSUME Inv, [Next]_vars
    PROVE  Inv'
<1>1. CASE Midnight \/ UNCHANGED vars
  <2>1. UNCHANGED <<row, prov, exec, req>>
    BY <1>1 DEF Midnight, vars
  <2>2. Placing' /\ Following' /\ Requesting'
    BY <2>1 DEF Inv, Placing, Following, Requesting, Agrees
  <2>3. QED  BY <2>2, TypeStep DEF Inv
<1>2. CASE ~(Midnight \/ UNCHANGED vars)
  <2>1. Placing' /\ Following' /\ Requesting'
    BY <1>2, FollowedAssumption, ExecuteKeeps, RequestKeeps, OtherKeeps DEF Next
  <2>2. QED  BY <2>1, TypeStep DEF Inv
<1>3. QED  BY <1>1, <1>2

LEMMA Invariant == Spec => []Inv
BY InvInit, InvStep, PTL DEF Spec

\* Rows, events, counters and requests keep their types.
THEOREM RampTypes == Spec => []TypeOK
<1>1. Inv => TypeOK  BY DEF Inv
<1>2. QED  BY <1>1, Invariant, PTL

-----------------------------------------------------------------------------
(* The order is settled once.                                               *)

\* A step that changes neither what the provider has decided nor what the
\* platform says.
LEMMA Stutters ==
    ASSUME \A o \in Orders : Decided(prov'[o]) = Decided(prov[o]),
           \A o \in Orders : row'[o].status = row[o].status /\ row'[o].ref = row[o].ref
    PROVE  UNCHANGED <<Truth, Outcome>>
BY DEF Truth, Outcome

\* What one order looks like, before and after a step.
LEMMA OneOrder ==
    ASSUME NEW o \in Orders
    PROVE  /\ Truth[o] = Decided(prov[o]) /\ Truth'[o] = Decided(prov'[o])
           /\ Outcome[o] = IF row[o].status = "failed" /\ ~row[o].ref THEN "refused"
                           ELSE Decided(row[o].status)
           /\ Outcome'[o] = IF row'[o].status = "failed" /\ ~row'[o].ref THEN "refused"
                            ELSE Decided(row'[o].status)
BY DEF Truth, Outcome

\* An order whose outcome changes is settled: refused, or as the provider says.
LEMMA SettleStep ==
    ASSUME NEW o \in Orders, prov' = prov, \A p \in Orders \ {o} : row'[p] = row[p],
           Outcome[o] = "open", Outcome'[o] # "open",
           Outcome'[o] \in {Truth[o], "refused"}
    PROVE  Abstract!Next
<1>1. Truth' = Truth
  BY DEF Truth
<1>2. Outcome' = [Outcome EXCEPT ![o] = Outcome'[o]]
  <2>1. \A p \in Orders \ {o} : Outcome'[p] = Outcome[p]
    BY DEF Outcome
  <2>2. Outcome = [p \in Orders |-> Outcome[p]] /\ Outcome' = [p \in Orders |-> Outcome'[p]]
    BY DEF Outcome
  <2>3. QED  BY <2>1, <2>2
<1>3. Outcome'[o] \in {"open", "refused", "paid", "failed"}
  BY DEF Outcome, Decided
<1>4. Abstract!Settle(o, Outcome'[o])
  BY <1>1, <1>2 DEF Abstract!Settle
<1>5. QED  BY <1>3, <1>4 DEF Abstract!Next, Abstract!Outcomes

LEMMA DecideStep ==
    ASSUME Inv, NEW o \in Orders, ProviderMoves(o)
    PROVE  Abstract!Next \/ UNCHANGED <<Truth, Outcome>>
<1> USE DEF Inv
<1>1. row' = row /\ Outcome' = Outcome
  BY DEF ProviderMoves, Outcome
<1>2. CASE prov[o] = "completed"
  <2>1. \A p \in Orders : Decided(prov'[p]) = Decided(prov[p])
    BY <1>2 DEF ProviderMoves, Decided, TypeOK
  <2>2. QED  BY <1>1, <2>1, Stutters
<1>3. CASE prov[o] = "processing"
  <2>1. PICK s \in {"completed", "failed"} : prov' = [prov EXCEPT ![o] = s]
    BY <1>3 DEF ProviderMoves
  <2>2. Truth[o] = "open" /\ Decided(s) \in {"paid", "failed"}
    BY <1>3 DEF Truth, Decided
  <2>3. Truth' = [Truth EXCEPT ![o] = Decided(s)]
    <3>1. \A p \in Orders : prov'[p] = IF p = o THEN s ELSE prov[p]
      BY <2>1 DEF TypeOK
    <3>2. QED  BY <3>1 DEF Truth
  <2>4. Abstract!Decide(o, Decided(s)) /\ Truth'[o] # Truth[o]
    BY <1>1, <2>2, <2>3 DEF Abstract!Decide, Truth
  <2>5. QED  BY <2>2, <2>4 DEF Abstract!Next
<1>4. QED  BY <1>2, <1>3 DEF ProviderMoves

LEMMA ExecuteRefines ==
    ASSUME Inv, NEW o \in Orders, ExecuteStep(o)
    PROVE  Abstract!Next \/ UNCHANGED <<Truth, Outcome>>
<1> USE DEF Inv
<1>1. CASE UNCHANGED <<row, prov>>
  BY <1>1, Stutters
<1>2. CASE GatewayExecuteOrder(o)
  <2>1. /\ prov[o] = "none" /\ row' = row
        /\ prov' \in {prov, [prov EXCEPT ![o] = "processing"]}
    BY <1>2 DEF GatewayExecuteOrder, Exec, Placing
  <2>2. \A p \in Orders : Decided(prov'[p]) = Decided(prov[p])
    BY <2>1 DEF Decided, TypeOK
  <2>3. QED  BY <2>1, <2>2, Stutters
<1>3. CASE CreateOrder(o) \/ AttachProviderOrderId(o)
  <2>1. /\ prov' = prov /\ row[o].status \in {"none", "pending"}
        /\ row'[o].status \in {"pending", "processing"}
        /\ \A p \in Orders \ {o} : row'[p] = row[p]
    BY <1>3 DEF CreateOrder, AttachProviderOrderId, Exec, Placing, TypeOK
  <2>2. Truth' = Truth /\ Outcome' = Outcome
    BY <2>1 DEF Truth, Outcome, Decided
  <2>3. QED  BY <2>2
<1>4. CASE RefuseOrder(o)
  <2>1. /\ prov' = prov /\ row[o].status = "pending" /\ ~row[o].ref
        /\ row'[o].status = "failed" /\ ~row'[o].ref
        /\ \A p \in Orders \ {o} : row'[p] = row[p]
    BY <1>4 DEF RefuseOrder, Exec, Placing, TypeOK
  <2>2. Outcome[o] = "open" /\ Outcome'[o] = "refused"
    BY <2>1, OneOrder DEF Decided
  <2>3. QED  BY <2>1, <2>2, SettleStep
<1>5. QED
  BY <1>1, <1>2, <1>3, <1>4
     DEF ExecuteStep, CheckKycAllowance, LogCreated, LogRefused, LogAttached, ReadKycUsage,
         RecordKycUsage, ExecuteDies

\* A write of transitionOrder() settles an open order as the provider has, or
\* repeats what was settled.
LEMMA WriteRefines ==
    ASSUME Inv, NEW h \in Handlers, TransitionWrite(h)
    PROVE  Abstract!Next \/ UNCHANGED <<Truth, Outcome>>
<1> USE RequestTypes DEF Inv
<1> DEFINE o == req[h].o
           to == req[h].to
<1>1. /\ o \in Orders /\ row[o].ref /\ Agrees(o, to) /\ to \in {"completed", "failed", "refunded"}
      /\ prov' = prov
  BY DEF TransitionWrite, Await, Requesting, ALLOWED_TRANSITIONS, Others
<1>2. row'[o].status = to /\ row'[o].ref /\ \A p \in Orders \ {o} : row'[p] = row[p]
  BY <1>1, WriteRow
<1>3. Decided(to) # "open" /\ Decided(to) = Decided(prov[o])
  BY <1>1 DEF Agrees, Decided
<1>4. Outcome[o] = Decided(row[o].status) /\ Outcome'[o] = Decided(to) /\ Truth[o] = Decided(to)
  BY <1>1, <1>2, <1>3, OneOrder
<1>5. CASE Outcome[o] = "open"
  BY <1>1, <1>2, <1>3, <1>4, <1>5, SettleStep
<1>6. CASE Outcome[o] # "open"
  <2>1. Decided(row[o].status) = Decided(to)
    BY <1>1, <1>3, <1>4, <1>6 DEF Following, Agrees
  <2>2. Truth' = Truth /\ Outcome' = Outcome
    BY <1>1, <1>2, <2>1 DEF Truth, Outcome
  <2>3. QED  BY <2>2
<1>7. QED  BY <1>5, <1>6

\* However callbacks, polls, reconciliation, refunds, crashes and errors
\* overlap, every order is settled once: refused before it has a reference, or
\* with the outcome its provider has reached.
THEOREM OrdersSettleOnce == Spec => SettledOnce
<1>1. Init => Abstract!Init
  BY DEF Init, Abstract!Init, Truth, Outcome, Decided
<1>2. Inv /\ [Next]_vars => [Abstract!Next]_<<Truth, Outcome>>
  <2> SUFFICES ASSUME Inv, [Next]_vars
               PROVE  Abstract!Next \/ UNCHANGED <<Truth, Outcome>>
    OBVIOUS
  <2>1. CASE UNCHANGED <<row, prov>>
    BY <2>1, Stutters
  <2>2. ASSUME NEW h \in Handlers, RequestStep(h)
        PROVE  Abstract!Next \/ UNCHANGED <<Truth, Outcome>>
    <3>1. CASE MarkRefundInitiated(h)
      <4>1. \A p \in Orders : row'[p].status = row[p].status /\ row'[p].ref = row[p].ref
        BY <3>1, RequestTypes DEF MarkRefundInitiated, Await, Inv, TypeOK
      <4>2. QED  BY <3>1, <4>1, Stutters DEF MarkRefundInitiated, Others
    <3>2. QED
      BY <2>1, <2>2, <3>1, WriteRefines
         DEF RequestStep, GetProviderOrderStatus, TransitionRead, TransitionAppend,
             LogRefundInitiated, RequestDies, Others
  <2>3. QED
    BY <2>1, <2>2, FollowedAssumption, ExecuteRefines, DecideStep
       DEF Next, vars, Midnight, Webhook, GetOrder, Reconcile, Refund, Others
<1>3. QED
  BY <1>1, <1>2, Invariant, PTL DEF Spec, SettledOnce, Abstract!Spec

-----------------------------------------------------------------------------
(* The transition table.                                                    *)

\* Only four steps change a status.
LEMMA StatusKept ==
    ASSUME Inv, [Next]_vars, NEW o \in Orders, row'[o].status # row[o].status
    PROVE  \/ CreateOrder(o) \/ RefuseOrder(o) \/ AttachProviderOrderId(o)
           \/ \E h \in Handlers : TransitionWrite(h) /\ req[h].o = o
<1> USE DEF Inv
<1>1. row' # row
  OBVIOUS
<1>2. ASSUME NEW p \in Orders, CreateOrder(p) \/ RefuseOrder(p) \/ AttachProviderOrderId(p)
      PROVE  p = o
  BY <1>2 DEF CreateOrder, RefuseOrder, AttachProviderOrderId, TypeOK
<1>3. ASSUME NEW h \in Handlers, MarkRefundInitiated(h)
      PROVE  FALSE
  BY <1>3, RequestTypes DEF MarkRefundInitiated, Await, TypeOK
<1>4. ASSUME NEW h \in Handlers, TransitionWrite(h)
      PROVE  req[h].o = o
  BY <1>4, WriteRow DEF TransitionWrite, Await, Requesting
<1>5. QED
  BY <1>1, <1>2, <1>3, <1>4
     DEF Next, vars, ExecuteStep, RequestStep, CheckKycAllowance, LogCreated, GatewayExecuteOrder,
         LogRefused, LogAttached, ReadKycUsage, RecordKycUsage, ExecuteDies, GetProviderOrderStatus,
         TransitionRead, TransitionAppend, LogRefundInitiated, RequestDies, ProviderMoves, Midnight,
         Webhook, GetOrder, Reconcile, Refund, Others

\* A status moves along ALLOWED_TRANSITIONS although transitionOrder() checks
\* one status and overwrites another; the one exception is the completion that
\* was read before a refund and written after it.
THEOREM TableIsKept == Spec => TableExceptLateCompletion
<1> DEFINE Move(o) ==
      LET move == <<row[o].status, row'[o].status>> IN
         \/ move[1] \in {"none", move[2]} \/ move \in ALLOWED_TRANSITIONS
         \/ /\ move = <<"refunded", "completed">>
            /\ \E h \in Handlers : /\ req[h].pc = "write" /\ req[h].o = o
                                    /\ req[h].from = "processing" /\ req[h].to = "completed"
<1>1. ASSUME Inv, [Next]_vars, NEW o \in Orders PROVE Move(o)
  <2> USE <1>1 DEF Inv
  <2>1. CASE row'[o].status = row[o].status
    BY <2>1
  <2>2. CASE CreateOrder(o) \/ RefuseOrder(o) \/ AttachProviderOrderId(o)
    <3>1. \/ row[o].status = "none"
          \/ row[o].status = "pending" /\ row'[o].status \in {"failed", "processing"}
      BY <2>2 DEF CreateOrder, RefuseOrder, AttachProviderOrderId, Exec, Placing, TypeOK
    <3>2. QED  BY <3>1 DEF ALLOWED_TRANSITIONS
  <2>3. ASSUME NEW h \in Handlers, TransitionWrite(h), req[h].o = o PROVE Move(o)
    <3> DEFINE to == req[h].to
    <3>1. /\ req[h].pc = "write" /\ row[o].ref /\ Agrees(o, to)
          /\ req[h].from \in {"processing", "completed"}
          /\ <<req[h].from, to>> \in ALLOWED_TRANSITIONS
          /\ req[h].from = "completed" => row[o].status \in {"completed", "refunded"}
      BY <2>3 DEF TransitionWrite, Await, Requesting
    <3>2. row'[o].status = to
      BY <2>3, <3>1, WriteRow
    <3>3. row[o].status \in {"processing", "completed", "failed", "refunded"} /\ Agrees(o, row[o].status)
      BY <3>1 DEF Following
    <3>4. CASE to = "failed"
      <4>1. row[o].status \in {"processing", "failed"}
        BY <3>1, <3>3, <3>4 DEF Agrees, Decided
      <4>2. QED  BY <3>2, <3>4, <4>1 DEF ALLOWED_TRANSITIONS
    <3>5. CASE to = "refunded"
      <4>1. row[o].status \in {"completed", "refunded"}
        BY <3>1, <3>5 DEF ALLOWED_TRANSITIONS
      <4>2. QED  BY <3>2, <3>5, <4>1 DEF ALLOWED_TRANSITIONS
    <3>6. CASE to = "completed"
      <4>1. row[o].status \in {"processing", "completed", "refunded"} /\ req[h].from = "processing"
        BY <3>1, <3>3, <3>6 DEF Agrees, Decided, ALLOWED_TRANSITIONS
      <4>2. QED  BY <2>3, <3>1, <3>2, <3>6, <4>1 DEF ALLOWED_TRANSITIONS
    <3>7. QED  BY <3>1, <3>4, <3>5, <3>6 DEF ALLOWED_TRANSITIONS
  <2>4. QED  BY <2>1, <2>2, <2>3, StatusKept
<1>2. Inv /\ [Next]_vars => [\A o \in Orders : Move(o)]_vars
  BY <1>1
<1>3. QED  BY <1>2, Invariant, PTL DEF Spec, TableExceptLateCompletion

-----------------------------------------------------------------------------
(* The usage counter.                                                       *)

Counted == {o \in Orders : row[o].ref /\ exec[o].pc = "done"}

CountInv == /\ kyc.monthly <= Cardinality(Counted)
            /\ faults = 0 => kyc.monthly = Cardinality(Counted)

LEMMA CountedFinite ==
    ASSUME NEW S \in SUBSET Orders
    PROVE  IsFiniteSet(S) /\ Cardinality(S) \in Nat
BY OrdersAssumption, FS_Subset, FS_CardinalityType

LEMMA CountInit == Init => CountInv
<1> SUFFICES ASSUME Init PROVE CountInv
  OBVIOUS
<1>1. Counted = {}
  BY DEF Init, Counted
<1>2. QED  BY <1>1, FS_EmptySet DEF Init, CountInv

LEMMA CountStep ==
    ASSUME Inv, CountInv, [Next]_vars
    PROVE  CountInv'
<1> USE DEF Inv
<1>0. /\ Counted \in SUBSET Orders /\ Counted' \in SUBSET Orders
      /\ kyc.monthly \in Nat /\ faults \in Nat
  BY DEF Counted, TypeOK
<1>1. ASSUME Counted' = Counted, kyc' = kyc, faults' = faults \/ faults' = faults + 1
      PROVE  CountInv'
  BY <1>0, <1>1 DEF CountInv
<1>2. ASSUME NEW o \in Orders, RecordKycUsage(o)
      PROVE  CountInv'
  <2>1. kyc'.monthly = kyc.monthly + 1 /\ faults' = faults
    BY <1>2 DEF RecordKycUsage, TypeOK
  <2>2. o \notin Counted /\ Counted' = Counted \cup {o}
    BY <1>2 DEF RecordKycUsage, Counted, Placing, TypeOK
  <2>3. Cardinality(Counted') = Cardinality(Counted) + 1
    BY <1>0, <2>2, CountedFinite, FS_AddElement
  <2>4. QED  BY <1>0, <2>1, <2>3, CountedFinite DEF CountInv
<1>3. ASSUME NEW o \in Orders, ExecuteDies(o)
      PROVE  CountInv'
  <2>1. kyc' = kyc /\ faults' = faults + 1
    BY <1>3 DEF ExecuteDies, Fault
  <2>2. Counted \subseteq Counted'
    BY <1>3 DEF ExecuteDies, Counted, TypeOK
  <2>3. Cardinality(Counted) <= Cardinality(Counted')
    BY <1>0, <2>2, CountedFinite, FS_Subset
  <2>4. QED  BY <1>0, <2>1, <2>3, CountedFinite DEF CountInv
<1>4. ASSUME NEW o \in Orders, ExecuteStep(o), ~RecordKycUsage(o), ~ExecuteDies(o)
      PROVE  CountInv'
  <2>1. kyc' = kyc
    BY <1>4 DEF ExecuteStep, CheckKycAllowance, CreateOrder, LogCreated, GatewayExecuteOrder,
                RefuseOrder, LogRefused, AttachProviderOrderId, LogAttached, ReadKycUsage
  <2>2. faults' = faults \/ faults' = faults + 1
    BY <1>4 DEF ExecuteStep, CheckKycAllowance, CreateOrder, LogCreated, GatewayExecuteOrder, AppendEvent,
                RefuseOrder, LogRefused, AttachProviderOrderId, LogAttached, ReadKycUsage, Fault
  <2>3. /\ \A p \in Orders \ {o} : row'[p] = row[p] /\ exec'[p] = exec[p]
        /\ exec[o].pc # "done"
        /\ exec'[o].pc = "done" => ~row'[o].ref
    <3>1. CASE CheckKycAllowance(o)
      BY <3>1 DEF CheckKycAllowance, Exec, Placing, TypeOK
    <3>2. CASE CreateOrder(o) \/ RefuseOrder(o)
      BY <3>2 DEF CreateOrder, RefuseOrder, Exec, Placing, TypeOK
    <3>3. CASE LogCreated(o) \/ LogRefused(o) \/ LogAttached(o)
      BY <3>3 DEF LogCreated, LogRefused, LogAttached, Exec, Placing, TypeOK
    <3>4. CASE GatewayExecuteOrder(o)
      BY <3>4 DEF GatewayExecuteOrder, Exec, Placing, TypeOK
    <3>5. CASE AttachProviderOrderId(o) \/ ReadKycUsage(o)
      BY <3>5 DEF AttachProviderOrderId, ReadKycUsage, Exec, Placing, TypeOK
    <3>6. QED  BY <1>4, <3>1, <3>2, <3>3, <3>4, <3>5 DEF ExecuteStep
  <2>4. Counted' = Counted
    BY <2>3 DEF Counted
  <2>5. QED  BY <1>1, <2>1, <2>2, <2>4
<1>5. ASSUME UNCHANGED <<kyc, exec>>, faults' = faults \/ faults' = faults + 1,
             \A p \in Orders : row'[p].ref = row[p].ref
      PROVE  CountInv'
  <2>1. Counted' = Counted
    BY <1>5 DEF Counted
  <2>2. QED  BY <1>1, <1>5, <2>1
<1>6. ASSUME NEW h \in Handlers, RequestStep(h)
      PROVE  CountInv'
  <2>1. UNCHANGED <<kyc, exec>> /\ (faults' = faults \/ faults' = faults + 1)
    BY <1>6 DEF RequestStep, GetProviderOrderStatus, TransitionRead, TransitionWrite, TransitionAppend,
                MarkRefundInitiated, LogRefundInitiated, RequestDies, AppendEvent, Fault, Others
  <2>2. \A p \in Orders : row'[p].ref = row[p].ref
    <3>1. CASE TransitionWrite(h)
      <4>1. row[req[h].o].ref
        BY <3>1 DEF TransitionWrite, Await, Requesting
      <4>2. QED  BY <3>1, <4>1, WriteRow
    <3>2. CASE MarkRefundInitiated(h)
      BY <3>2, RequestTypes DEF MarkRefundInitiated, Await, TypeOK
    <3>3. QED
      BY <1>6, <3>1, <3>2 DEF RequestStep, GetProviderOrderStatus, TransitionRead, TransitionAppend,
                              LogRefundInitiated, RequestDies
  <2>3. QED  BY <1>5, <2>1, <2>2
<1>7. CASE /\ UNCHANGED <<kyc, exec, faults, row>>
  BY <1>5, <1>7
<1>8. QED
  BY <1>2, <1>3, <1>4, <1>6, <1>7
     DEF Next, vars, ProviderMoves, Midnight, Webhook, GetOrder, Reconcile, Refund, Others

\* The monthly usage counter counts every order with a reference at most once,
\* and exactly those whose request is through as long as nothing fails.
THEOREM UsageIsCounted == Spec => []MonthlyUsageCounts
<1>1. Inv /\ CountInv => MonthlyUsageCounts
  <2> SUFFICES ASSUME Inv, CountInv PROVE MonthlyUsageCounts
    OBVIOUS
  <2> DEFINE linked == {o \in Orders : row[o].ref}
  <2>1. Counted \subseteq linked /\ linked \in SUBSET Orders /\ Counted \in SUBSET Orders
    BY DEF Counted
  <2>2. Cardinality(Counted) <= Cardinality(linked)
    BY <2>1, CountedFinite, FS_Subset
  <2>3. QED  BY <2>1, <2>2, CountedFinite DEF Inv, TypeOK, CountInv, MonthlyUsageCounts, Counted
<1>2. QED  BY <1>1, Invariant, CountInit, CountStep, PTL DEF Spec

-----------------------------------------------------------------------------
(* The audit log.                                                           *)

Audited(o) ==
    \/ o \in lost
    \/ \E e \in log[o] : e[2] = row[o].status
    \/ \E h \in Handlers : req[h].pc = "append" /\ req[h].o = o /\ req[h].to = row[o].status

\* The event of attachProviderOrderId() is 'processing' even if a callback has
\* moved the row on: that one is audited by itself.
AuditInv ==
    \A o \in Orders :
      /\ row[o].status # "none" /\ exec[o].pc \notin Unlogged => Audited(o)
      /\ exec[o].pc = "attached" => row[o].status = "processing" \/ Audited(o)

\* An event is in the log afterwards, or its order is known to have lost one.
LEMMA AppendAudits ==
    ASSUME TypeOK, NEW o \in Orders, NEW from, NEW to, AppendEvent(o, from, to)
    PROVE  /\ \A p \in Orders : log[p] \subseteq log'[p]
           /\ lost \subseteq lost'
           /\ o \in lost' \/ \E e \in log'[o] : e[2] = to
<1>1. CASE log' = [log EXCEPT ![o] = @ \cup {<<from, to>>}] /\ UNCHANGED lost
  <2>1. log'[o] = log[o] \cup {<<from, to>>} /\ \A p \in Orders \ {o} : log'[p] = log[p]
    BY <1>1 DEF TypeOK
  <2>2. <<from, to>> \in log'[o] /\ <<from, to>>[2] = to
    BY <2>1
  <2>3. QED  BY <1>1, <2>1, <2>2
<1>2. CASE lost' = lost \cup {o} /\ UNCHANGED log
  BY <1>2
<1>3. QED  BY <1>1, <1>2 DEF AppendEvent

\* What is audited stays so while the row keeps its status and no event that is
\* due is dropped.
LEMMA AuditKept ==
    ASSUME NEW o \in Orders, Audited(o), row'[o].status = row[o].status,
           log[o] \subseteq log'[o], lost \subseteq lost',
           \A h \in Handlers : req[h].pc = "append" /\ req[h].o = o => req'[h] = req[h]
    PROVE  Audited(o)'
BY DEF Audited

LEMMA ExecuteAudits ==
    ASSUME Inv, AuditInv, NEW o \in Orders, ExecuteStep(o)
    PROVE  AuditInv'
<1> USE DEF Inv
<1>1. req' = req
  BY DEF ExecuteStep, CheckKycAllowance, CreateOrder, LogCreated, GatewayExecuteOrder, RefuseOrder,
         LogRefused, AttachProviderOrderId, LogAttached, ReadKycUsage, RecordKycUsage, ExecuteDies
<1>2. (\A p \in Orders : log[p] \subseteq log'[p]) /\ lost \subseteq lost'
  BY AppendAudits
     DEF ExecuteStep, CheckKycAllowance, CreateOrder, LogCreated, GatewayExecuteOrder, RefuseOrder,
         LogRefused, AttachProviderOrderId, LogAttached, ReadKycUsage, RecordKycUsage, ExecuteDies
<1>3. \A p \in Orders \ {o} : row'[p] = row[p] /\ exec'[p] = exec[p]
  <2>1. CASE CheckKycAllowance(o) \/ CreateOrder(o) \/ RefuseOrder(o) \/ AttachProviderOrderId(o)
    BY <2>1 DEF CheckKycAllowance, CreateOrder, RefuseOrder, AttachProviderOrderId, Exec, TypeOK
  <2>2. CASE LogCreated(o) \/ LogRefused(o) \/ LogAttached(o) \/ GatewayExecuteOrder(o)
    BY <2>2 DEF LogCreated, LogRefused, LogAttached, GatewayExecuteOrder, Exec, TypeOK
  <2>3. CASE ReadKycUsage(o) \/ RecordKycUsage(o) \/ ExecuteDies(o)
    BY <2>3 DEF ReadKycUsage, RecordKycUsage, ExecuteDies, TypeOK
  <2>4. QED  BY <2>1, <2>2, <2>3 DEF ExecuteStep
<1>4. ASSUME NEW p \in Orders \ {o}
      PROVE  /\ row'[p].status # "none" /\ exec'[p].pc \notin Unlogged => Audited(p)'
             /\ exec'[p].pc = "attached" => row'[p].status = "processing" \/ Audited(p)'
  BY <1>1, <1>2, <1>3, AuditKept DEF AuditInv
<1>5. /\ row'[o].status # "none" /\ exec'[o].pc \notin Unlogged => Audited(o)'
      /\ exec'[o].pc = "attached" => row'[o].status = "processing" \/ Audited(o)'
  <2>1. CASE CheckKycAllowance(o)
    BY <2>1 DEF CheckKycAllowance, Exec, Placing, TypeOK
  <2>2. CASE CreateOrder(o) \/ RefuseOrder(o) \/ AttachProviderOrderId(o)
    <3>1. /\ exec'[o].pc \in Unlogged
          /\ exec'[o].pc = "attached" => row'[o].status = "processing"
      BY <2>2 DEF CreateOrder, RefuseOrder, AttachProviderOrderId, Exec, Unlogged, TypeOK
    <3>2. QED  BY <3>1
  <2>3. CASE GatewayExecuteOrder(o)
    <3>1. exec[o].pc = "place" /\ exec'[o].pc \in {"attach", "refuse"} /\ row' = row
      BY <2>3 DEF GatewayExecuteOrder, Exec, TypeOK
    <3>2. Audited(o)
      BY <3>1 DEF AuditInv, Placing, Unlogged
    <3>3. QED  BY <1>1, <1>2, <3>1, <3>2, AuditKept
  <2>4. CASE LogCreated(o)
    <3>1. AppendEvent(o, "none", "pending") /\ row' = row /\ row[o].status = "pending"
          /\ exec'[o].pc = "place"
      BY <2>4 DEF LogCreated, Exec, Placing, TypeOK
    <3>2. o \in lost' \/ \E e \in log'[o] : e[2] = "pending"
      BY <3>1, AppendAudits
    <3>3. QED  BY <3>1, <3>2 DEF Audited
  <2>5. CASE LogRefused(o)
    <3>1. AppendEvent(o, "pending", "failed") /\ row' = row /\ row[o].status = "failed"
          /\ exec'[o].pc = "done"
      BY <2>5 DEF LogRefused, Exec, Placing, TypeOK
    <3>2. o \in lost' \/ \E e \in log'[o] : e[2] = "failed"
      BY <3>1, AppendAudits
    <3>3. QED  BY <3>1, <3>2 DEF Audited
  <2>6. CASE LogAttached(o)
    <3>1. AppendEvent(o, row[o].status, "processing") /\ row' = row /\ exec[o].pc = "attached"
          /\ exec'[o].pc = "usage"
      BY <2>6 DEF LogAttached, Exec, TypeOK
    <3>2. o \in lost' \/ \E e \in log'[o] : e[2] = "processing"
      BY <3>1, AppendAudits
    <3>3. CASE row[o].status = "processing"
      BY <3>1, <3>2, <3>3 DEF Audited
    <3>4. CASE Audited(o)
      BY <1>1, <1>2, <3>1, <3>4, AuditKept
    <3>5. QED  BY <3>1, <3>3, <3>4 DEF AuditInv
  <2>7. CASE ReadKycUsage(o) \/ RecordKycUsage(o)
    <3>1. /\ exec[o].pc \in {"usage", "record"} /\ exec'[o].pc \in {"record", "done"}
          /\ row' = row /\ row[o].ref
      BY <2>7 DEF ReadKycUsage, RecordKycUsage, Placing, TypeOK
    <3>2. Audited(o)
      BY <3>1 DEF AuditInv, Following, Unlogged
    <3>3. QED  BY <1>1, <1>2, <3>1, <3>2, AuditKept
  <2>8. CASE ExecuteDies(o)
    <3>1. row' = row /\ exec'[o].pc = "done" /\ (exec[o].pc \in Unlogged => o \in lost')
      BY <2>8 DEF ExecuteDies, TypeOK
    <3>2. CASE exec[o].pc \in Unlogged
      BY <3>1, <3>2 DEF Audited
    <3>3. CASE exec[o].pc \notin Unlogged /\ row[o].status # "none"
      BY <1>1, <1>2, <3>1, <3>3, AuditKept DEF AuditInv
    <3>4. QED  BY <3>1, <3>2, <3>3
  <2>9. QED
    BY <2>1, <2>2, <2>3, <2>4, <2>5, <2>6, <2>7, <2>8 DEF ExecuteStep
<1>6. QED  BY <1>4, <1>5 DEF AuditInv

LEMMA RequestAudits ==
    ASSUME Inv, AuditInv, NEW h \in Handlers, RequestStep(h)
    PROVE  AuditInv'
<1> USE RequestTypes DEF Inv
<1>1. exec' = exec /\ \A g \in Handlers \ {h} : req'[g] = req[g]
  BY DEF RequestStep, GetProviderOrderStatus, TransitionRead, TransitionWrite, TransitionAppend,
         MarkRefundInitiated, LogRefundInitiated, RequestDies, Becomes, Others, TypeOK
<1>2. ASSUME \A p \in Orders : Audited(p) => Audited(p)',
             \A p \in Orders : row'[p].status = row[p].status \/ Audited(p)'
      PROVE  AuditInv'
  BY <1>1, <1>2 DEF AuditInv
<1>3. ASSUME \A p \in Orders : row'[p].status = row[p].status,
             \A p \in Orders : log[p] \subseteq log'[p], lost \subseteq lost',
             req[h].pc # "append"
      PROVE  AuditInv'
  <2>1. \A p \in Orders : Audited(p) => Audited(p)'
    BY <1>1, <1>3, AuditKept
  <2>2. QED  BY <1>2, <1>3, <2>1
<1>4. CASE GetProviderOrderStatus(h) \/ TransitionRead(h)
  BY <1>3, <1>4 DEF GetProviderOrderStatus, TransitionRead, Await
<1>5. CASE TransitionWrite(h)
  <2>0. PICK o \in Orders : o = req[h].o /\ req[h].pc = "write" /\ row[o].ref
    BY <1>5 DEF TransitionWrite, Await, Requesting
  <2>1. /\ UNCHANGED <<log, lost>>
        /\ req'[h].pc = "append" /\ req'[h].o = o /\ req'[h].to = req[h].to
    BY <1>5, <2>0 DEF TransitionWrite, Becomes, TypeOK, Requests, Idle
  <2>2. row'[o].status = req[h].to /\ \A p \in Orders \ {o} : row'[p] = row[p]
    BY <1>5, <2>0, WriteRow
  <2>3. Audited(o)'
    BY <2>1, <2>2 DEF Audited
  <2>4. \A p \in Orders \ {o} : Audited(p) => Audited(p)'
    BY <1>1, <2>0, <2>1, <2>2, AuditKept
  <2>5. QED  BY <1>2, <2>2, <2>3, <2>4
<1>6. CASE TransitionAppend(h)
  <2>0. PICK o \in Orders, to \in Statuses : o = req[h].o /\ to = req[h].to
    BY <1>6 DEF TransitionAppend, Await
  <2>1. AppendEvent(o, req[h].from, to) /\ row' = row /\ req[h].pc = "append"
    BY <1>6, <2>0 DEF TransitionAppend, Await
  <2>2. /\ \A p \in Orders : log[p] \subseteq log'[p]
        /\ lost \subseteq lost'
        /\ o \in lost' \/ \E e \in log'[o] : e[2] = to
    BY <2>1, AppendAudits
  <2>3. \A p \in Orders \ {o} : Audited(p) => Audited(p)'
    BY <1>1, <2>0, <2>1, <2>2, AuditKept
  <2>4. Audited(o) => Audited(o)'
    BY <1>1, <2>0, <2>1, <2>2 DEF Audited
  <2>5. QED  BY <1>2, <2>1, <2>3, <2>4
<1>7. CASE MarkRefundInitiated(h)
  <2>1. \A p \in Orders : row'[p].status = row[p].status
    BY <1>7 DEF MarkRefundInitiated, Await, TypeOK
  <2>2. QED  BY <1>3, <1>7, <2>1 DEF MarkRefundInitiated, Await
<1>8. CASE LogRefundInitiated(h)
  <2>1. req[h].o \in Orders /\ row' = row /\ req[h].pc = "refunding"
    BY <1>8 DEF LogRefundInitiated, Await
  <2>2. (\A p \in Orders : log[p] \subseteq log'[p]) /\ lost \subseteq lost'
    BY <1>8, <2>1, AppendAudits DEF LogRefundInitiated
  <2>3. QED  BY <1>3, <2>1, <2>2
<1>9. CASE RequestDies(h)
  <2>1. /\ UNCHANGED <<row, log>> /\ lost \subseteq lost'
        /\ req[h].pc = "append" => req[h].o \in lost'
    BY <1>9 DEF RequestDies
  <2>2. \A p \in Orders : Audited(p) => Audited(p)'
    BY <1>1, <2>1 DEF Audited
  <2>3. QED  BY <1>2, <2>1, <2>2
<1>10. QED
  BY <1>4, <1>5, <1>6, <1>7, <1>8, <1>9 DEF RequestStep

LEMMA AuditStep ==
    ASSUME Inv, AuditInv, [Next]_vars
    PROVE  AuditInv'
<1>1. ASSUME UNCHANGED <<row, log, lost, exec>>,
             \A h \in Handlers : req[h].pc = "append" => req'[h] = req[h]
      PROVE  AuditInv'
  <2>1. \A o \in Orders : Audited(o) => Audited(o)'
    BY <1>1, AuditKept
  <2>2. QED  BY <1>1, <2>1 DEF AuditInv
<1>2. ASSUME NEW h \in Handlers, NEW o \in Orders,
             Webhook(h, o) \/ GetOrder(h, o) \/ Reconcile(h, o) \/ Refund(h, o)
      PROVE  AuditInv'
  <2>1. req[h].pc = "idle" /\ \A g \in Handlers \ {h} : req'[g] = req[g]
    BY <1>2 DEF Inv, TypeOK, Webhook, GetOrder, Reconcile, Refund, Await, Becomes
  <2>2. UNCHANGED <<row, log, lost, exec>>
    BY <1>2 DEF Webhook, GetOrder, Reconcile, Refund, Others
  <2>3. QED  BY <1>1, <2>1, <2>2
<1>3. CASE UNCHANGED <<row, log, lost, exec, req>>
  BY <1>1, <1>3
<1>4. QED
  BY <1>2, <1>3, FollowedAssumption, ExecuteAudits, RequestAudits DEF Next, vars, ProviderMoves, Midnight

\* Every status an order has had a step for is in the audit log, is about to
\* be, or is one of an order known to have lost an event.
THEOREM StatusIsAudited == Spec => []AuditedStatus
<1>1. Init => AuditInv
  BY DEF Init, AuditInv
<1>2. AuditInv => AuditedStatus
  BY DEF AuditInv, AuditedStatus, Audited
<1>3. QED  BY <1>1, <1>2, AuditStep, Invariant, PTL DEF Spec
=============================================================================
