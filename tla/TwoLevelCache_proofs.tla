------------------------ MODULE TwoLevelCache_proofs ------------------------
(***************************************************************************)
(* Proofs about TwoLevelCache for any processes, calls and bounds.          *)
(***************************************************************************)
EXTENDS TwoLevelCache, TLAPS

Inv == TypeOK /\ Coherent

LEMMA InvInit == Init => Inv
BY BoundsAssumption DEF Init, Inv, TypeOK, Coherent, Absent, Values, Progress, Free

-----------------------------------------------------------------------------
(* Types.                                                                   *)

\* What a call at some stage holds.
LEMMA CallTypes ==
    ASSUME TypeOK, NEW c \in Calls
    PROVE  /\ calls[c] \in Progress
           /\ ~Call(c, "free") => calls[c].p \in Procs
           /\ Call(c, "pttl") \/ Call(c, "fill") \/ Call(c, "write") \/ Call(c, "publish")
                => calls[c].val \in Values
           /\ Call(c, "fill") => calls[c].ttl \in {"policy", "default"}
BY DEF TypeOK, Progress, Call, Free

LEMMA TypeStep ==
    ASSUME TypeOK, [Next]_vars
    PROVE  TypeOK'
<1> USE BoundsAssumption
<1> DEFINE Entries == [val : Values, ttl : {"policy", "default", "none"},
                       origin : {"store", "raced", "orphan"}]
<1>1. ASSUME NEW c \in Calls, NEW p \in Procs, CacheGet(c, p)
      PROVE  TypeOK'
  <2>1. [pc |-> "payload", p |-> p] \in Progress
    BY DEF Progress
  <2>2. QED  BY <1>1, <2>1 DEF TypeOK, CacheGet, Goto
<1>2. ASSUME NEW c \in Calls, NEW p \in Procs, CacheSet(c, p) \/ CacheDelete(c, p)
      PROVE  TypeOK'
  <2>1. writes' \in 1 .. MaxWrites /\ writes' \in Values
    BY <1>2 DEF TypeOK, CacheSet, CacheDelete, Write, Values
  <2>2. l1' \in [Procs -> Entries]
    BY <1>2, <2>1 DEF TypeOK, CacheSet, CacheDelete, Entry, Absent, Values
  <2>3. calls' \in [Calls -> Progress]
    <3>1. /\ [pc |-> "write", p |-> p, val |-> writes'] \in Progress
          /\ [pc |-> "write", p |-> p, val |-> 0] \in Progress
          /\ Free \in Progress
      BY <2>1 DEF Progress, Values
    <3>2. QED  BY <1>2, <3>1 DEF TypeOK, CacheSet, CacheDelete, Goto
  <2>4. QED  BY <1>2, <2>1, <2>2, <2>3 DEF TypeOK, CacheSet, CacheDelete
<1>3. ASSUME NEW c \in Calls, CallStep(c)
      PROVE  TypeOK'
  <2> USE CallTypes
  <2>1. CASE GetPayload(c)
    <3>1. [pc |-> "pttl", p |-> calls[c].p, val |-> redis] \in Progress /\ Free \in Progress
      BY <2>1 DEF TypeOK, GetPayload, Call, Progress
    <3>2. QED  BY <2>1, <3>1 DEF TypeOK, GetPayload, Goto
  <2>2. CASE GetPttl(c)
    <3>1. [pc |-> "fill", p |-> calls[c].p, val |-> calls[c].val,
           ttl |-> IF redis = 0 THEN "default" ELSE "policy"] \in Progress
      BY <2>2 DEF TypeOK, GetPttl, Call, Progress
    <3>2. QED  BY <2>2, <3>1 DEF TypeOK, GetPttl, Goto
  <2>3. CASE Fill(c)
    <3>1. Free \in Progress
      BY DEF Progress
    <3>2. Entry(calls[c].val, calls[c].ttl, IF calls[c].val = latest THEN "store" ELSE "raced")
            \in Entries
      BY <2>3 DEF Fill, Entry, Call
    <3>3. QED  BY <2>3, <3>1, <3>2 DEF TypeOK, Fill, Goto
  <2>4. CASE WriteRedis(c)
    <3>1. calls[c].val \in Values /\ [calls[c] EXCEPT !.pc = "publish"] \in Progress
      BY <2>4 DEF WriteRedis, Call, Progress, Free
    <3>2. QED  BY <2>4, <3>1 DEF TypeOK, WriteRedis, Goto
  <2>5. CASE PublishInvalidation(c)
    <3>1. Free \in Progress
      BY DEF Progress
    <3>2. QED  BY <2>5, <3>1 DEF TypeOK, PublishInvalidation, Goto
  <2>6. QED  BY <1>3, <2>1, <2>2, <2>3, <2>4, <2>5 DEF CallStep
<1>4. ASSUME NEW c \in Calls, CallFails(c)
      PROVE  TypeOK'
  <2>1. Free \in Progress
    BY DEF Progress
  <2>2. ASSUME NEW P PROVE Orphaned(P) \in [Procs -> Entries]
    BY DEF TypeOK, Orphaned
  <2>3. QED  BY <1>4, <2>1, <2>2 DEF TypeOK, CallFails, Goto, Fault
<1>5. ASSUME NEW p \in Procs, ReceiveInvalidation(p) \/ DropEntry(p)
      PROVE  TypeOK'
  <2>1. Absent \in Entries
    BY DEF Absent, Values
  <2>2. QED  BY <1>5, <2>1 DEF TypeOK, ReceiveInvalidation, DropEntry
<1>6. ASSUME NEW p \in Procs, LoseInvalidation(p)
      PROVE  TypeOK'
  <2>1. Orphaned({p}) \in [Procs -> Entries]
    BY DEF TypeOK, Orphaned
  <2>2. inbox' \in [Procs -> Nat]
    BY <1>6 DEF TypeOK, LoseInvalidation
  <2>3. faults' \in 0 .. MaxFaults
    BY <1>6 DEF TypeOK, LoseInvalidation, Fault
  <2>4. UNCHANGED <<redis, available, calls, latest, writes>> /\ l1' = Orphaned({p})
    BY <1>6 DEF LoseInvalidation
  <2>5. QED  BY <2>1, <2>2, <2>3, <2>4 DEF TypeOK
<1>7. ASSUME NEW p \in Procs, RedisUnavailable(p) \/ RedisReady(p)
      PROVE  TypeOK'
  <2>1. faults' \in 0 .. MaxFaults
    BY <1>7 DEF TypeOK, RedisUnavailable, RedisReady, Fault
  <2>2. \E b \in BOOLEAN : available' = [available EXCEPT ![p] = b]
    BY <1>7 DEF RedisUnavailable, RedisReady
  <2>3. available' \in [Procs -> BOOLEAN]
    BY <2>2 DEF TypeOK
  <2>4. UNCHANGED <<redis, l1, inbox, calls, latest, writes>>
    BY <1>7 DEF RedisUnavailable, RedisReady
  <2>5. QED  BY <2>1, <2>3, <2>4 DEF TypeOK
<1>8. CASE ExpireRedis \/ UNCHANGED vars
  BY <1>8 DEF TypeOK, ExpireRedis, vars, Values
<1>9. QED
  BY <1>1, <1>2, <1>3, <1>4, <1>5, <1>6, <1>7, <1>8 DEF Next

-----------------------------------------------------------------------------
(* Coherence.                                                               *)

\* What one process's copy is excused by.
Excused(p) == \/ l1[p].val \in {0, latest} \/ l1[p].origin # "store"
              \/ inbox[p] > 0 \/ Announcing \/ Writing(p)

\* A step that moves one call from pc to another, neither of them a write that
\* is still to be announced, leaves the others' announcements alone.
LEMMA OtherCalls ==
    ASSUME TypeOK, NEW c \in Calls, NEW r, Goto(c, r),
           ~Call(c, "write"), ~Call(c, "publish")
    PROVE  /\ Announcing => Announcing'
           /\ \A p \in Procs : Writing(p) => Writing(p)'
BY DEF TypeOK, Goto, Call, Announcing, Writing

LEMMA CoherentStep ==
    ASSUME Inv, [Next]_vars
    PROVE  Coherent'
<1> USE DEF Inv
<1> SUFFICES ASSUME NEW q \in Procs PROVE Excused(q)'
  BY DEF Coherent, Excused
<1>0. Excused(q)
  BY DEF Coherent, Excused
<1>1. ASSUME NEW c \in Calls, NEW p \in Procs, CacheGet(c, p)
      PROVE  Excused(q)'
  BY <1>0, <1>1, OtherCalls DEF CacheGet, Call, Excused
<1>2. ASSUME NEW c \in Calls, NEW p \in Procs, CacheSet(c, p)
      PROVE  Excused(q)'
  <2>1. (Announcing => Announcing') /\ (Writing(q) => Writing(q)')
    BY <1>2, OtherCalls DEF CacheSet, Call
  <2>2. CASE q # p
    BY <1>0, <1>2, <2>1, <2>2 DEF CacheSet, Excused, TypeOK
  <2>3. CASE q = p /\ available[p]
    <3>1. calls'[c] = [pc |-> "write", p |-> p, val |-> writes']
      BY <1>2, <2>3 DEF CacheSet, Goto, TypeOK
    <3>2. Writing(p)'
      BY <3>1 DEF Writing, Call
    <3>3. QED  BY <2>3, <3>2 DEF Excused
  <2>4. CASE q = p /\ ~available[p]
    BY <1>2, <2>4 DEF CacheSet, Entry, Excused, TypeOK
  <2>5. QED  BY <2>2, <2>3, <2>4
<1>3. ASSUME NEW c \in Calls, NEW p \in Procs, CacheDelete(c, p)
      PROVE  Excused(q)'
  <2>1. (Announcing => Announcing') /\ (Writing(q) => Writing(q)')
    BY <1>3, OtherCalls DEF CacheDelete, Call
  <2>2. CASE q # p
    BY <1>0, <1>3, <2>1, <2>2 DEF CacheDelete, Excused, TypeOK
  <2>3. CASE q = p
    BY <1>3, <2>3 DEF CacheDelete, Absent, Excused, TypeOK
  <2>4. QED  BY <2>2, <2>3
<1>4. ASSUME NEW c \in Calls, GetPayload(c) \/ GetPttl(c)
      PROVE  Excused(q)'
  <2>1. (Announcing => Announcing') /\ (Writing(q) => Writing(q)')
    BY <1>4, OtherCalls DEF GetPayload, GetPttl, Call
  <2>2. QED  BY <1>0, <1>4, <2>1 DEF GetPayload, GetPttl, Excused
<1>5. ASSUME NEW c \in Calls, Fill(c)
      PROVE  Excused(q)'
  <2>1. (Announcing => Announcing') /\ (Writing(q) => Writing(q)')
    BY <1>5, OtherCalls DEF Fill, Call
  <2>2. CASE q = calls[c].p
    BY <1>5, <2>2 DEF Fill, Entry, Excused, TypeOK
  <2>3. CASE q # calls[c].p
    BY <1>0, <1>5, <2>1, <2>3 DEF Fill, Excused, TypeOK
  <2>4. QED  BY <2>2, <2>3
<1>6. ASSUME NEW c \in Calls, WriteRedis(c)
      PROVE  Excused(q)'
  <2>1. calls'[c].pc = "publish"
    BY <1>6, CallTypes DEF WriteRedis, Goto, TypeOK, Call, Progress, Free
  <2>2. QED  BY <2>1 DEF Excused, Announcing, Call
<1>7. ASSUME NEW c \in Calls, PublishInvalidation(c)
      PROVE  Excused(q)'
  <2>1. inbox'[q] > 0
    BY <1>7 DEF PublishInvalidation, TypeOK
  <2>2. QED  BY <2>1 DEF Excused
<1>8. ASSUME NEW c \in Calls, CallFails(c)
      PROVE  Excused(q)'
  <2>1. UNCHANGED <<inbox, latest>>
    BY <1>8 DEF CallFails
  <2>2. CASE Call(c, "publish")
    <3>1. l1' = Orphaned(Procs)
      BY <1>8, <2>2 DEF CallFails, Call
    <3>2. QED  BY <2>1, <3>1 DEF Orphaned, Excused, TypeOK
  <2>3. CASE Call(c, "write")
    <3>1. l1' = Orphaned({calls[c].p})
      BY <1>8, <2>3 DEF CallFails, Call
    <3>2. CASE q = calls[c].p
      BY <2>1, <3>1, <3>2 DEF Orphaned, Excused, TypeOK
    <3>3. CASE q # calls[c].p
      <4>1. l1'[q] = l1[q]
        BY <3>1, <3>3 DEF Orphaned
      <4>2. (Announcing => Announcing') /\ (Writing(q) => Writing(q)')
        BY <1>8, <2>3, <3>3 DEF CallFails, Goto, TypeOK, Call, Announcing, Writing
      <4>3. QED  BY <1>0, <2>1, <4>1, <4>2 DEF Excused
    <3>4. QED  BY <3>2, <3>3
  <2>4. CASE ~Call(c, "publish") /\ ~Call(c, "write")
    <3>1. l1' = l1 /\ Goto(c, Free)
      BY <1>8, <2>4 DEF CallFails, Call
    <3>2. (Announcing => Announcing') /\ (Writing(q) => Writing(q)')
      BY <2>4, <3>1, OtherCalls
    <3>3. QED  BY <1>0, <2>1, <3>1, <3>2 DEF Excused
  <2>5. QED  BY <2>2, <2>3, <2>4
<1>9. ASSUME NEW p \in Procs, ReceiveInvalidation(p) \/ DropEntry(p)
      PROVE  Excused(q)'
  <2>1. UNCHANGED <<calls, latest>> /\ l1' = [l1 EXCEPT ![p] = Absent]
    BY <1>9 DEF ReceiveInvalidation, DropEntry
  <2>2. CASE q = p
    BY <2>1, <2>2 DEF Absent, Excused, TypeOK
  <2>3. CASE q # p
    <3>1. l1'[q] = l1[q] /\ inbox'[q] = inbox[q]
      BY <1>9, <2>1, <2>3 DEF ReceiveInvalidation, DropEntry, TypeOK
    <3>2. QED  BY <1>0, <2>1, <3>1 DEF Excused, Announcing, Writing, Call
  <2>4. QED  BY <2>2, <2>3
<1>10. ASSUME NEW p \in Procs, LoseInvalidation(p)
      PROVE  Excused(q)'
  <2>1. UNCHANGED <<calls, latest>> /\ l1' = Orphaned({p})
    BY <1>10 DEF LoseInvalidation
  <2>2. CASE q = p
    BY <2>1, <2>2 DEF Orphaned, Excused, TypeOK
  <2>3. CASE q # p
    <3>1. l1'[q] = l1[q] /\ inbox'[q] = inbox[q]
      BY <1>10, <2>1, <2>3 DEF LoseInvalidation, Orphaned, TypeOK
    <3>2. QED  BY <1>0, <2>1, <3>1 DEF Excused, Announcing, Writing, Call
  <2>4. QED  BY <2>2, <2>3
<1>11. CASE UNCHANGED <<l1, inbox, calls, latest>>
  BY <1>0, <1>11 DEF Excused, Announcing, Writing, Call
<1>12. (\E p \in Procs : RedisUnavailable(p) \/ RedisReady(p)) \/ ExpireRedis \/ UNCHANGED vars
         => UNCHANGED <<l1, inbox, calls, latest>>
  BY DEF RedisUnavailable, RedisReady, ExpireRedis, vars
<1>13. QED
  BY <1>1, <1>2, <1>3, <1>4, <1>5, <1>6, <1>7, <1>8, <1>9, <1>10, <1>11, <1>12 DEF Next, CallStep

LEMMA Invariant == Spec => []Inv
<1>1. Inv /\ [Next]_vars => Inv'
  BY TypeStep, CoherentStep DEF Inv
<1>2. QED  BY <1>1, InvInit, PTL DEF Spec

\* No entry, message or call of the cache leaves its type: pTTL's answers for a
\* missing key never become the time to live of a local copy.
THEOREM CacheTypes == Spec => []TypeOK
<1>1. Inv => TypeOK  BY DEF Inv
<1>2. QED  BY <1>1, Invariant, PTL

\* L1 is coherent for any number of processes, concurrent calls and writes: a
\* stale copy is about to be dropped by an invalidation unless its fill was
\* overtaken or an error intervened.
THEOREM StaleCopiesAreDropped == Spec => []Coherent
<1>1. Inv => Coherent  BY DEF Inv
<1>2. QED  BY <1>1, Invariant, PTL
=============================================================================
