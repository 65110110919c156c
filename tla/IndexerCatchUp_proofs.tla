----------------------- MODULE IndexerCatchUp_proofs -----------------------
(***************************************************************************)
(* Proofs about IndexerCatchUp for every number of processes, workers and   *)
(* ledgers and every size of windows and batches.                           *)
(***************************************************************************)
EXTENDS IndexerCatchUp, WellFoundedInduction, TLAPS

-----------------------------------------------------------------------------
(* Arithmetic of windows.                                                   *)

LEMMA LeastWindow ==
    ASSUME NEW S \in SUBSET Nat, S # {}
    PROVE  Min(S) \in S /\ \A y \in S : Min(S) <= y
<1> DEFINE R == OpToRel(<, Nat)
<1>1. \E x \in S : \A y \in S : ~(<<y, x>> \in R)
  <2> HIDE DEF R
  <2>1. IsWellFoundedOn(R, Nat)
    BY NatLessThanWellFounded DEF R
  <2>2. QED  BY <2>1, WFMin
<1>2. \E x \in S : \A y \in S : x <= y
  <2>1. PICK x \in S : \A y \in S : ~(<<y, x>> \in R)
    BY <1>1
  <2>2. ASSUME NEW y \in S PROVE x <= y
    <3>1. y < x => <<y, x>> \in R
      BY DEF OpToRel
    <3>2. x \in Nat /\ y \in Nat /\ ~(y < x)
      BY <2>1, <3>1
    <3>3. QED  BY <3>2
  <2>3. QED  BY <2>2
<1>3. QED  BY <1>2 DEF Min

LEMMA MaxOfTwo == \A a, b \in Int : Max({a, b}) = IF a >= b THEN a ELSE b
<1> SUFFICES ASSUME NEW a \in Int, NEW b \in Int
             PROVE  Max({a, b}) = IF a >= b THEN a ELSE b
  OBVIOUS
<1>1. \E x \in {a, b} : \A y \in {a, b} : x >= y
  OBVIOUS
<1>2. Max({a, b}) \in {a, b} /\ \A y \in {a, b} : Max({a, b}) >= y
  BY <1>1 DEF Max
<1>3. QED  BY <1>2

LEMMA MinOfTwo == \A a, b \in Int : Min({a, b}) = IF a <= b THEN a ELSE b
<1> SUFFICES ASSUME NEW a \in Int, NEW b \in Int
             PROVE  Min({a, b}) = IF a <= b THEN a ELSE b
  OBVIOUS
<1>1. \E x \in {a, b} : \A y \in {a, b} : x <= y
  OBVIOUS
<1>2. Min({a, b}) \in {a, b} /\ \A y \in {a, b} : Min({a, b}) <= y
  BY <1>1 DEF Min
<1>3. QED  BY <1>2

\* A ledger lies in its window.
LEMMA WindowHolds ==
    ASSUME NEW n \in Ledgers
    PROVE  /\ WindowOf(n) \in Nat
           /\ RangeStart(WindowOf(n)) <= n /\ n <= RangeEnd(WindowOf(n))
BY LedgersAssumption, SizesAssumption DEF Ledgers, WindowOf, RangeStart, RangeEnd

\* The work of a worker in its current window is a range of its ledgers, and
\* all of them that are in the window.
LEMMA WorkOfWindow ==
    ASSUME NEW w \in Executions, InRange(w), w.todo # {}
    PROVE  /\ Current(w) \in w.todo /\ Current(w) \in Windows
           /\ RangeStart(Current(w)) \in Int /\ RangeEnd(Current(w)) \in Int
           /\ WorkStart(w) \in Ledgers /\ WorkEnd(w) \in Ledgers
           /\ WorkStart(w) \in {w.from, RangeStart(Current(w))}
           /\ w.from <= WorkStart(w) /\ RangeStart(Current(w)) <= WorkStart(w)
           /\ WorkStart(w) <= WorkEnd(w)
           /\ WorkEnd(w) <= w.to /\ WorkEnd(w) <= RangeEnd(Current(w))
           /\ \A n \in w.from .. w.to : WindowOf(n) = Current(w) =>
                                          n \in WorkStart(w) .. WorkEnd(w)
<1> DEFINE c == Current(w)
<1>1. Windows \subseteq Nat
  BY WindowHolds DEF Windows
<1>2. w.from \in Ledgers /\ w.to \in Ledgers /\ w.todo \subseteq Windows
  BY DEF Executions
<1>3. c \in w.todo /\ c \in Windows /\ c \in Nat
  BY <1>1, <1>2, LeastWindow DEF Current
<1>4. RangeStart(c) \in Int /\ RangeEnd(c) \in Int
  BY <1>3, SizesAssumption DEF RangeStart, RangeEnd
<1>5. \A n \in w.from .. w.to : n \in Ledgers
  BY <1>2, LedgersAssumption DEF Ledgers
<1>6. \A n \in w.from .. w.to : WindowOf(n) = c =>
        RangeStart(c) <= n /\ n <= RangeEnd(c)
  BY <1>5, WindowHolds
<1>7. PICK m \in w.from .. w.to : WindowOf(m) = c
  BY <1>3 DEF InRange
<1>8. w.from \in Int /\ w.to \in Int /\ m \in Int /\ m \in Ledgers
  BY <1>2, <1>5, LedgersAssumption DEF Ledgers
<1>9. WorkStart(w) = IF w.from >= RangeStart(c) THEN w.from ELSE RangeStart(c)
  BY <1>4, <1>8, MaxOfTwo DEF WorkStart
<1>10. WorkEnd(w) = IF w.to <= RangeEnd(c) THEN w.to ELSE RangeEnd(c)
  BY <1>4, <1>8, MinOfTwo DEF WorkEnd
<1> HIDE DEF c
<1>11. /\ WorkStart(w) \in {w.from, RangeStart(c)}
       /\ w.from <= WorkStart(w) /\ RangeStart(c) <= WorkStart(w)
       /\ WorkEnd(w) <= w.to /\ WorkEnd(w) <= RangeEnd(c)
       /\ WorkStart(w) \in Int /\ WorkEnd(w) \in Int
  BY <1>4, <1>8, <1>9, <1>10
<1>12. \A n \in w.from .. w.to : WindowOf(n) = c => n \in WorkStart(w) .. WorkEnd(w)
  BY <1>4, <1>6, <1>8, <1>9, <1>10
<1>13. WorkStart(w) <= m /\ m <= WorkEnd(w)
  BY <1>7, <1>8, <1>11, <1>12
<1>14. WorkStart(w) <= WorkEnd(w) /\ WorkStart(w) \in Ledgers /\ WorkEnd(w) \in Ledgers
  BY <1>2, <1>8, <1>11, <1>13, LedgersAssumption DEF Ledgers
<1>15. QED
  BY <1>3, <1>4, <1>11, <1>12, <1>14 DEF c

\* A batch begins inside the work and ends inside it.
LEMMA BatchInside ==
    ASSUME NEW w \in Executions, InRange(w),
           w.pc \in InWindow
    PROVE  /\ BatchEnd(w) \in Ledgers /\ w.at \in Ledgers
           /\ w.at <= BatchEnd(w)
           /\ ~w.direct => BatchEnd(w) <= WorkEnd(w) /\ w.todo # {}
           /\ w.direct => BatchEnd(w) = w.to /\ w.at = w.from
<1>1. w.at \in Ledgers /\ w.to \in Ledgers /\ w.from <= w.to
  BY DEF Executions, InRange
<1>2. CASE w.direct
  BY <1>1, <1>2 DEF BatchEnd, InRange
<1>3. CASE ~w.direct
  <2>1. w.todo # {} /\ WorkStart(w) <= w.at /\ w.at <= WorkEnd(w)
    BY <1>3 DEF InRange, InWindow
  <2>2. WorkEnd(w) \in Ledgers
    BY <2>1, WorkOfWindow
  <2>3. BatchEnd(w) = IF w.at + Batch - 1 <= WorkEnd(w) THEN w.at + Batch - 1 ELSE WorkEnd(w)
    BY <1>1, <1>3, <2>2, MinOfTwo, SizesAssumption DEF BatchEnd, Ledgers
  <2>4. QED
    BY <1>1, <1>3, <2>1, <2>2, <2>3, SizesAssumption, LedgersAssumption DEF Ledgers
<1>4. QED  BY <1>2, <1>3

-----------------------------------------------------------------------------
(* Types and ranges.                                                        *)

TypeInv == TypeOK /\ WorkersInRange

\* The successor of a worker.
LEMMA Successor ==
    ASSUME workers \subseteq Executions, WorkersInRange,
           NEW w \in workers, NEW v \in Executions, InRange(v), Becomes(w, v)
    PROVE  workers' \subseteq Executions /\ WorkersInRange'
BY DEF Becomes, WorkersInRange

LEMMA LeaveWindow ==
    ASSUME NEW w \in Executions, InRange(w), ~w.direct, w.todo # {}
    PROVE  Leave(w) \in Executions /\ InRange(Leave(w))
<1> DEFINE left == w.todo \ {Current(w)}
           v == Leave(w)
<1>1. v = [w EXCEPT !.todo = left, !.pc = IF left = {} THEN "done" ELSE "open"]
  BY DEF Leave
<1>2. v \in Executions
  BY <1>1 DEF Executions
<1>3. /\ v.todo = left /\ v.from = w.from /\ v.to = w.to /\ v.direct = w.direct
      /\ v.pc = IF left = {} THEN "done" ELSE "open"
  BY <1>1 DEF Executions
<1>4. InRange(v)
  BY <1>3 DEF InRange, InWindow, Unwinding
<1>5. QED  BY <1>2, <1>4

\* A worker that only moves on inside its window.
Moved(w, pc, at, pos, meta) == [w EXCEPT !.pc = pc, !.at = at, !.pos = pos, !.meta = meta]

LEMMA SameWindow ==
    ASSUME NEW w \in Executions, NEW pc, NEW at, NEW pos, NEW meta,
           NEW v, v = Moved(w, pc, at, pos, meta)
    PROVE  /\ v.from = w.from /\ v.to = w.to /\ v.todo = w.todo /\ v.direct = w.direct
           /\ v.owned = w.owned /\ v.proc = w.proc
           /\ v.pc = pc /\ v.at = at /\ v.pos = pos /\ v.meta = meta
           /\ Current(v) = Current(w)
           /\ WorkStart(v) = WorkStart(w) /\ WorkEnd(v) = WorkEnd(w)
           /\ at = w.at => BatchEnd(v) = BatchEnd(w)
<1>1. /\ v.from = w.from /\ v.to = w.to /\ v.todo = w.todo /\ v.direct = w.direct
      /\ v.owned = w.owned /\ v.proc = w.proc
      /\ v.pc = pc /\ v.at = at /\ v.pos = pos /\ v.meta = meta
  BY DEF Executions, Moved
<1>2. Current(v) = Current(w)
  BY <1>1 DEF Current
<1>3. WorkStart(v) = WorkStart(w) /\ WorkEnd(v) = WorkEnd(w)
  BY <1>1, <1>2 DEF WorkStart, WorkEnd
<1>4. at = w.at => BatchEnd(v) = BatchEnd(w)
  BY <1>1, <1>3 DEF BatchEnd
<1>5. QED  BY <1>1, <1>2, <1>3, <1>4

LEMMA MovedInRange ==
    ASSUME NEW w \in Executions, InRange(w),
           NEW pc \in InWindow \cup {"done", "stopped"},
           NEW at \in Ledgers, NEW pos \in 0 .. MaxLedger,
           NEW meta \in [0 .. MaxLedger -> 0 .. MaxReorgs],
           NEW v, v = Moved(w, pc, at, pos, meta),
           w.direct => at = w.from /\ pc \in {"ledgers", "row", "events", "done"},
           ~w.direct => w.todo # {} /\ pc # "done",
           ~w.direct /\ pc \in InWindow => WorkStart(w) <= at /\ at <= WorkEnd(w),
           pc \in {"ledgers", "row"} => at = w.at /\ at <= pos /\ pos <= BatchEnd(w)
    PROVE  v \in Executions /\ InRange(v)
<1>1. v \in Executions
  BY DEF Executions, Moved, InWindow
<1>2. InRange(v)
  BY SameWindow DEF InRange, InWindow, Unwinding
<1>3. QED  BY <1>1, <1>2

\* What each step makes of its worker.
LEMMA OpenWindowStep ==
    ASSUME TypeInv, NEW w \in workers, OpenWindow(w)
    PROVE  /\ ~w.direct /\ w.todo # {}
           /\ \/ /\ Becomes(w, Leave(w))
                 /\ checkpoint[Current(w)].done \/ checkpoint[Current(w)].last >= WorkEnd(w)
              \/ \E at \in WorkStart(w) .. WorkEnd(w) :
                   LET v == Moved(w, "begin", at, w.pos, w.meta)
                   IN  /\ at \in {WorkStart(w), checkpoint[Current(w)].last + 1}
                       /\ Becomes(w, v) /\ v \in Executions /\ InRange(v)
<1> DEFINE cp == checkpoint[Current(w)]
           at == Max({WorkStart(w), cp.last + 1})
           v == Moved(w, "begin", at, w.pos, w.meta)
<1>1. w \in Executions /\ InRange(w) /\ w.pc = "open"
  BY DEF OpenWindow, TypeInv, TypeOK, WorkersInRange
<1>2. ~w.direct /\ w.todo # {}
  BY <1>1 DEF InRange
<1>3. Current(w) \in Windows /\ WorkStart(w) \in Ledgers /\ WorkEnd(w) \in Ledgers
  BY <1>1, <1>2, WorkOfWindow
<1>4. cp.last \in Nat
  BY <1>3, LedgersAssumption DEF TypeInv, TypeOK
<1>5. at = IF WorkStart(w) >= cp.last + 1 THEN WorkStart(w) ELSE cp.last + 1
  BY <1>3, <1>4, MaxOfTwo DEF Ledgers
<1>6. CASE cp.done \/ at > WorkEnd(w)
  <2>1. Becomes(w, Leave(w))
    BY <1>6 DEF OpenWindow
  <2>2. cp.done \/ cp.last >= WorkEnd(w)
    <3>1. WorkStart(w) <= WorkEnd(w)
      BY <1>1, <1>2, WorkOfWindow
    <3>2. QED  BY <1>3, <1>4, <1>5, <1>6, <3>1 DEF Ledgers
  <2>3. QED  BY <1>2, <2>1, <2>2
<1>7. CASE ~(cp.done \/ at > WorkEnd(w))
  <2>1. at \in WorkStart(w) .. WorkEnd(w) /\ at \in Ledgers
    BY <1>3, <1>4, <1>5, <1>7, LedgersAssumption DEF Ledgers
  <2>2. [w EXCEPT !.pc = "begin", !.at = at] = v
    BY <1>1 DEF Executions, Moved
  <2>3. Becomes(w, v)
    BY <1>7, <2>2 DEF OpenWindow
  <2>4. v \in Executions /\ InRange(v)
    <3>1. w.pos \in 0 .. MaxLedger /\ w.meta \in [0 .. MaxLedger -> 0 .. MaxReorgs]
      BY <1>1 DEF Executions
    <3>2. WorkStart(w) <= at /\ at <= WorkEnd(w)
      BY <2>1
    <3> HIDE DEF at, v
    <3>3. QED  BY <1>1, <1>2, <2>1, <3>1, <3>2, MovedInRange DEF v, InWindow
  <2>5. at \in {WorkStart(w), cp.last + 1}
    BY <1>5
  <2>6. QED  BY <1>2, <2>1, <2>3, <2>4, <2>5
<1>8. QED  BY <1>6, <1>7

InBatch(w) == \/ BeginWindow(w) \/ StartBatch(w) \/ AcceptParent(w)
              \/ StoreLedger(w) \/ StoreEvents(w)

LEMMA InBatchStep ==
    ASSUME TypeInv, NEW w \in workers, InBatch(w)
    PROVE  /\ w.pc \in InWindow \ {"commit"}
           /\ \E pc, pos, meta :
                LET v == Moved(w, pc, w.at, pos, meta)
                IN  /\ pc \in {"loop", "ledgers", "row", "events", "commit", "done", "stopped"}
                    /\ Becomes(w, v) /\ v \in Executions /\ InRange(v)
                    /\ pc \in {"commit", "done"} => StoreEvents(w)
<1> SUFFICES /\ w.pc \in InWindow \ {"commit"}
             /\ \E pc \in {"loop", "ledgers", "row", "events", "commit", "done", "stopped"},
                   pos \in 0 .. MaxLedger, meta \in [0 .. MaxLedger -> 0 .. MaxReorgs] :
                  /\ Becomes(w, Moved(w, pc, w.at, pos, meta))
                  /\ w.direct => pc \in {"ledgers", "row", "events", "done"}
                  /\ ~w.direct => pc # "done"
                  /\ pc \in {"ledgers", "row"} => w.at <= pos /\ pos <= BatchEnd(w)
                  /\ pc \in {"commit", "done"} => StoreEvents(w)
  <2>1. w \in Executions /\ InRange(w) /\ w.at \in Ledgers
    BY DEF TypeInv, TypeOK, WorkersInRange, Executions
  <2>2. /\ w.direct => w.at = w.from
        /\ ~w.direct => w.todo # {} /\ WorkStart(w) <= w.at /\ w.at <= WorkEnd(w)
    BY DEF TypeInv, WorkersInRange, InRange, InWindow
  <2>3. PICK pc \in {"loop", "ledgers", "row", "events", "commit", "done", "stopped"},
             pos \in 0 .. MaxLedger, meta \in [0 .. MaxLedger -> 0 .. MaxReorgs] :
                  /\ Becomes(w, Moved(w, pc, w.at, pos, meta))
                  /\ w.direct => pc \in {"ledgers", "row", "events", "done"}
                  /\ ~w.direct => pc # "done"
                  /\ pc \in {"ledgers", "row"} => w.at <= pos /\ pos <= BatchEnd(w)
                  /\ pc \in {"commit", "done"} => StoreEvents(w)
    OBVIOUS
  <2>4. Moved(w, pc, w.at, pos, meta) \in Executions /\ InRange(Moved(w, pc, w.at, pos, meta))
    BY <2>1, <2>2, <2>3, MovedInRange DEF InWindow
  <2>5. QED  BY <2>3, <2>4
<1> USE DEF InWindow
<1>1. /\ w \in Executions /\ InRange(w) /\ w.at \in Ledgers
      /\ w.pos \in 0 .. MaxLedger /\ w.meta \in [0 .. MaxLedger -> 0 .. MaxReorgs]
      /\ chain \in [0 .. MaxLedger -> 0 .. MaxReorgs]
  BY DEF TypeInv, TypeOK, WorkersInRange, Executions
<1>2. CASE BeginWindow(w)
  <2>1. w.pc = "begin" /\ ~w.direct
    BY <1>1, <1>2 DEF BeginWindow, InRange
  <2>2. Becomes(w, Moved(w, "loop", w.at, w.pos, w.meta))
    <3>1. [w EXCEPT !.pc = "loop"] = Moved(w, "loop", w.at, w.pos, w.meta)
      BY <1>1 DEF Executions, Moved
    <3>2. QED  BY <1>2, <3>1 DEF BeginWindow
  <2>3. QED  BY <1>1, <2>1, <2>2
<1>3. CASE StartBatch(w)
  <2>1. w.pc = "loop" /\ ~w.direct
    BY <1>1, <1>3 DEF StartBatch, InRange
  <2>2. CASE paused
    <3>1. [w EXCEPT !.pc = "stopped"] = Moved(w, "stopped", w.at, w.pos, w.meta)
      BY <1>1 DEF Executions, Moved
    <3>2. Becomes(w, Moved(w, "stopped", w.at, w.pos, w.meta))
      BY <1>3, <2>2, <3>1 DEF StartBatch
    <3>3. QED  BY <1>1, <2>1, <3>2
  <2>3. CASE ~paused
    <3>1. [w EXCEPT !.pc = "ledgers", !.pos = w.at, !.meta = chain]
            = Moved(w, "ledgers", w.at, w.at, chain)
      BY <1>1 DEF Executions, Moved
    <3>2. Becomes(w, Moved(w, "ledgers", w.at, w.at, chain))
      BY <1>3, <2>3, <3>1 DEF StartBatch
    <3>3. w.at <= BatchEnd(w) /\ w.at \in 0 .. MaxLedger /\ w.at <= w.at
      BY <1>1, <2>1, BatchInside DEF Ledgers
    <3>4. QED  BY <1>1, <2>1, <3>2, <3>3
  <2>4. QED  BY <2>2, <2>3
<1>4. CASE StoreLedger(w)
  <2>1. w.pc = "row" /\ w.at <= w.pos /\ w.pos <= BatchEnd(w) /\ BatchEnd(w) \in Ledgers
    BY <1>1, <1>4, BatchInside DEF StoreLedger, InRange, InWindow
  <2>2. CASE w.pos < BatchEnd(w)
    <3>1. [w EXCEPT !.pc = "ledgers", !.pos = w.pos + 1]
            = Moved(w, "ledgers", w.at, w.pos + 1, w.meta)
      BY <1>1, <2>1 DEF Executions, Moved
    <3>2. Becomes(w, Moved(w, "ledgers", w.at, w.pos + 1, w.meta))
      BY <1>4, <2>2, <3>1 DEF StoreLedger
    <3>3. w.pos + 1 \in 0 .. MaxLedger /\ w.at <= w.pos + 1 /\ w.pos + 1 <= BatchEnd(w)
      <4> DEFINE b == BatchEnd(w)
      <4>1. b \in 1 .. MaxLedger /\ w.pos \in 0 .. MaxLedger /\ w.at \in 1 .. MaxLedger
        BY <1>1, <2>1 DEF Ledgers
      <4>2. w.at <= w.pos /\ w.pos < b
        BY <2>1, <2>2
      <4> HIDE DEF b
      <4>3. w.pos + 1 \in 0 .. MaxLedger /\ w.at <= w.pos + 1 /\ w.pos + 1 <= b
        BY <4>1, <4>2, LedgersAssumption
      <4>4. QED  BY <4>3 DEF b
    <3>4. QED  BY <1>1, <2>1, <3>2, <3>3
  <2>3. CASE ~(w.pos < BatchEnd(w))
    <3>1. [w EXCEPT !.pc = "events"] = Moved(w, "events", w.at, w.pos, w.meta)
      BY <1>1 DEF Executions, Moved
    <3>2. Becomes(w, Moved(w, "events", w.at, w.pos, w.meta))
      BY <1>4, <2>3, <3>1 DEF StoreLedger
    <3>3. QED  BY <1>1, <2>1, <3>2
  <2>4. QED  BY <2>2, <2>3
<1>5. CASE AcceptParent(w)
  <2>1. w.pc = "ledgers" /\ w.at <= w.pos /\ w.pos <= BatchEnd(w)
    BY <1>1, <1>5 DEF AcceptParent, InRange
  <2>2. [w EXCEPT !.pc = "row"] = Moved(w, "row", w.at, w.pos, w.meta)
    BY <1>1 DEF Executions, Moved
  <2>3. Becomes(w, Moved(w, "row", w.at, w.pos, w.meta))
    BY <1>5, <2>2 DEF AcceptParent
  <2>4. QED  BY <1>1, <2>1, <2>3
<1>6. CASE StoreEvents(w)
  <2>1. w.pc = "events"
    BY <1>6 DEF StoreEvents
  <2> DEFINE pc == IF w.direct THEN "done" ELSE "commit"
  <2>2. [w EXCEPT !.pc = pc] = Moved(w, pc, w.at, w.pos, w.meta)
    BY <1>1 DEF Executions, Moved
  <2>3. Becomes(w, Moved(w, pc, w.at, w.pos, w.meta))
    BY <1>6, <2>2 DEF StoreEvents
  <2>4. QED  BY <1>1, <1>6, <2>1, <2>3
<1>7. QED  BY <1>2, <1>3, <1>4, <1>5, <1>6 DEF InBatch

\* The steps from a mismatch to the roll-back, which end in an error.
Unwind(w) == DetectReorg(w) \/ Backtrack(w) \/ RollbackLedgers(w)

\* The way back stays between the first ledger and the one at hand.
LEMMA WayBack ==
    ASSUME NEW w \in Executions, InRange(w), w.pc \in Unwinding
    PROVE  /\ CheckSeq(w) \in 0 .. w.pos - 2 /\ w.pos - 2 \in 0 .. MaxLedger
           /\ w.back \subseteq 1 .. w.pos - 1 /\ w.back # {}
<1>1. w.pos \in 0 .. MaxLedger /\ w.back # {} /\ w.back \subseteq 1 .. w.pos - 1
  BY DEF Executions, InRange
<1>2. w.back \in SUBSET Nat
  BY <1>1
<1>3. Min(w.back) \in w.back
  BY <1>1, <1>2, LeastWindow
<1>4. QED  BY <1>1, <1>3, LedgersAssumption DEF CheckSeq

LEMMA UnwindStep ==
    ASSUME TypeInv, NEW w \in workers, Unwind(w)
    PROVE  \E v : /\ Becomes(w, v) /\ v \in Executions /\ InRange(v)
                  /\ v.proc = w.proc /\ v.to = w.to
<1> DEFINE Stays(v) == /\ v.from = w.from /\ v.to = w.to /\ v.todo = w.todo
                       /\ v.direct = w.direct /\ v.at = w.at /\ v.proc = w.proc
<1>1. w \in Executions /\ InRange(w) /\ w.pos \in 0 .. MaxLedger
  BY DEF TypeInv, TypeOK, WorkersInRange, Executions
<1>2. ASSUME NEW v \in Executions, Stays(v), w.pc \in Unwinding \cup {"ledgers"},
             \/ v.pc \in Unwinding /\ v.back # {} /\ v.back \subseteq 1 .. v.pos - 1
             \/ v.pc = "reset"
      PROVE  InRange(v)
  BY <1>1, <1>2 DEF InRange, InWindow, Unwinding
<1>3. CASE DetectReorg(w)
  <2> DEFINE v == [w EXCEPT !.pc = "backtrack", !.back = {w.pos - 1}]
  <2>1. w.pc = "ledgers" /\ Becomes(w, v) /\ w.pos - 1 \in Ledgers
    BY <1>3 DEF DetectReorg, Mismatch, Rows
  <2>2. v \in Executions /\ Stays(v) /\ v.pc = "backtrack" /\ v.back = {w.pos - 1} /\ v.pos = w.pos
    BY <1>1, <2>1 DEF Executions
  <2>3. {w.pos - 1} \subseteq 1 .. w.pos - 1
    BY <1>1, <2>1 DEF Ledgers
  <2> HIDE DEF v
  <2>4. InRange(v)
    BY <1>2, <2>1, <2>2, <2>3 DEF Unwinding
  <2>5. QED  BY <2>1, <2>2, <2>4
<1>4. CASE Backtrack(w)
  <2>1. w.pc = "backtrack" /\ w.pc \in Unwinding
    BY <1>4 DEF Backtrack, Unwinding
  <2>2. /\ w.back \subseteq 1 .. w.pos - 1 /\ w.back # {} /\ w.back \subseteq Ledgers
        /\ Compared(w) => CheckSeq(w) \in 1 .. w.pos - 1 /\ CheckSeq(w) \in Ledgers
    BY <1>1, <2>1, WayBack DEF Compared, Rows, Ledgers, Executions
  <2>3. PICK pc \in Unwinding, B \in SUBSET Ledgers :
           /\ Becomes(w, [w EXCEPT !.pc = pc, !.back = B])
           /\ B # {} /\ B \subseteq 1 .. w.pos - 1
    <3>1. ASSUME NEW pc PROVE [w EXCEPT !.pc = pc] = [w EXCEPT !.pc = pc, !.back = w.back]
      BY <1>1 DEF Executions
    <3>2. \A B : [w EXCEPT !.back = B] = [w EXCEPT !.pc = w.pc, !.back = B]
      BY <1>1 DEF Executions
    <3>3. \/ \E pc \in {"safety", "ancestor"} : Becomes(w, [w EXCEPT !.pc = pc])
          \/ Compared(w) /\ Becomes(w, [w EXCEPT !.back = w.back \cup {CheckSeq(w)}])
      BY <1>4 DEF Backtrack
    <3>4. CASE \E pc \in {"safety", "ancestor"} : Becomes(w, [w EXCEPT !.pc = pc])
      BY <2>2, <3>1, <3>4 DEF Unwinding
    <3>5. CASE Compared(w) /\ Becomes(w, [w EXCEPT !.back = w.back \cup {CheckSeq(w)}])
      <4>1. w.back \cup {CheckSeq(w)} \in SUBSET Ledgers
        BY <2>2, <3>5
      <4>2. Becomes(w, [w EXCEPT !.pc = w.pc, !.back = w.back \cup {CheckSeq(w)}])
        BY <3>2, <3>5
      <4>3. w.back \cup {CheckSeq(w)} # {} /\ w.back \cup {CheckSeq(w)} \subseteq 1 .. w.pos - 1
        BY <2>2, <3>5
      <4>4. QED  BY <2>1, <4>1, <4>2, <4>3
    <3>6. QED  BY <3>3, <3>4, <3>5
  <2> DEFINE v == [w EXCEPT !.pc = pc, !.back = B]
  <2>4. v \in Executions /\ Stays(v) /\ v.pc = pc /\ v.back = B /\ v.pos = w.pos
    BY <1>1, <2>3 DEF Executions, Unwinding
  <2>5. Becomes(w, v)
    BY <2>3
  <2> HIDE DEF v
  <2>6. InRange(v)
    BY <1>2, <2>1, <2>3, <2>4
  <2>7. QED  BY <2>4, <2>5, <2>6
<1>5. CASE RollbackLedgers(w)
  <2> DEFINE v == [w EXCEPT !.pc = "reset", !.pos = CommonAncestor(w)]
  <2>1. w.pc \in Unwinding /\ Becomes(w, v)
    BY <1>5 DEF RollbackLedgers, Unwinding
  <2>2. CommonAncestor(w) \in 0 .. MaxLedger
    BY <1>1, <2>1, WayBack, LedgersAssumption DEF CommonAncestor
  <2>3. v \in Executions /\ Stays(v) /\ v.pc = "reset"
    BY <1>1, <2>2 DEF Executions
  <2> HIDE DEF v
  <2>4. InRange(v)
    BY <1>2, <2>1, <2>3
  <2>5. QED  BY <2>1, <2>3, <2>4
<1>6. QED  BY <1>3, <1>4, <1>5 DEF Unwind

LEMMA CommitBatchStep ==
    ASSUME TypeInv, NEW w \in workers, CommitBatch(w)
    PROVE  /\ ~w.direct /\ w.todo # {} /\ w.pc = "commit"
           /\ \/ Becomes(w, Leave(w)) /\ BatchEnd(w) = WorkEnd(w)
              \/ LET v == Moved(w, "loop", BatchEnd(w) + 1, w.pos, w.meta)
                 IN  Becomes(w, v) /\ v \in Executions /\ InRange(v)
<1> DEFINE v == Moved(w, "loop", BatchEnd(w) + 1, w.pos, w.meta)
<1>1. /\ w \in Executions /\ InRange(w) /\ w.pc = "commit"
      /\ w.pos \in 0 .. MaxLedger /\ w.meta \in [0 .. MaxLedger -> 0 .. MaxReorgs]
  BY DEF CommitBatch, TypeInv, TypeOK, WorkersInRange, Executions
<1>2. ~w.direct /\ w.todo # {} /\ WorkStart(w) <= w.at
  BY <1>1 DEF InRange, InWindow
<1>3. /\ BatchEnd(w) \in Ledgers /\ w.at \in Ledgers
      /\ w.at <= BatchEnd(w) /\ BatchEnd(w) <= WorkEnd(w)
      /\ WorkStart(w) \in Ledgers /\ WorkEnd(w) \in Ledgers
  BY <1>1, <1>2, BatchInside, WorkOfWindow DEF InWindow
<1>4. CASE BatchEnd(w) < WorkEnd(w)
  <2>1. [w EXCEPT !.pc = "loop", !.at = BatchEnd(w) + 1] = v
    BY <1>1 DEF Executions, Moved
  <2>2. Becomes(w, v)
    BY <1>4, <2>1 DEF CommitBatch
  <2>3. /\ BatchEnd(w) + 1 \in Ledgers
        /\ WorkStart(w) <= BatchEnd(w) + 1 /\ BatchEnd(w) + 1 <= WorkEnd(w)
    BY <1>2, <1>3, <1>4, LedgersAssumption DEF Ledgers
  <2>4. v \in Executions /\ InRange(v)
    BY <1>1, <1>2, <2>3, MovedInRange DEF InWindow
  <2>5. QED  BY <1>1, <1>2, <2>2, <2>4
<1>5. CASE ~(BatchEnd(w) < WorkEnd(w))
  <2>1. Becomes(w, Leave(w))
    BY <1>5 DEF CommitBatch
  <2>2. BatchEnd(w) = WorkEnd(w)
    BY <1>3, <1>5, LedgersAssumption DEF Ledgers
  <2>3. QED  BY <1>1, <1>2, <2>1, <2>2
<1>6. QED  BY <1>4, <1>5

\* Disowning a worker does not move it.
LEMMA Disowned ==
    ASSUME NEW v \in Executions, NEW b \in BOOLEAN, NEW u, u = [v EXCEPT !.owned = b]
    PROVE  /\ u \in Executions
           /\ u.from = v.from /\ u.to = v.to /\ u.todo = v.todo /\ u.direct = v.direct
           /\ u.proc = v.proc /\ u.pc = v.pc /\ u.at = v.at /\ u.owned = b
           /\ Current(u) = Current(v) /\ BatchEnd(u) = BatchEnd(v)
           /\ InRange(v) => InRange(u)
<1>1. /\ u \in Executions
      /\ u.from = v.from /\ u.to = v.to /\ u.todo = v.todo /\ u.direct = v.direct
      /\ u.proc = v.proc /\ u.pc = v.pc /\ u.at = v.at /\ u.pos = v.pos /\ u.owned = b
  BY DEF Executions
<1>2. Current(u) = Current(v)
  BY <1>1 DEF Current
<1>3. WorkStart(u) = WorkStart(v) /\ WorkEnd(u) = WorkEnd(v)
  BY <1>1, <1>2 DEF WorkStart, WorkEnd
<1>4. BatchEnd(u) = BatchEnd(v)
  BY <1>1, <1>3 DEF BatchEnd
<1>5. InRange(v) => InRange(u)
  BY <1>1, <1>3, <1>4 DEF InRange
<1>6. QED  BY <1>1, <1>2, <1>4, <1>5

\* The workers left behind by an error: each was there before, owned or not.
LEMMA Survivors ==
    ASSUME TypeInv, NEW w \in workers, Throw(w)
    PROVE  /\ sync' \in [Procs -> 0 .. MaxLedger]
           /\ \A u \in workers' : \E v \in workers : \E b \in BOOLEAN : u = [v EXCEPT !.owned = b]
           /\ \A q \in Procs : sync'[q] # 0 =>
                /\ sync'[q] = sync[q]
                /\ \A v \in workers : v.proc = q /\ v.owned => v \in workers'
<1>1. /\ w \in Executions /\ workers \subseteq Executions
      /\ sync \in [Procs -> 0 .. MaxLedger] /\ 0 \in 0 .. MaxLedger
  <2>1. w \in Executions /\ workers \subseteq Executions /\ sync \in [Procs -> 0 .. MaxLedger]
    BY DEF TypeInv, TypeOK
  <2>2. QED  BY <2>1, LedgersAssumption
<1>2. \A v \in workers : v.owned \in BOOLEAN /\ v = [v EXCEPT !.owned = v.owned]
  BY <1>1 DEF Executions
<1>3. CASE ~w.owned
  <2>1. sync' = sync /\ workers' = workers \ {w}
    BY <1>3 DEF Throw
  <2>2. QED  BY <1>1, <1>2, <1>3, <2>1
<1>4. CASE w.owned
  <2> DEFINE kept == {u \in workers \ {w} : ~(u.proc = w.proc /\ u.owned
                                                /\ u.pc \in {"done", "stopped"})}
  <2>1. /\ sync' = [sync EXCEPT ![w.proc] = 0]
        /\ workers' = {[v EXCEPT !.owned = v.owned /\ v.proc # w.proc] : v \in kept}
    BY <1>4 DEF Throw
  <2>2. \A u \in workers' : \E v \in workers : \E b \in BOOLEAN : u = [v EXCEPT !.owned = b]
    BY <1>2, <2>1
  <2>3. ASSUME NEW q \in Procs, sync'[q] # 0
        PROVE  /\ sync'[q] = sync[q]
               /\ \A v \in workers : v.proc = q /\ v.owned => v \in workers'
    <3>1. q # w.proc /\ sync'[q] = sync[q]
      BY <1>1, <2>1, <2>3
    <3>2. ASSUME NEW v \in workers, v.proc = q, v.owned
          PROVE  v \in workers'
      <4>1. v \in kept /\ (v.owned /\ v.proc # w.proc) = v.owned
        BY <1>2, <3>1, <3>2
      <4>2. [v EXCEPT !.owned = v.owned /\ v.proc # w.proc] = v
        BY <1>2, <4>1
      <4>3. QED  BY <2>1, <4>1, <4>2
    <3>3. QED  BY <3>1, <3>2
  <2>4. sync' \in [Procs -> 0 .. MaxLedger]
    BY <1>1, <2>1
  <2>5. QED  BY <2>2, <2>3, <2>4
<1>5. QED  BY <1>3, <1>4

LEMMA SurvivorsInRange ==
    ASSUME TypeInv, NEW w \in workers, Throw(w)
    PROVE  workers' \subseteq Executions /\ WorkersInRange'
<1>1. ASSUME NEW u \in workers' PROVE u \in Executions /\ InRange(u)
  <2>1. PICK v \in workers : \E b \in BOOLEAN : u = [v EXCEPT !.owned = b]
    BY Survivors
  <2>2. v \in Executions /\ InRange(v)
    BY DEF TypeInv, TypeOK, WorkersInRange
  <2>3. QED  BY <2>1, <2>2, Disowned
<1>2. QED  BY <1>1 DEF WorkersInRange

\* The workers of an iteration start in range, and owe all of it.
Fresh(p, from, to, W) ==
    W = {Worker(p, TRUE, from, to, {})} \/ W = CatchUpWorkers(p, from, to)

LEMMA FreshWorkers ==
    ASSUME TypeInv, NEW p \in Procs \cup Jobs, NEW from \in Ledgers, NEW to \in Ledgers, from <= to,
           NEW W, Fresh(p, from, to, W)
    PROVE  /\ \A w \in W : /\ w \in Executions /\ InRange(w)
                           /\ w.proc = p /\ w.owned /\ w.from = from
                           /\ w.pc = IF w.direct THEN "ledgers" ELSE "open"
           /\ \A n \in from .. to : \E w \in W : n \in Owed(w)
<1>1. chain \in [0 .. MaxLedger -> 0 .. MaxReorgs] /\ from \in 0 .. MaxLedger
  BY LedgersAssumption DEF TypeInv, TypeOK, Ledgers
<1>2. CASE W = {Worker(p, TRUE, from, to, {})}
  <2> DEFINE w == Worker(p, TRUE, from, to, {})
  <2>1. w \in Executions
    BY <1>1 DEF Worker, Executions
  <2>2. /\ w.proc = p /\ w.owned /\ w.direct /\ w.from = from /\ w.to = to /\ w.todo = {}
        /\ w.pc = "ledgers" /\ w.at = from /\ w.pos = from
    BY DEF Worker
  <2> HIDE DEF w
  <2>3. BatchEnd(w) = to /\ from <= from
    BY <2>2 DEF BatchEnd, Ledgers
  <2>4. InRange(w)
    BY <2>2, <2>3 DEF InRange, InWindow, Unwinding
  <2>5. \A n \in from .. to : n \in Owed(w)
    BY <2>2 DEF Owed
  <2>6. W = {w}
    BY <1>2 DEF w
  <2>7. QED  BY <2>1, <2>2, <2>4, <2>5, <2>6
<1>3. CASE W = CatchUpWorkers(p, from, to)
  <2> DEFINE wins == {WindowOf(n) : n \in from .. to}
             share(k) == {v \in wins : (v - WindowOf(from)) % Workers = k}
             w(k) == Worker(p, FALSE, from, to, share(k))
  <2>1. W = {w(k) : k \in {i \in 0 .. Workers - 1 : share(i) # {}}}
    BY <1>3 DEF CatchUpWorkers
  <2>2. wins \subseteq Windows /\ wins \subseteq Nat /\ WindowOf(from) \in Nat
    <3>1. \A n \in from .. to : n \in Ledgers
      BY LedgersAssumption DEF Ledgers
    <3>2. QED  BY <3>1, WindowHolds DEF Windows
  <2>3. ASSUME NEW k \in 0 .. Workers - 1, share(k) # {}
        PROVE  /\ w(k) \in Executions /\ InRange(w(k))
               /\ w(k).proc = p /\ w(k).owned /\ w(k).from = from /\ w(k).pc = "open"
               /\ w(k).to = to /\ w(k).todo = share(k) /\ ~w(k).direct
    <3>1. share(k) \in SUBSET Windows /\ share(k) \subseteq wins
      BY <2>2
    <3> DEFINE s == share(k)
               x == Worker(p, FALSE, from, to, s)
    <3> HIDE DEF share, s
    <3>2. x \in Executions
      BY <1>1, <3>1 DEF Worker, Executions, s
    <3>3. /\ x.proc = p /\ x.owned /\ ~x.direct /\ x.from = from /\ x.to = to
          /\ x.todo = s /\ x.pc = "open"
      BY DEF Worker
    <3> HIDE DEF x
    <3>4. InRange(x)
      BY <2>3, <3>1, <3>3 DEF InRange, InWindow, Unwinding, s
    <3>5. QED  BY <3>2, <3>3, <3>4 DEF x, s
  <2>4. ASSUME NEW n \in from .. to
        PROVE  \E v \in W : n \in Owed(v)
    <3> DEFINE d == WindowOf(n) - WindowOf(from)
               k == d % Workers
    <3>1. WindowOf(n) \in wins /\ d \in Int
      <4>1. WindowOf(n) \in wins
        OBVIOUS
      <4>2. WindowOf(n) \in Nat /\ WindowOf(from) \in Nat
        <5> HIDE DEF wins
        <5>1. QED  BY <2>2, <4>1
      <4>3. QED  BY <4>1, <4>2
    <3>2. k \in 0 .. Workers - 1
      BY <3>1, SizesAssumption
    <3>3. WindowOf(n) \in share(k)
      BY <3>1
    <3> HIDE DEF k
    <3>4. w(k) \in W
      <4> HIDE DEF share, w
      <4>1. share(k) # {}
        BY <3>3
      <4>2. QED  BY <2>1, <3>2, <4>1
    <3>5. n \in Owed(w(k))
      <4> HIDE DEF share, w
      <4>1. w(k).from = from /\ w(k).to = to /\ w(k).todo = share(k) /\ ~w(k).direct
        BY <2>3, <3>2, <3>3
      <4>2. QED  BY <3>3, <4>1 DEF Owed
    <3>6. QED  BY <3>4, <3>5
  <2>5. \A v \in W : /\ v \in Executions /\ InRange(v)
                     /\ v.proc = p /\ v.owned /\ v.from = from
                     /\ v.pc = IF v.direct THEN "ledgers" ELSE "open"
    <3> HIDE DEF share, w
    <3>1. QED  BY <2>1, <2>3
  <2>6. QED  BY <2>4, <2>5
<1>4. QED  BY <1>2, <1>3 DEF Fresh

\* An iteration hands the ledgers behind the cursor up to some ledger to fresh
\* workers.
IterationShape(p, from, to, W) ==
    /\ from \in Ledgers /\ to \in Ledgers /\ from = cursor + 1 /\ from <= to
    /\ sync' = [sync EXCEPT ![p] = to]
    /\ workers' = workers \cup W
    /\ Fresh(p, from, to, W)

LEMMA IterateStep ==
    ASSUME TypeInv, NEW p \in Procs, NEW target \in 1 .. tip, Iterate(p, target)
    PROVE  \E from, to, W : IterationShape(p, from, to, W)
<1> DEFINE from == cursor + 1
           gap == from < target
           to == IF gap THEN target - 1 ELSE target
           parallel == gap /\ to - from >= Batch
           W == IF parallel THEN CatchUpWorkers(p, from, to)
                            ELSE {Worker(p, TRUE, from, to, {})}
<1>1. cursor < target /\ sync' = [sync EXCEPT ![p] = to] /\ workers' = workers \cup W
  BY DEF Iterate
<1>2. cursor \in 0 .. MaxLedger /\ target \in 1 .. MaxLedger
  BY LedgersAssumption DEF TypeInv, TypeOK
<1>3. from \in Ledgers /\ to \in Ledgers /\ from <= to
  BY <1>1, <1>2, LedgersAssumption DEF Ledgers
<1>4. Fresh(p, from, to, W)
  BY DEF Fresh
<1> HIDE DEF from, to, W
<1>5. IterationShape(p, from, to, W)
  BY <1>1, <1>3, <1>4 DEF IterationShape, from
<1>6. QED  BY <1>3, <1>5

LEMMA TypeStep ==
    ASSUME TypeInv, [Next]_vars
    PROVE  TypeInv'
<1> USE LedgersAssumption, BoundsAssumption
<1>0. /\ workers \subseteq Executions /\ WorkersInRange
      /\ \A w \in workers : w \in Executions /\ InRange(w)
  BY DEF TypeInv, TypeOK, WorkersInRange
<1>1. ASSUME NEW w \in workers, OpenWindow(w)
      PROVE  TypeInv'
  <2>1. workers' \subseteq Executions /\ WorkersInRange'
    BY <1>0, <1>1, OpenWindowStep, LeaveWindow, Successor
  <2>2. QED  BY <1>1, <2>1 DEF OpenWindow, TypeInv, TypeOK, network, stored
<1>2. ASSUME NEW w \in workers, InBatch(w)
      PROVE  TypeInv'
  <2>1. workers' \subseteq Executions /\ WorkersInRange'
    BY <1>0, <1>2, InBatchStep, Successor
  <2>2. w.pc \in InWindow \ {"commit"} /\ w \in Executions /\ InRange(w)
    BY <1>0, <1>2, InBatchStep
  <2>3. CASE BeginWindow(w)
    <3>1. w.todo # {} /\ w.at \in Ledgers
      BY <2>2, <2>3 DEF BeginWindow, InRange, Executions
    <3>2. Current(w) \in Windows
      BY <2>2, <3>1, WorkOfWindow
    <3>3. (IF w.at > WorkStart(w) THEN w.at - 1 ELSE 0) \in 0 .. MaxLedger
      BY <3>1 DEF Ledgers
    <3>4. checkpoint' \in [Windows -> [last : 0 .. MaxLedger, done : BOOLEAN]]
      BY <2>3, <3>2, <3>3 DEF BeginWindow, TypeInv, TypeOK
    <3>5. QED  BY <2>1, <2>3, <3>4 DEF BeginWindow, TypeInv, TypeOK, network, stored
  <2>4. CASE StartBatch(w)
    BY <2>1, <2>4 DEF StartBatch, TypeInv, TypeOK, network, stored
  <2>5. CASE StoreLedger(w)
    <3>1. w.pos \in 0 .. MaxLedger /\ w.meta[w.pos] \in -1 .. MaxReorgs
      BY <2>2 DEF Executions
    <3>2. hash' \in [0 .. MaxLedger -> -1 .. MaxReorgs]
      BY <2>5, <3>1 DEF StoreLedger, TypeInv, TypeOK
    <3>3. QED  BY <2>1, <2>5, <3>2 DEF StoreLedger, TypeInv, TypeOK, network
  <2>6. CASE AcceptParent(w)
    BY <2>1, <2>6 DEF AcceptParent, TypeInv, TypeOK, network, stored
  <2>7. CASE StoreEvents(w)
    <3>1. BatchEnd(w) \in Ledgers /\ w.at \in Ledgers
      BY <2>2, BatchInside
    <3>2. w.at .. BatchEnd(w) \subseteq Ledgers
      BY <3>1 DEF Ledgers
    <3>3. indexed' \subseteq Ledgers
      BY <2>7, <3>2 DEF StoreEvents, TypeInv, TypeOK
    <3>4. QED  BY <2>1, <2>7, <3>3 DEF StoreEvents, TypeInv, TypeOK, network
  <2>8. QED  BY <1>2, <2>3, <2>4, <2>5, <2>6, <2>7 DEF InBatch
<1>12. ASSUME NEW w \in workers, Unwind(w)
       PROVE  TypeInv'
  <2>1. workers' \subseteq Executions /\ WorkersInRange'
    BY <1>0, <1>12, UnwindStep, Successor
  <2>2. CASE DetectReorg(w)
    BY <2>1, <2>2 DEF DetectReorg, TypeInv, TypeOK, network, stored
  <2>3. CASE Backtrack(w)
    <3>1. faults' \in 0 .. MaxFaults
      BY <2>3 DEF Backtrack, TypeInv, TypeOK
    <3>2. QED  BY <2>1, <2>3, <3>1 DEF Backtrack, TypeInv, TypeOK, network, stored
  <2>4. CASE RollbackLedgers(w)
    <3>1. hash' \in [0 .. MaxLedger -> -1 .. MaxReorgs] /\ indexed' \subseteq Ledgers
      BY <2>4 DEF RollbackLedgers, TypeInv, TypeOK
    <3>2. QED  BY <2>1, <2>4, <3>1 DEF RollbackLedgers, TypeInv, TypeOK, network
  <2>5. QED  BY <1>12, <2>2, <2>3, <2>4 DEF Unwind
<1>3. ASSUME NEW w \in workers, CommitBatch(w)
      PROVE  TypeInv'
  <2>1. workers' \subseteq Executions /\ WorkersInRange'
    BY <1>0, <1>3, CommitBatchStep, LeaveWindow, Successor
  <2>2. w.todo # {} /\ w.pc = "commit"
    BY <1>3, CommitBatchStep
  <2>3. Current(w) \in Windows /\ BatchEnd(w) \in 0 .. MaxLedger
    BY <1>0, <2>2, WorkOfWindow, BatchInside DEF Ledgers, InWindow
  <2>4. checkpoint' \in [Windows -> [last : 0 .. MaxLedger, done : BOOLEAN]]
    BY <1>3, <2>3 DEF CommitBatch, TypeInv, TypeOK
  <2>5. QED  BY <1>3, <2>1, <2>4 DEF CommitBatch, TypeInv, TypeOK, network, stored
<1>4. ASSUME NEW w \in workers, ResetCursor(w)
      PROVE  TypeInv'
  <2>1. workers' \subseteq Executions /\ WorkersInRange' /\ sync' \in [Procs -> 0 .. MaxLedger]
    BY <1>4, Survivors, SurvivorsInRange DEF ResetCursor
  <2>2. cursor' \in 0 .. MaxLedger
    BY <1>0, <1>4 DEF ResetCursor, Executions
  <2>3. QED  BY <1>4, <2>1, <2>2 DEF ResetCursor, TypeInv, TypeOK, network, stored
<1>5. ASSUME NEW w \in workers, WorkerFails(w)
      PROVE  TypeInv'
  <2>1. workers' \subseteq Executions /\ WorkersInRange' /\ sync' \in [Procs -> 0 .. MaxLedger]
    BY <1>5, Survivors, SurvivorsInRange DEF WorkerFails
  <2>2. indexed' \subseteq Ledgers
    <3>1. CASE w.pc = "events"
      <4>1. BatchEnd(w) \in Ledgers /\ w.at \in Ledgers
        BY <1>0, <3>1, BatchInside DEF InWindow
      <4>2. PICK n \in w.at - 1 .. BatchEnd(w) : indexed' = indexed \cup (w.at .. n)
        BY <1>5, <3>1 DEF WorkerFails
      <4>3. w.at .. n \subseteq Ledgers
        BY <4>1 DEF Ledgers
      <4>4. QED  BY <4>2, <4>3 DEF TypeInv, TypeOK
    <3>2. CASE w.pc # "events"
      BY <1>5, <3>2 DEF WorkerFails, TypeInv, TypeOK
    <3>3. QED  BY <3>1, <3>2
  <2>3. faults' \in 0 .. MaxFaults
    BY <1>5 DEF WorkerFails, TypeInv, TypeOK
  <2>4. QED  BY <1>5, <2>1, <2>2, <2>3 DEF WorkerFails, TypeInv, TypeOK, network
<1>6. ASSUME NEW p \in Procs, Advance(p)
      PROVE  TypeInv'
  <2>1. workers' \subseteq Executions /\ WorkersInRange'
    BY <1>0, <1>6 DEF Advance, WorkersInRange
  <2>2. cursor' \in 0 .. MaxLedger /\ sync' \in [Procs -> 0 .. MaxLedger]
    BY <1>6 DEF Advance, TypeInv, TypeOK
  <2>3. QED  BY <1>6, <2>1, <2>2 DEF Advance, TypeInv, TypeOK, network, stored
<1>7. ASSUME NEW p \in Procs, Crash(p)
      PROVE  TypeInv'
  <2>1. workers' \subseteq Executions /\ WorkersInRange'
    BY <1>0, <1>7 DEF Crash, WorkersInRange
  <2>2. faults' \in 0 .. MaxFaults /\ sync' \in [Procs -> 0 .. MaxLedger]
    BY <1>7 DEF Crash, TypeInv, TypeOK
  <2>3. QED  BY <1>7, <2>1, <2>2 DEF Crash, TypeInv, TypeOK, network, stored
<1>8. ASSUME NEW p \in Procs, NEW target \in 1 .. tip, Iterate(p, target)
      PROVE  TypeInv'
  <2>1. PICK from, to, W : IterationShape(p, from, to, W)
    BY <1>8, IterateStep
  <2>2. \A w \in W : w \in Executions /\ InRange(w)
    BY <2>1, FreshWorkers DEF IterationShape
  <2>3. workers' \subseteq Executions /\ WorkersInRange'
    BY <1>0, <2>1, <2>2 DEF WorkersInRange, IterationShape
  <2>4. sync' \in [Procs -> 0 .. MaxLedger]
    BY <2>1 DEF TypeInv, TypeOK, Ledgers, IterationShape
  <2>5. QED  BY <1>8, <2>3, <2>4 DEF Iterate, TypeInv, TypeOK, network, stored
<1>9. CASE SetIndexerPaused \/ CloseLedger
  <2>1. CASE SetIndexerPaused
    <3>1. paused' \in BOOLEAN
      BY <2>1 DEF SetIndexerPaused
    <3>2. QED  BY <2>1, <3>1 DEF SetIndexerPaused, TypeInv, TypeOK, WorkersInRange, network, stored
  <2>2. CASE CloseLedger
    <3>1. tip' \in 0 .. MaxLedger
      BY <2>2 DEF CloseLedger, TypeInv, TypeOK
    <3>2. QED  BY <2>2, <3>1 DEF CloseLedger, TypeInv, TypeOK, WorkersInRange, stored
  <2>3. QED  BY <1>9, <2>1, <2>2
<1>10. ASSUME NEW n \in 2 .. tip, Reorganise(n)
       PROVE  TypeInv'
  <2>1. chain' \in [0 .. MaxLedger -> 0 .. MaxReorgs] /\ reorgs' \in 0 .. MaxReorgs
    BY <1>10 DEF Reorganise, TypeInv, TypeOK
  <2>2. QED  BY <1>10, <2>1 DEF Reorganise, TypeInv, TypeOK, WorkersInRange, stored
<1>11. CASE UNCHANGED vars
  BY <1>11 DEF vars, TypeInv, TypeOK, WorkersInRange
<1>13. QED
  BY <1>12, <1>1, <1>2, <1>3, <1>4, <1>5, <1>6, <1>7, <1>8, <1>9, <1>10, <1>11
     DEF Next, IndexerNext, WorkerStep, InBatch, Unwind

LEMMA TypeInit == Init => TypeInv
<1> SUFFICES ASSUME Init PROVE TypeInv
  OBVIOUS
<1>1. tip \in 0 .. MaxLedger /\ cursor \in 0 .. MaxLedger
  BY LedgersAssumption DEF Init
<1>2. /\ chain \in [0 .. MaxLedger -> 0 .. MaxReorgs]
      /\ hash \in [0 .. MaxLedger -> -1 .. MaxReorgs]
      /\ faults \in 0 .. MaxFaults /\ reorgs \in 0 .. MaxReorgs
  BY BoundsAssumption DEF Init
<1>3. /\ checkpoint \in [Windows -> [last : 0 .. MaxLedger, done : BOOLEAN]]
      /\ sync \in [Procs -> 0 .. MaxLedger]
  BY LedgersAssumption DEF Init
<1>4. indexed = {} /\ workers = {} /\ paused \in BOOLEAN
  BY DEF Init
<1>5. QED  BY <1>1, <1>2, <1>3, <1>4 DEF TypeInv, TypeOK, WorkersInRange

LEMMA TypeInvariant == Spec => []TypeInv
BY TypeInit, TypeStep, PTL DEF Spec

\* Every variable keeps its type, over crashes, errors and reorganisations: no
\* worker leaves its work, no cursor or checkpoint the ledgers there are.
THEOREM CatchUpTypes == Spec => []TypeOK
<1>1. TypeInv => TypeOK
  BY DEF TypeInv
<1>2. QED  BY <1>1, TypeInvariant, PTL

-----------------------------------------------------------------------------
(* Nothing is missing behind the cursor, on a chain that is not reorganised. *)

SoundInv == TypeInv /\ NoGaps /\ CheckpointSound /\ WorkersGrounded /\ Covered

\* Indexing more never invalidates a checkpoint, a worker or the cursor.
LEMMA IndexedGrows ==
    ASSUME indexed \subseteq indexed'
    PROVE  /\ \A w : Grounded(w) => Grounded(w)'
           /\ CheckpointSound /\ checkpoint' = checkpoint => CheckpointSound'
           /\ WorkersGrounded /\ NoGaps /\ cursor' = cursor => NoGaps'
<1>1. ASSUME NEW w, Grounded(w) PROVE Grounded(w)'
  BY <1>1 DEF Grounded
<1>2. CheckpointSound /\ checkpoint' = checkpoint => CheckpointSound'
  BY DEF CheckpointSound
<1>3. WorkersGrounded /\ NoGaps /\ cursor' = cursor => NoGaps'
  BY DEF NoGaps, WorkersGrounded, Grounded
<1>4. QED  BY <1>1, <1>2, <1>3

LEMMA GroundedSuccessor ==
    ASSUME WorkersGrounded, indexed \subseteq indexed',
           NEW w \in workers, NEW v, Becomes(w, v), Grounded(v)'
    PROVE  WorkersGrounded'
<1>1. ASSUME NEW u \in workers' PROVE Grounded(u)'
  <2>1. u = v \/ u \in workers
    BY DEF Becomes
  <2>2. CASE u \in workers
    BY <2>2, IndexedGrows DEF WorkersGrounded
  <2>3. QED  BY <2>1, <2>2
<1>2. QED  BY <1>1 DEF WorkersGrounded

\* The successor of a worker owes what the worker owed and has not indexed.
LEMMA CoveredSuccessor ==
    ASSUME TypeInv, Covered, indexed \subseteq indexed', sync' = sync,
           NEW w \in workers, NEW v, Becomes(w, v), v.owned = w.owned, v.proc = w.proc,
           \A n \in Owed(w) : n > StartLedger => n \in Owed(v) \/ n \in indexed'
    PROVE  Covered'
<1> SUFFICES ASSUME NEW p \in Procs, sync[p] # 0, NEW n \in StartLedger + 1 .. sync[p]
             PROVE  n \in indexed' \/ \E u \in Own(p)' : n \in Owed(u)
  BY DEF Covered, Owed
<1>1. CASE n \in indexed
  BY <1>1
<1>2. ASSUME NEW u \in Own(p), n \in Owed(u), u # w
      PROVE  \E x \in Own(p)' : n \in Owed(x)
  BY <1>2 DEF Own, Becomes
<1>3. CASE w \in Own(p) /\ n \in Owed(w)
  <2>1. n > StartLedger
    BY LedgersAssumption DEF TypeInv, TypeOK
  <2>2. v \in Own(p)'
    BY <1>3 DEF Own, Becomes
  <2>3. QED  BY <1>3, <2>1, <2>2
<1>4. QED  BY <1>1, <1>2, <1>3 DEF Covered

LEMMA OpenWindowSound ==
    ASSUME SoundInv, TypeInv', NEW w \in workers, OpenWindow(w)
    PROVE  SoundInv'
<1>1. /\ indexed' = indexed /\ sync' = sync /\ cursor' = cursor /\ checkpoint' = checkpoint
  BY DEF OpenWindow, stored
<1>2. /\ w \in Executions /\ InRange(w) /\ Grounded(w) /\ ~w.direct /\ w.todo # {}
      /\ indexed \subseteq Ledgers
  BY OpenWindowStep DEF SoundInv, TypeInv, TypeOK, WorkersInRange, WorkersGrounded
<1> DEFINE c == Current(w)
           cp == checkpoint[c]
<1>3. /\ c \in Windows /\ RangeStart(c) \in Int /\ RangeEnd(c) \in Int
      /\ WorkStart(w) \in Ledgers /\ WorkEnd(w) \in Ledgers
      /\ WorkStart(w) \in {w.from, RangeStart(c)} /\ RangeStart(c) <= WorkStart(w)
      /\ WorkEnd(w) <= RangeEnd(c)
      /\ \A n \in w.from .. w.to : WindowOf(n) = c => n \in WorkStart(w) .. WorkEnd(w)
  BY <1>2, WorkOfWindow
<1>4. cp.last \in Nat
  BY <1>3, LedgersAssumption DEF SoundInv, TypeInv, TypeOK
<1>5. /\ {n \in RangeStart(c) .. cp.last : n > StartLedger} \subseteq indexed
      /\ cp.done => {n \in RangeStart(c) .. RangeEnd(c) : n > StartLedger} \subseteq indexed
  BY <1>3 DEF SoundInv, CheckpointSound
<1> HIDE DEF c, cp
<1>6. NoGaps' /\ CheckpointSound'
  BY <1>1, IndexedGrows DEF SoundInv
<1>7. CASE Becomes(w, Leave(w)) /\ (cp.done \/ cp.last >= WorkEnd(w))
  <2> DEFINE v == Leave(w)
  <2>1. /\ v.from = w.from /\ v.to = w.to /\ v.todo = w.todo \ {c} /\ v.direct = w.direct
        /\ v.owned = w.owned /\ v.proc = w.proc /\ v.pc \in {"done", "open"}
    BY <1>2 DEF Leave, Executions, c
  <2>2. Becomes(w, v)
    BY <1>7
  <2> HIDE DEF v
  <2>3. Grounded(v)
    BY <1>2, <2>1 DEF Grounded, InWindow, Unwinding
  <2>4. ASSUME NEW n \in Owed(w), n > StartLedger
        PROVE  n \in Owed(v) \/ n \in indexed'
    <3>1. n \in w.from .. w.to /\ WindowOf(n) \in w.todo
      BY <1>2 DEF Owed
    <3>2. CASE WindowOf(n) # c
      BY <1>2, <2>1, <3>1, <3>2 DEF Owed
    <3>3. CASE WindowOf(n) = c
      <4>1. n \in WorkStart(w) .. WorkEnd(w)
        BY <1>3, <3>1, <3>3
      <4>2. n \in RangeStart(c) .. RangeEnd(c) /\ (cp.last >= WorkEnd(w) => n \in RangeStart(c) .. cp.last)
        BY <1>3, <1>4, <4>1 DEF Ledgers
      <4>3. n \in indexed
        BY <1>5, <1>7, <2>4, <4>2
      <4>4. QED  BY <1>1, <4>3
    <3>4. QED  BY <3>2, <3>3
  <2>5. WorkersGrounded'
    BY <1>1, <2>2, <2>3, IndexedGrows, GroundedSuccessor DEF SoundInv
  <2>6. Covered'
    BY <1>1, <2>1, <2>2, <2>4, CoveredSuccessor DEF SoundInv
  <2>7. QED  BY <1>6, <2>5, <2>6 DEF SoundInv
<1>8. ASSUME NEW at \in WorkStart(w) .. WorkEnd(w), at \in {WorkStart(w), cp.last + 1},
             NEW v, v = Moved(w, "begin", at, w.pos, w.meta), Becomes(w, v)
      PROVE  SoundInv'
  <2>1. /\ v.from = w.from /\ v.to = w.to /\ v.todo = w.todo /\ v.direct = w.direct
        /\ v.owned = w.owned /\ v.proc = w.proc /\ v.pc = "begin" /\ v.at = at /\ Current(v) = c
    BY <1>2, <1>8, SameWindow DEF c
  <2>2. {n \in RangeStart(c) .. at - 1 : n > StartLedger} \subseteq indexed
    <3>1. CASE at = cp.last + 1
      BY <1>3, <1>4, <1>5, <3>1
    <3>2. CASE at = w.from
      BY <1>2, <1>3, <3>2, LedgersAssumption DEF Grounded, Ledgers
    <3>3. CASE at = RangeStart(c)
      BY <1>3, <3>3
    <3>4. QED  BY <1>3, <1>8, <3>1, <3>2, <3>3
  <2>3. Grounded(v)
    BY <1>2, <2>1, <2>2 DEF Grounded, InWindow, Unwinding
  <2>4. WorkersGrounded'
    BY <1>1, <1>8, <2>3, IndexedGrows, GroundedSuccessor DEF SoundInv
  <2>5. \A n \in Owed(w) : n \in Owed(v)
    BY <1>2, <2>1 DEF Owed
  <2>6. Covered'
    BY <1>1, <1>8, <2>1, <2>5, CoveredSuccessor DEF SoundInv
  <2>7. QED  BY <1>6, <2>4, <2>6 DEF SoundInv
<1>9. QED  BY <1>7, <1>8, OpenWindowStep DEF SoundInv, c, cp

\* Without a reorganisation every row agrees with the network.
LEMMA NoMismatch ==
    ASSUME MaxReorgs = 0, TypeInv, NEW w \in workers, w.pc = "ledgers"
    PROVE  ~Mismatch(w)
<1>1. w \in Executions /\ InRange(w) /\ w.at \in Ledgers
  BY DEF TypeInv, TypeOK, WorkersInRange, Executions
<1>2. w.pos - 1 \in 0 .. MaxLedger
  BY <1>1, LedgersAssumption DEF InRange, Executions, Ledgers
<1>3. w.meta[w.pos - 1] \in 0 .. 0 /\ hash[w.pos - 1] \in -1 .. 0
  BY <1>1, <1>2 DEF TypeInv, TypeOK, Executions
<1>4. QED  BY <1>3 DEF Mismatch, Rows

LEMMA NoUnwind ==
    ASSUME MaxReorgs = 0, TypeInv, NEW w \in workers, Grounded(w)
    PROVE  ~Unwind(w)
<1>1. ~DetectReorg(w)
  BY NoMismatch DEF DetectReorg
<1>2. ~Backtrack(w) /\ ~RollbackLedgers(w)
  BY DEF Grounded, Unwinding, Backtrack, RollbackLedgers
<1>3. QED  BY <1>1, <1>2 DEF Unwind

LEMMA InBatchSound ==
    ASSUME MaxReorgs = 0, SoundInv, TypeInv', NEW w \in workers, InBatch(w)
    PROVE  SoundInv'
<1>0. TypeInv /\ WorkersGrounded /\ Covered /\ NoGaps /\ CheckpointSound
  BY DEF SoundInv
<1>1. /\ w \in Executions /\ InRange(w) /\ Grounded(w)
      /\ w.pc \in InWindow \ {"commit"}
  BY <1>0, InBatchStep DEF TypeInv, TypeOK, WorkersInRange, WorkersGrounded
<1>3. /\ indexed \subseteq indexed' /\ sync' = sync /\ cursor' = cursor
      /\ StoreEvents(w) => w.at .. BatchEnd(w) \subseteq indexed'
  BY DEF InBatch, BeginWindow, StartBatch, AcceptParent, StoreLedger, StoreEvents, stored
<1>4. PICK pc, pos, meta :
        LET v == Moved(w, pc, w.at, pos, meta)
        IN  /\ pc \in {"loop", "ledgers", "row", "events", "commit", "done", "stopped"}
            /\ Becomes(w, v) /\ v \in Executions /\ InRange(v)
            /\ pc \in {"commit", "done"} => StoreEvents(w)
  BY <1>0, InBatchStep
<1> DEFINE v == Moved(w, pc, w.at, pos, meta)
<1>5. /\ v.from = w.from /\ v.to = w.to /\ v.todo = w.todo /\ v.direct = w.direct
      /\ v.owned = w.owned /\ v.proc = w.proc /\ v.pc = pc /\ v.at = w.at
      /\ Current(v) = Current(w) /\ BatchEnd(v) = BatchEnd(w)
  BY <1>1, SameWindow
<1>6. /\ Becomes(w, v) /\ InRange(v) /\ (pc \in {"commit", "done"} => StoreEvents(w))
      /\ pc \notin Unwinding \cup {"reset"}
  BY <1>4 DEF Unwinding
<1> HIDE DEF v
<1>7. WorkersGrounded'
  <2>1. ~w.direct =>
          /\ StartLedger + 1 .. w.from - 1 \subseteq indexed'
          /\ {n \in RangeStart(Current(w)) .. w.at - 1 : n > StartLedger} \subseteq indexed'
    BY <1>1, <1>3 DEF Grounded
  <2>2. Grounded(v)'
    BY <1>3, <1>5, <1>6, <2>1 DEF Grounded
  <2>3. QED  BY <1>0, <1>3, <1>6, <2>2, GroundedSuccessor
<1>8. Covered'
  <2>1. ASSUME NEW n \in Owed(w)
        PROVE  n \in Owed(v) \/ n \in indexed'
    <3>1. CASE ~w.direct
      BY <1>5, <3>1 DEF Owed
    <3>2. CASE w.direct /\ pc # "done"
      BY <1>1, <1>5, <3>2 DEF Owed
    <3>3. CASE w.direct /\ pc = "done"
      <4>1. w.from .. w.to \subseteq indexed'
        BY <1>1, <1>3, <1>6, <3>3, BatchInside
      <4>2. QED  BY <3>3, <4>1 DEF Owed
    <3>4. QED  BY <3>1, <3>2, <3>3
  <2>2. QED  BY <1>0, <1>3, <1>5, <1>6, <2>1, CoveredSuccessor
<1>9. NoGaps'
  BY <1>0, <1>3, IndexedGrows
<1>10. CheckpointSound'
  <2>1. CASE BeginWindow(w)
    <3>1. ~w.direct /\ w.todo # {} /\ w.pc = "begin" /\ w.at \in Ledgers
      BY <1>1, <2>1 DEF BeginWindow, InRange, Executions
    <3>2. Current(w) \in Windows /\ RangeStart(Current(w)) \in Int
      BY <1>1, <3>1, WorkOfWindow
    <3>3. {n \in RangeStart(Current(w)) .. w.at - 1 : n > StartLedger} \subseteq indexed
      BY <1>1, <3>1 DEF Grounded
    <3>4. /\ indexed' = indexed
          /\ \A u \in Windows : checkpoint'[u] =
               IF u = Current(w) THEN [last |-> IF w.at > WorkStart(w) THEN w.at - 1 ELSE 0,
                                       done |-> FALSE]
               ELSE checkpoint[u]
      BY <1>0, <2>1, <3>2 DEF BeginWindow, TypeInv, TypeOK, stored
    <3>5. {n \in RangeStart(Current(w)) .. 0 : n > StartLedger} \subseteq indexed
      BY LedgersAssumption
    <3>6. QED  BY <1>0, <3>3, <3>4, <3>5 DEF CheckpointSound
  <2>2. CASE ~BeginWindow(w)
    <3>1. checkpoint' = checkpoint
      BY <2>2 DEF InBatch, StartBatch, AcceptParent, StoreLedger, StoreEvents
    <3>2. QED  BY <1>0, <1>3, <3>1, IndexedGrows
  <2>3. QED  BY <2>1, <2>2
<1>11. QED  BY <1>7, <1>8, <1>9, <1>10 DEF SoundInv

LEMMA CommitBatchSound ==
    ASSUME SoundInv, TypeInv', NEW w \in workers, CommitBatch(w)
    PROVE  SoundInv'
<1>0. TypeInv /\ WorkersGrounded /\ Covered /\ NoGaps /\ CheckpointSound
  BY DEF SoundInv
<1>1. /\ w \in Executions /\ InRange(w) /\ Grounded(w)
      /\ ~w.direct /\ w.todo # {} /\ w.pc = "commit"
  BY <1>0, CommitBatchStep DEF TypeInv, TypeOK, WorkersInRange, WorkersGrounded
<1>2. indexed' = indexed /\ sync' = sync /\ cursor' = cursor
  BY DEF CommitBatch, stored
<1> DEFINE c == Current(w)
           end == BatchEnd(w)
<1>3. /\ c \in Windows /\ RangeStart(c) \in Int /\ RangeEnd(c) \in Int
      /\ WorkStart(w) \in Ledgers /\ WorkEnd(w) \in Ledgers /\ RangeStart(c) <= WorkStart(w)
      /\ \A n \in w.from .. w.to : WindowOf(n) = c => n \in WorkStart(w) .. WorkEnd(w)
  BY <1>1, WorkOfWindow
<1>4. end \in Ledgers /\ w.at \in Ledgers
  BY <1>1, BatchInside DEF InWindow
<1>5. {n \in RangeStart(c) .. end : n > StartLedger} \subseteq indexed
  <2>1. /\ {n \in RangeStart(c) .. w.at - 1 : n > StartLedger} \subseteq indexed
        /\ w.at .. end \subseteq indexed
    BY <1>1 DEF Grounded, InWindow
  <2>2. \A n \in RangeStart(c) .. end : n \in RangeStart(c) .. w.at - 1 \/ n \in w.at .. end
    BY <1>3, <1>4 DEF Ledgers
  <2>3. QED  BY <2>1, <2>2
<1>6. CheckpointSound'
  <2>1. \A u \in Windows : checkpoint'[u] =
          IF u = c THEN [last |-> end, done |-> end = RangeEnd(c)] ELSE checkpoint[u]
    BY <1>0, <1>3 DEF CommitBatch, TypeInv, TypeOK
  <2> HIDE DEF c, end
  <2>2. checkpoint'[c].last = end /\ (checkpoint'[c].done => end = RangeEnd(c))
    <3>1. checkpoint'[c] = [last |-> end, done |-> end = RangeEnd(c)]
      BY <1>3, <2>1, Zenon
    <3>2. [last |-> end, done |-> end = RangeEnd(c)].last = end
      OBVIOUS
    <3>3. [last |-> end, done |-> end = RangeEnd(c)].done = (end = RangeEnd(c))
      BY Zenon
    <3>4. QED  BY <3>1, <3>2, <3>3, Zenon
  <2>3. /\ {n \in RangeStart(c) .. checkpoint'[c].last : n > StartLedger} \subseteq indexed'
        /\ checkpoint'[c].done =>
             {n \in RangeStart(c) .. RangeEnd(c) : n > StartLedger} \subseteq indexed'
    BY <1>2, <1>5, <2>2
  <2>4. \A u \in Windows \ {c} : checkpoint'[u] = checkpoint[u]
    BY <2>1
  <2>5. QED  BY <1>0, <1>2, <2>3, <2>4 DEF CheckpointSound
<1>7. NoGaps'
  BY <1>0, <1>2, IndexedGrows
<1>8. CASE Becomes(w, Leave(w)) /\ end = WorkEnd(w)
  <2> DEFINE v == Leave(w)
  <2>1. /\ v.from = w.from /\ v.to = w.to /\ v.todo = w.todo \ {c} /\ v.direct = w.direct
        /\ v.owned = w.owned /\ v.proc = w.proc /\ v.pc \in {"done", "open"}
    BY <1>1 DEF Leave, Executions
  <2> HIDE DEF v, c, end
  <2>2. Becomes(w, v)
    BY <1>8 DEF v
  <2>3. Grounded(v)
    BY <1>1, <2>1 DEF Grounded, InWindow, Unwinding
  <2>4. ASSUME NEW n \in Owed(w), n > StartLedger
        PROVE  n \in Owed(v) \/ n \in indexed'
    <3>1. n \in w.from .. w.to /\ WindowOf(n) \in w.todo
      BY <1>1 DEF Owed
    <3>2. CASE WindowOf(n) # c
      BY <1>1, <2>1, <3>1, <3>2 DEF Owed
    <3>3. CASE WindowOf(n) = c
      <4>1. n \in WorkStart(w) .. end
        BY <1>3, <1>8, <3>1, <3>3
      <4>2. n \in RangeStart(c) .. end
        BY <1>3, <1>4, <4>1 DEF Ledgers
      <4>3. QED  BY <1>2, <1>5, <2>4, <4>2
    <3>4. QED  BY <3>2, <3>3
  <2>5. WorkersGrounded'
    BY <1>0, <1>2, <2>2, <2>3, IndexedGrows, GroundedSuccessor
  <2>6. Covered'
    BY <1>0, <1>2, <2>1, <2>2, <2>4, CoveredSuccessor
  <2>7. QED  BY <1>6, <1>7, <2>5, <2>6 DEF SoundInv
<1>9. ASSUME NEW v, v = Moved(w, "loop", end + 1, w.pos, w.meta), Becomes(w, v)
      PROVE  SoundInv'
  <2>1. /\ v.from = w.from /\ v.to = w.to /\ v.todo = w.todo /\ v.direct = w.direct
        /\ v.owned = w.owned /\ v.proc = w.proc /\ v.pc = "loop" /\ v.at = end + 1
        /\ Current(v) = c
    BY <1>1, <1>9, SameWindow
  <2>2. v.at - 1 = end
    BY <1>4, <2>1 DEF Ledgers
  <2> HIDE DEF c, end
  <2>3. Grounded(v)
    BY <1>1, <1>5, <2>1, <2>2 DEF Grounded, InWindow, Unwinding
  <2>4. WorkersGrounded'
    BY <1>0, <1>2, <1>9, <2>3, IndexedGrows, GroundedSuccessor
  <2>5. \A n \in Owed(w) : n \in Owed(v)
    BY <1>1, <2>1 DEF Owed
  <2>6. Covered'
    BY <1>0, <1>2, <1>9, <2>1, <2>5, CoveredSuccessor
  <2>7. QED  BY <1>6, <1>7, <2>4, <2>6 DEF SoundInv
<1>10. QED  BY <1>0, <1>8, <1>9, CommitBatchStep

\* An error leaves the owned workers of the other processes as they are.
LEMMA ErrorSound ==
    ASSUME SoundInv, TypeInv', NEW w \in workers, WorkerFails(w)
    PROVE  SoundInv'
<1>0. TypeInv /\ WorkersGrounded /\ Covered /\ NoGaps /\ CheckpointSound
  BY DEF SoundInv
<1>1. indexed \subseteq indexed' /\ cursor' = cursor /\ checkpoint' = checkpoint /\ Throw(w)
  BY DEF WorkerFails
<1>2. ASSUME NEW u \in workers' PROVE Grounded(u)'
  <2>1. PICK v \in workers : \E b \in BOOLEAN : u = [v EXCEPT !.owned = b]
    BY <1>0, <1>1, Survivors
  <2>2. v \in Executions /\ Grounded(v)
    BY <1>0 DEF TypeInv, TypeOK, WorkersGrounded
  <2>3. /\ u.from = v.from /\ u.pc = v.pc /\ u.at = v.at /\ u.direct = v.direct
        /\ Current(u) = Current(v) /\ BatchEnd(u) = BatchEnd(v)
    BY <2>1, <2>2, Disowned
  <2>4. Grounded(u)
    BY <2>2, <2>3 DEF Grounded
  <2>5. QED  BY <1>1, <2>4, IndexedGrows
<1>3. Covered'
  <2> SUFFICES ASSUME NEW p \in Procs, sync'[p] # 0, NEW n \in StartLedger + 1 .. sync'[p]
               PROVE  n \in indexed' \/ \E u \in Own(p)' : n \in Owed(u)
    BY DEF Covered, Owed
  <2>1. /\ sync'[p] = sync[p]
        /\ \A v \in workers : v.proc = p /\ v.owned => v \in workers'
    BY <1>0, <1>1, Survivors
  <2>2. \A v \in Own(p) : v \in Own(p)'
    BY <2>1 DEF Own
  <2>3. QED  BY <1>0, <1>1, <2>1, <2>2 DEF Covered
<1>4. QED  BY <1>0, <1>1, <1>2, <1>3, IndexedGrows DEF SoundInv, WorkersGrounded

\* The cursor moves only over ledgers that no awaited worker owes any more.
LEMMA AdvanceSound ==
    ASSUME SoundInv, TypeInv', NEW p \in Procs, Advance(p)
    PROVE  SoundInv'
<1>0. TypeInv /\ WorkersGrounded /\ Covered /\ NoGaps /\ CheckpointSound
  BY DEF SoundInv
<1>1. /\ indexed' = indexed /\ checkpoint' = checkpoint
      /\ sync' = [sync EXCEPT ![p] = 0] /\ workers' = workers \ Own(p) /\ sync[p] # 0
      /\ sync \in [Procs -> 0 .. MaxLedger]
  BY <1>0 DEF Advance, stored, TypeInv, TypeOK
<1>2. WorkersGrounded' /\ CheckpointSound'
  BY <1>0, <1>1, IndexedGrows DEF WorkersGrounded
<1>3. Covered'
  <2> SUFFICES ASSUME NEW q \in Procs, sync'[q] # 0, NEW n \in StartLedger + 1 .. sync'[q]
               PROVE  n \in indexed' \/ \E u \in Own(q)' : n \in Owed(u)
    BY DEF Covered, Owed
  <2>1. q # p /\ sync'[q] = sync[q]
    BY <1>1
  <2>2. \A v \in Own(q) : v \in Own(q)'
    BY <1>1, <2>1 DEF Own
  <2>3. QED  BY <1>0, <1>1, <2>1, <2>2 DEF Covered
<1>4. NoGaps'
  <2>1. CASE cursor' = cursor
    BY <1>0, <1>1, <2>1, IndexedGrows
  <2>2. CASE cursor' # cursor
    <3>1. cursor' = sync[p] /\ \A w \in Own(p) : w.pc = "done"
      BY <2>2 DEF Advance
    <3>2. ASSUME NEW w \in Own(p) PROVE Owed(w) = {}
      <4>1. w \in Executions /\ InRange(w) /\ w.pc = "done"
        BY <1>0, <3>1 DEF Own, TypeInv, TypeOK, WorkersInRange
      <4>2. QED  BY <4>1 DEF Owed, InRange
    <3>3. StartLedger + 1 .. sync[p] \subseteq indexed
      BY <1>0, <1>1, <3>2 DEF Covered
    <3>4. QED  BY <1>1, <3>1, <3>3 DEF NoGaps
  <2>3. QED  BY <2>1, <2>2
<1>5. QED  BY <1>2, <1>3, <1>4 DEF SoundInv

LEMMA CrashSound ==
    ASSUME SoundInv, TypeInv', NEW p \in Procs, Crash(p)
    PROVE  SoundInv'
<1>0. TypeInv /\ WorkersGrounded /\ Covered /\ NoGaps /\ CheckpointSound
  BY DEF SoundInv
<1>1. /\ indexed' = indexed /\ checkpoint' = checkpoint /\ cursor' = cursor
      /\ sync' = [sync EXCEPT ![p] = 0] /\ workers' = {w \in workers : w.proc # p}
      /\ sync \in [Procs -> 0 .. MaxLedger]
  BY <1>0 DEF Crash, stored, TypeInv, TypeOK
<1>2. WorkersGrounded' /\ CheckpointSound' /\ NoGaps'
  BY <1>0, <1>1, IndexedGrows DEF WorkersGrounded
<1>3. Covered'
  <2> SUFFICES ASSUME NEW q \in Procs, sync'[q] # 0, NEW n \in StartLedger + 1 .. sync'[q]
               PROVE  n \in indexed' \/ \E u \in Own(q)' : n \in Owed(u)
    BY DEF Covered, Owed
  <2>1. q # p /\ sync'[q] = sync[q]
    BY <1>1
  <2>2. \A v \in Own(q) : v \in Own(q)'
    BY <1>1, <2>1 DEF Own
  <2>3. QED  BY <1>0, <1>1, <2>1, <2>2 DEF Covered
<1>4. QED  BY <1>2, <1>3 DEF SoundInv

\* An iteration owes all it is going to move the cursor over.
LEMMA IterateSound ==
    ASSUME SoundInv, TypeInv', NEW p \in Procs, NEW target \in 1 .. tip, Iterate(p, target)
    PROVE  SoundInv'
<1>0. TypeInv /\ WorkersGrounded /\ Covered /\ NoGaps /\ CheckpointSound
  BY DEF SoundInv
<1>1. indexed' = indexed /\ checkpoint' = checkpoint /\ cursor' = cursor
  BY DEF Iterate, stored
<1>2. PICK from, to, W : IterationShape(p, from, to, W)
  BY <1>0, IterateStep
<1>3. /\ from = cursor + 1 /\ from <= to /\ to \in Ledgers /\ workers' = workers \cup W
      /\ sync' = [sync EXCEPT ![p] = to] /\ sync \in [Procs -> 0 .. MaxLedger]
      /\ cursor \in 0 .. MaxLedger
  BY <1>0, <1>2 DEF IterationShape, TypeInv, TypeOK
<1>4. /\ \A w \in W : /\ w \in Executions /\ w.proc = p /\ w.owned /\ w.from = from
                      /\ w.pc = IF w.direct THEN "ledgers" ELSE "open"
      /\ \A n \in from .. to : \E w \in W : n \in Owed(w)
  BY <1>0, <1>2, FreshWorkers DEF IterationShape
<1>5. StartLedger + 1 .. cursor \subseteq indexed
  BY <1>0 DEF NoGaps, WorkersGrounded, Grounded
<1>6. WorkersGrounded'
  <2>1. ASSUME NEW w \in W PROVE Grounded(w)
    <3>1. w.from - 1 = cursor
      BY <1>3, <1>4
    <3>2. QED  BY <1>4, <1>5, <3>1 DEF Grounded, InWindow, Unwinding
  <2>2. QED  BY <1>0, <1>1, <1>3, <2>1, IndexedGrows DEF WorkersGrounded
<1>7. Covered'
  <2> SUFFICES ASSUME NEW q \in Procs, sync'[q] # 0, NEW n \in StartLedger + 1 .. sync'[q]
               PROVE  n \in indexed' \/ \E u \in Own(q)' : n \in Owed(u)
    BY DEF Covered, Owed
  <2>1. \A v \in Own(q) : v \in Own(q)'
    BY <1>3 DEF Own
  <2>2. CASE q # p
    <3>1. sync'[q] = sync[q]
      BY <1>3, <2>2
    <3>2. QED  BY <1>0, <1>1, <2>1, <3>1 DEF Covered
  <2>3. CASE q = p
    <3>1. sync'[q] = to
      BY <1>3, <2>3
    <3>2. CASE n <= cursor
      <4>1. n \in StartLedger + 1 .. cursor
        BY <1>3, <3>1, <3>2, LedgersAssumption DEF Ledgers
      <4>2. QED  BY <1>1, <1>5, <4>1
    <3>3. CASE ~(n <= cursor)
      <4>1. n \in from .. to
        BY <1>3, <3>1, <3>3, LedgersAssumption DEF Ledgers
      <4>2. PICK w \in W : n \in Owed(w)
        BY <1>4, <4>1
      <4>3. w \in Own(q)'
        BY <1>3, <1>4, <2>3, <4>2 DEF Own
      <4>4. QED  BY <4>2, <4>3
    <3>4. QED  BY <3>2, <3>3
  <2>4. QED  BY <2>2, <2>3
<1>8. QED  BY <1>0, <1>1, <1>6, <1>7, IndexedGrows DEF SoundInv

LEMMA SoundStep ==
    ASSUME MaxReorgs = 0, SoundInv, [Next]_vars
    PROVE  SoundInv'
<1>0. TypeInv' /\ TypeInv
  BY TypeStep DEF SoundInv
<1>1. ASSUME NEW w \in workers, WorkerStep(w)
      PROVE  SoundInv'
  <2>1. ~ResetCursor(w) /\ ~Unwind(w)
    BY NoUnwind DEF ResetCursor, SoundInv, WorkersGrounded, Grounded
  <2>2. OpenWindow(w) \/ InBatch(w) \/ CommitBatch(w)
    BY <1>1, <2>1 DEF WorkerStep, InBatch, Unwind
  <2>3. QED  BY <1>0, <2>2, OpenWindowSound, InBatchSound, CommitBatchSound
<1>2. CASE SetIndexerPaused \/ CloseLedger
  BY <1>0, <1>2 DEF SetIndexerPaused, CloseLedger, stored, SoundInv, NoGaps, CheckpointSound,
                    WorkersGrounded, Grounded, Covered, Own, Owed
<1>3. ASSUME NEW n \in 2 .. tip, Reorganise(n)
      PROVE  FALSE
  BY <1>0, <1>3 DEF Reorganise, TypeInv, TypeOK
<1>4. CASE UNCHANGED vars
  BY <1>0, <1>4 DEF vars, SoundInv, NoGaps, CheckpointSound,
                    WorkersGrounded, Grounded, Covered, Own, Owed
<1>5. QED
  BY <1>0, <1>1, <1>2, <1>3, <1>4, ErrorSound, AdvanceSound, CrashSound, IterateSound DEF Next, IndexerNext

LEMMA SoundInit == Init => SoundInv
<1> SUFFICES ASSUME Init PROVE SoundInv
  OBVIOUS
<1>1. TypeInv
  BY TypeInit
<1>2. indexed = {} /\ workers = {} /\ cursor = StartLedger /\ \A p \in Procs : sync[p] = 0
  BY DEF Init
<1>3. NoGaps
  BY <1>2, LedgersAssumption DEF NoGaps
<1>4. CheckpointSound
  <2>1. \A v \in Windows : checkpoint[v].last = 0 /\ ~checkpoint[v].done
    BY DEF Init
  <2>2. \A v \in Windows : {n \in RangeStart(v) .. 0 : n > StartLedger} = {}
    BY LedgersAssumption
  <2>3. QED  BY <2>1, <2>2 DEF CheckpointSound
<1>5. WorkersGrounded /\ Covered
  BY <1>2 DEF WorkersGrounded, Covered
<1>6. QED  BY <1>1, <1>3, <1>4, <1>5 DEF SoundInv

LEMMA SoundInvariant ==
    ASSUME MaxReorgs = 0
    PROVE  Spec => []SoundInv
<1>1. SoundInv /\ [Next]_vars => SoundInv'
  BY SoundStep
<1>2. QED  BY <1>1, SoundInit, PTL DEF Spec

\* On a chain that is not reorganised the cursor has nothing missing behind it,
\* for any number of processes and workers, disowned ones included, any sizes of
\* window and batch, and any crashes, errors and pauses.
THEOREM CursorHasNoGaps ==
    ASSUME MaxReorgs = 0
    PROVE  Spec => []NoGaps
<1>1. SoundInv => NoGaps
  BY DEF SoundInv
<1>2. QED  BY <1>1, SoundInvariant, PTL

\* A checkpoint vouches only for ledgers that are indexed, though the worker
\* that wrote it may have been disowned and another be at work in the window.
THEOREM CheckpointsAreSound ==
    ASSUME MaxReorgs = 0
    PROVE  Spec => []CheckpointSound
<1>1. SoundInv => CheckpointSound
  BY DEF SoundInv
<1>2. QED  BY <1>1, SoundInvariant, PTL

-----------------------------------------------------------------------------
(* The index only grows.                                                    *)

IndexInv == SoundInv /\ WorkersRowsFirst

\* A stored row stays, so what a worker has done stays done.
LEMMA RowsSuccessor ==
    ASSUME WorkersRowsFirst, Rows \subseteq Rows',
           NEW w \in workers, NEW v, Becomes(w, v), RowsFirst(v)'
    PROVE  WorkersRowsFirst'
<1>1. ASSUME NEW u \in workers' PROVE RowsFirst(u)'
  <2>1. u = v \/ u \in workers
    BY DEF Becomes
  <2>2. CASE u \in workers
    BY <2>2 DEF WorkersRowsFirst, RowsFirst
  <2>3. QED  BY <2>1, <2>2
<1>2. QED  BY <1>1 DEF WorkersRowsFirst

\* Storing a ledger adds its row; no other step of a worker touches the rows.
LEMMA RowStored ==
    ASSUME MaxReorgs = 0, TypeInv, NEW w \in workers, StoreLedger(w)
    PROVE  w.pos \in Ledgers /\ Rows' = Rows \cup {w.pos}
<1>1. /\ w \in Executions /\ InRange(w) /\ w.at \in Ledgers
      /\ w.pc = "row" /\ hash \in [0 .. MaxLedger -> -1 .. MaxReorgs]
      /\ hash' = [hash EXCEPT ![w.pos] = w.meta[w.pos]]
  BY DEF StoreLedger, TypeInv, TypeOK, WorkersInRange, Executions
<1>2. w.pos \in Ledgers
  BY <1>1, LedgersAssumption DEF InRange, Executions, Ledgers
<1>3. w.meta[w.pos] # -1
  <2>1. w.pos \in 0 .. MaxLedger /\ w.meta \in [0 .. MaxLedger -> 0 .. MaxReorgs]
    BY <1>1 DEF Executions
  <2>2. w.meta[w.pos] \in 0 .. 0
    BY <2>1
  <2>3. QED  BY <2>2
<1>4. \A n \in Ledgers : n \in 0 .. MaxLedger
  BY LedgersAssumption DEF Ledgers
<1>5. QED  BY <1>1, <1>2, <1>3, <1>4 DEF Rows

LEMMA RowsFirstBatch ==
    ASSUME MaxReorgs = 0, IndexInv, NEW w \in workers, InBatch(w)
    PROVE  WorkersRowsFirst'
<1>0. TypeInv /\ WorkersRowsFirst
  BY DEF IndexInv, SoundInv
<1>1. /\ w \in Executions /\ InRange(w) /\ RowsFirst(w) /\ w.at \in Ledgers
      /\ w.pc \in InWindow \ {"commit"}
  BY <1>0, InBatchStep DEF TypeInv, TypeOK, WorkersInRange, WorkersRowsFirst, Executions
<1>3. CASE StoreLedger(w)
  <2>1. w.pos \in Ledgers /\ Rows' = Rows \cup {w.pos}
    BY <1>0, <1>3, RowStored
  <2>2. w.at .. w.pos \subseteq Rows'
    <3>1. w.at .. w.pos - 1 \subseteq Rows
      BY <1>1, <1>3 DEF RowsFirst, StoreLedger
    <3>2. \A n \in w.at .. w.pos : n \in w.at .. w.pos - 1 \/ n = w.pos
      BY <1>1, <2>1 DEF Ledgers
    <3>3. QED  BY <2>1, <3>1, <3>2
  <2>3. w.pos <= BatchEnd(w) /\ BatchEnd(w) \in Ledgers
    BY <1>1, <1>3, BatchInside DEF StoreLedger, InRange, InWindow
  <2>4. CASE w.pos < BatchEnd(w)
    <3> DEFINE v == [w EXCEPT !.pc = "ledgers", !.pos = w.pos + 1]
    <3>1. Becomes(w, v)
      BY <1>3, <2>4 DEF StoreLedger
    <3>2. v.pc = "ledgers" /\ v.at = w.at /\ v.pos - 1 = w.pos
      BY <1>1, <1>3, <2>1 DEF StoreLedger, Executions, Ledgers
    <3> HIDE DEF v
    <3>3. RowsFirst(v)'
      BY <2>2, <3>2 DEF RowsFirst
    <3>4. QED  BY <1>0, <2>1, <3>1, <3>3, RowsSuccessor
  <2>5. CASE ~(w.pos < BatchEnd(w))
    <3> DEFINE v == Moved(w, "events", w.at, w.pos, w.meta)
    <3>1. [w EXCEPT !.pc = "events"] = v
      BY <1>1 DEF Executions, Moved
    <3>2. Becomes(w, v)
      BY <1>3, <2>5, <3>1 DEF StoreLedger
    <3>3. v.pc = "events" /\ v.at = w.at /\ BatchEnd(v) = BatchEnd(w)
      BY <1>1, SameWindow
    <3>4. BatchEnd(w) = w.pos
      BY <2>1, <2>3, <2>5 DEF Ledgers
    <3> HIDE DEF v
    <3>5. RowsFirst(v)'
      BY <2>2, <3>3, <3>4 DEF RowsFirst
    <3>6. QED  BY <1>0, <2>1, <3>2, <3>5, RowsSuccessor
  <2>6. QED  BY <2>4, <2>5
<1>4. CASE StartBatch(w)
  <2>1. Rows' = Rows
    BY <1>4 DEF StartBatch, stored, Rows
  <2>2. PICK v : /\ Becomes(w, v)
                 /\ \/ v.pc = "stopped"
                    \/ v.pc = "ledgers" /\ v.at = w.at /\ v.pos = w.at
    <3>1. [w EXCEPT !.pc = "stopped"].pc = "stopped"
      BY <1>1 DEF Executions
    <3>2. /\ [w EXCEPT !.pc = "ledgers", !.pos = w.at, !.meta = chain].pc = "ledgers"
          /\ [w EXCEPT !.pc = "ledgers", !.pos = w.at, !.meta = chain].at = w.at
          /\ [w EXCEPT !.pc = "ledgers", !.pos = w.at, !.meta = chain].pos = w.at
      BY <1>1 DEF Executions
    <3>3. QED  BY <1>4, <3>1, <3>2 DEF StartBatch
  <2>3. w.at .. w.at - 1 = {}
    BY <1>1 DEF Ledgers
  <2>4. RowsFirst(v)'
    BY <2>2, <2>3 DEF RowsFirst
  <2>5. QED  BY <1>0, <2>1, <2>2, <2>4, RowsSuccessor
<1>5. CASE BeginWindow(w) \/ StoreEvents(w)
  <2>1. Rows' = Rows
    BY <1>5 DEF BeginWindow, StoreEvents, stored, Rows
  <2>2. PICK v : Becomes(w, v) /\ v.pc \in {"loop", "done", "commit"}
    <3>1. \A pc : [w EXCEPT !.pc = pc].pc = pc
      BY <1>1 DEF Executions
    <3>2. QED  BY <1>5, <3>1 DEF BeginWindow, StoreEvents
  <2>3. RowsFirst(v)'
    BY <2>2 DEF RowsFirst
  <2>4. QED  BY <1>0, <2>1, <2>2, <2>3, RowsSuccessor
<1>6. CASE AcceptParent(w)
  <2> DEFINE v == [w EXCEPT !.pc = "row"]
  <2>1. Rows' = Rows /\ Becomes(w, v) /\ w.pc = "ledgers"
    BY <1>6 DEF AcceptParent, stored, Rows
  <2>2. v.pc = "row" /\ v.at = w.at /\ v.pos = w.pos
    BY <1>1 DEF Executions
  <2> HIDE DEF v
  <2>3. RowsFirst(v)'
    BY <1>1, <2>1, <2>2 DEF RowsFirst
  <2>4. QED  BY <1>0, <2>1, <2>3, RowsSuccessor
<1>7. QED  BY <1>3, <1>4, <1>5, <1>6 DEF InBatch

LEMMA RowsFirstStep ==
    ASSUME MaxReorgs = 0, IndexInv, [Next]_vars
    PROVE  WorkersRowsFirst'
<1>0. TypeInv /\ WorkersRowsFirst /\ WorkersGrounded
  BY DEF IndexInv, SoundInv
<1>1. ASSUME NEW w \in workers, OpenWindow(w) \/ CommitBatch(w)
      PROVE  WorkersRowsFirst'
  <2>1. Rows' = Rows
    BY <1>1 DEF OpenWindow, CommitBatch, stored, Rows
  <2>2. w \in Executions /\ InRange(w) /\ w.todo # {}
    BY <1>0, <1>1, OpenWindowStep, CommitBatchStep DEF TypeInv, TypeOK, WorkersInRange
  <2>3. PICK v : Becomes(w, v) /\ v.pc \in {"open", "done", "begin", "loop"}
    <3>1. Leave(w).pc \in {"open", "done"}
      BY <2>2 DEF Leave, Executions
    <3>2. \A at : [w EXCEPT !.pc = "begin", !.at = at].pc = "begin"
      BY <2>2 DEF Executions
    <3>3. \A at : [w EXCEPT !.pc = "loop", !.at = at].pc = "loop"
      BY <2>2 DEF Executions
    <3>4. QED  BY <1>1, <3>1, <3>2, <3>3 DEF OpenWindow, CommitBatch
  <2>4. RowsFirst(v)'
    BY <2>3 DEF RowsFirst
  <2>5. QED  BY <1>0, <2>1, <2>3, <2>4, RowsSuccessor
<1>2. ASSUME NEW w \in workers, WorkerFails(w)
      PROVE  WorkersRowsFirst'
  <2>1. Rows' = Rows /\ Throw(w)
    BY <1>2 DEF WorkerFails, Rows
  <2>2. ASSUME NEW u \in workers' PROVE RowsFirst(u)'
    <3>1. PICK v \in workers : \E b \in BOOLEAN : u = [v EXCEPT !.owned = b]
      BY <1>0, <2>1, Survivors
    <3>2. v \in Executions /\ RowsFirst(v)
      BY <1>0 DEF TypeInv, TypeOK, WorkersRowsFirst
    <3>3. u.pc = v.pc /\ u.at = v.at /\ u.pos = v.pos /\ BatchEnd(u) = BatchEnd(v)
      <4>1. u.pos = v.pos
        BY <3>1, <3>2 DEF Executions
      <4>2. QED  BY <3>1, <3>2, <4>1, Disowned
    <3>4. QED  BY <2>1, <3>2, <3>3 DEF RowsFirst
  <2>3. QED  BY <2>2 DEF WorkersRowsFirst
<1>3. ASSUME NEW w \in workers, ResetCursor(w) \/ Unwind(w)
      PROVE  FALSE
  BY <1>0, <1>3, NoUnwind DEF ResetCursor, WorkersGrounded, Grounded
<1>4. ASSUME NEW p \in Procs, Advance(p) \/ Crash(p)
      PROVE  WorkersRowsFirst'
  <2>1. Rows' = Rows /\ workers' \subseteq workers
    BY <1>4 DEF Advance, Crash, stored, Rows
  <2>2. QED  BY <1>0, <2>1 DEF WorkersRowsFirst, RowsFirst
<1>5. ASSUME NEW p \in Procs, NEW target \in 1 .. tip, Iterate(p, target)
      PROVE  WorkersRowsFirst'
  <2>1. Rows' = Rows
    BY <1>5 DEF Iterate, stored, Rows
  <2>2. PICK from, to, W : IterationShape(p, from, to, W)
    BY <1>0, <1>5, IterateStep
  <2>3. ASSUME NEW w \in W PROVE RowsFirst(w)
    <3>1. w \in Executions /\ InRange(w) /\ w.pc = IF w.direct THEN "ledgers" ELSE "open"
      BY <1>0, <2>2, FreshWorkers DEF IterationShape
    <3>2. w.pc = "ledgers" => w.pos = w.at
      <4>1. PICK d, t : w = Worker(p, d, from, to, t)
        BY <2>2 DEF IterationShape, Fresh, CatchUpWorkers
      <4>2. QED  BY <4>1 DEF Worker
    <3>3. w.at \in Nat
      BY <3>1 DEF Executions, Ledgers
    <3>4. w.pc = "ledgers" => w.at .. w.pos - 1 = {}
      BY <3>2, <3>3
    <3>5. QED  BY <3>1, <3>4 DEF RowsFirst
  <2>4. workers' = workers \cup W
    BY <2>2 DEF IterationShape
  <2>5. QED  BY <1>0, <2>1, <2>3, <2>4 DEF WorkersRowsFirst, RowsFirst
<1>6. CASE SetIndexerPaused \/ CloseLedger \/ (\E n \in 2 .. tip : Reorganise(n)) \/ UNCHANGED vars
  <2>1. Rows' = Rows /\ workers' = workers
    BY <1>6 DEF SetIndexerPaused, CloseLedger, Reorganise, vars, stored, Rows
  <2>2. QED  BY <1>0, <2>1 DEF WorkersRowsFirst, RowsFirst
<1>7. QED
  BY <1>1, <1>2, <1>3, <1>4, <1>5, <1>6, RowsFirstBatch
     DEF Next, IndexerNext, WorkerStep, InBatch, Unwind

\* Every step writes one row, the events of a range that has its rows, or a
\* cursor that has all events behind it, or writes nothing a reader sees.
LEMMA IndexStep ==
    ASSUME MaxReorgs = 0, IndexInv, SoundInv', [Next]_vars
    PROVE  [Index!Next]_<<Rows, indexed, cursor>>
<1>0. TypeInv /\ WorkersRowsFirst /\ WorkersGrounded
  BY DEF IndexInv, SoundInv
<1>1. ASSUME NEW w \in workers, StoreLedger(w)
      PROVE  Index!Next
  <2>1. w.pos \in Ledgers /\ Rows' = Rows \cup {w.pos}
    BY <1>0, <1>1, RowStored
  <2>2. UNCHANGED <<indexed, cursor>>
    BY <1>1 DEF StoreLedger
  <2>3. QED  BY <2>1, <2>2 DEF Index!Next, Index!StoreRow
<1>2. ASSUME NEW w \in workers, StoreEvents(w) \/ WorkerFails(w)
      PROVE  Index!Next \/ UNCHANGED <<Rows, indexed, cursor>>
  <2>1. Rows' = Rows /\ cursor' = cursor
    BY <1>2 DEF StoreEvents, WorkerFails, Rows
  <2>2. CASE w.pc # "events"
    BY <1>2, <2>1, <2>2 DEF StoreEvents, WorkerFails
  <2>3. CASE w.pc = "events"
    <3>1. w.at \in Ledgers /\ BatchEnd(w) \in Ledgers /\ w.at <= BatchEnd(w)
      BY <1>0, <2>3, BatchInside DEF TypeInv, TypeOK, WorkersInRange, InWindow
    <3>2. w.at .. BatchEnd(w) \subseteq Rows
      BY <1>0, <2>3 DEF WorkersRowsFirst, RowsFirst
    <3>3. PICK n \in w.at - 1 .. BatchEnd(w) : indexed' = indexed \cup (w.at .. n)
      <4>1. BatchEnd(w) \in w.at - 1 .. BatchEnd(w)
        BY <3>1 DEF Ledgers
      <4>2. QED  BY <1>2, <2>3, <4>1 DEF StoreEvents, WorkerFails
    <3>4. CASE n = w.at - 1
      <4>1. w.at .. n = {}
        BY <3>1, <3>4 DEF Ledgers
      <4>2. QED  BY <2>1, <3>3, <4>1
    <3>5. CASE n # w.at - 1
      <4>1. n \in Ledgers /\ w.at .. n \subseteq w.at .. BatchEnd(w)
        BY <3>1, <3>3, <3>5, LedgersAssumption DEF Ledgers
      <4>2. Index!StoreEvents(w.at, n)
        BY <2>1, <3>2, <3>3, <4>1 DEF Index!StoreEvents
      <4>3. QED  BY <3>1, <4>1, <4>2 DEF Index!Next
    <3>6. QED  BY <3>4, <3>5
  <2>4. QED  BY <2>2, <2>3
<1>3. ASSUME NEW p \in Procs, Advance(p)
      PROVE  Index!Next \/ UNCHANGED <<Rows, indexed, cursor>>
  <2>1. Rows' = Rows /\ indexed' = indexed
    BY <1>3 DEF Advance, stored, Rows
  <2>2. CASE cursor' # cursor
    <3>1. cursor' = sync[p] /\ sync[p] # 0
      BY <1>3, <2>2 DEF Advance
    <3>2. cursor' \in Ledgers
      BY <1>0, <3>1, LedgersAssumption DEF TypeInv, TypeOK, Ledgers
    <3>3. StartLedger + 1 .. cursor' \subseteq indexed
      BY <2>1 DEF SoundInv, NoGaps, WorkersGrounded, Grounded
    <3>4. Index!MoveCursor(cursor')
      BY <2>1, <3>3 DEF Index!MoveCursor
    <3>5. QED  BY <3>2, <3>4 DEF Index!Next
  <2>3. QED  BY <2>1, <2>2
<1>4. ASSUME NEW w \in workers, Unwind(w) \/ ResetCursor(w)
      PROVE  FALSE
  BY <1>0, <1>4, NoUnwind DEF ResetCursor, WorkersGrounded, Grounded
<1>5. ASSUME NEW w \in workers, \/ OpenWindow(w) \/ BeginWindow(w) \/ StartBatch(w)
                                \/ AcceptParent(w) \/ CommitBatch(w)
      PROVE  UNCHANGED <<Rows, indexed, cursor>>
  BY <1>5 DEF OpenWindow, BeginWindow, StartBatch, AcceptParent, CommitBatch, stored, Rows
<1>6. ASSUME NEW p \in Procs, Crash(p) \/ \E target \in 1 .. tip : Iterate(p, target)
      PROVE  UNCHANGED <<Rows, indexed, cursor>>
  BY <1>6 DEF Crash, Iterate, stored, Rows
<1>7. CASE SetIndexerPaused \/ CloseLedger \/ (\E n \in 2 .. tip : Reorganise(n)) \/ UNCHANGED vars
  BY <1>7 DEF SetIndexerPaused, CloseLedger, Reorganise, vars, stored, Rows
<1>8. QED
  BY <1>1, <1>2, <1>3, <1>4, <1>5, <1>6, <1>7 DEF Next, IndexerNext, WorkerStep, Unwind

LEMMA IndexInit == Init => IndexInv /\ Index!Init
<1> SUFFICES ASSUME Init PROVE IndexInv /\ Index!Init
  OBVIOUS
<1>1. workers = {} /\ indexed = {} /\ cursor = StartLedger
  BY DEF Init
<1>2. Rows = {}
  BY LedgersAssumption DEF Init, Rows, Ledgers
<1>3. QED  BY <1>1, <1>2, SoundInit DEF IndexInv, WorkersRowsFirst, Index!Init

\* On a chain that is not reorganised the indexer implements the index its
\* readers rely on, with any number of processes, workers and disowned workers
\* writing to the tables, and over every crash, error and pause.
THEOREM IndexOnlyGrows ==
    ASSUME MaxReorgs = 0
    PROVE  Spec => IndexSpec
<1>1. IndexInv /\ [Next]_vars => IndexInv'
  BY SoundStep, RowsFirstStep DEF IndexInv
<1>2. IndexInv /\ IndexInv' /\ [Next]_vars => [Index!Next]_<<Rows, indexed, cursor>>
  BY IndexStep DEF IndexInv
<1>3. QED  BY <1>1, <1>2, IndexInit, PTL DEF Spec, IndexSpec, Index!Spec
=============================================================================
