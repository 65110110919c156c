------------------------ MODULE IndexerRepair_proofs ------------------------
(***************************************************************************)
(* Proofs about IndexerRepair: the repairs of a job take their turns, and   *)
(* beside the indexer they leave its index as sound as it was.              *)
(***************************************************************************)
EXTENDS IndexerRepair, IndexerCatchUp_proofs

-----------------------------------------------------------------------------
(* What a job finds, and the first range of it.                             *)

LEMMA GreatestLedger ==
    ASSUME NEW S \in SUBSET Ledgers, S # {}
    PROVE  Max(S) \in S /\ \A y \in S : y <= Max(S)
<1> DEFINE T == {MaxLedger - n : n \in S}
<1>1. T \in SUBSET Nat /\ T # {}
  <2>1. ASSUME NEW n \in S PROVE MaxLedger - n \in Nat
    BY LedgersAssumption DEF Ledgers
  <2>2. QED  BY <2>1
<1>2. Min(T) \in T /\ \A y \in T : Min(T) <= y
  <2> HIDE DEF T
  <2>1. QED  BY <1>1, LeastWindow
<1>3. PICK x \in S : \A n \in S : MaxLedger - x <= MaxLedger - n
  BY <1>2
<1>4. \A n \in S : x >= n
  BY <1>3, LedgersAssumption DEF Ledgers
<1>5. Max(S) \in S /\ \A y \in S : Max(S) >= y
  BY <1>4 DEF Max
<1>6. QED  BY <1>5, LedgersAssumption DEF Ledgers

LEMMA LeastLedger ==
    ASSUME NEW S \in SUBSET Ledgers, S # {}
    PROVE  Min(S) \in S /\ \A y \in S : Min(S) <= y
<1>1. S \in SUBSET Nat
  BY LedgersAssumption DEF Ledgers
<1>2. QED  BY <1>1, LeastWindow

\* The first range is an interval of what was found, and what is left of it
\* begins at least one ledger behind the range.
LEMMA FirstRangeFacts ==
    ASSUME NEW S \in SUBSET Ledgers, S # {}
    PROVE  LET R == FirstRange(S)
           IN  /\ R \subseteq S
               /\ Min(R) \in Ledgers /\ Max(R) \in Ledgers /\ Min(R) <= Max(R)
               /\ \A n \in S \ R : n > Max(R) + 1
<1> DEFINE R == FirstRange(S)
           a == Min(S)
           b == Max(R)
<1>1. a \in S /\ \A n \in S : a <= n
  BY LeastLedger
<1>2. S \subseteq Nat
  BY LedgersAssumption DEF Ledgers
<1>3. R \subseteq S /\ a \in R
  <2>1. a .. a = {a}
    BY <1>1, <1>2
  <2>2. QED  BY <1>1, <2>1 DEF FirstRange
<1> HIDE DEF a
<1>4. b \in R /\ \A n \in R : n <= b
  <2> HIDE DEF R
  <2>1. R \in SUBSET Ledgers /\ R # {}
    BY <1>3
  <2>2. QED  BY <2>1, GreatestLedger
<1>5. Min(R) \in Ledgers /\ Min(R) <= b
  <2> HIDE DEF R, b
  <2>1. R \in SUBSET Ledgers /\ R # {}
    BY <1>3
  <2>2. QED  BY <1>4, <2>1, LeastLedger
<1>6. a .. b \subseteq S
  BY <1>4 DEF FirstRange, a
<1>7. ASSUME NEW n \in S \ R
      PROVE  n > b + 1
  <2> HIDE DEF b
  <2>1. n \in Nat /\ b \in Nat /\ a \in Nat /\ a <= n
    BY <1>1, <1>2, <1>3, <1>4
  <2>2. n <= b + 1 => a .. n \subseteq a .. b \cup {n}
    BY <2>1
  <2>3. ~(a .. n \subseteq S)
    BY DEF FirstRange, a
  <2>4. QED  BY <1>6, <2>1, <2>2, <2>3
<1>8. b \in Ledgers
  BY <1>3, <1>4
<1>9. QED  BY <1>3, <1>5, <1>7, <1>8

\* The query returns ledgers.
LEMMA Findings == Rows # {} => LedgerGaps \subseteq Ledgers
<1> SUFFICES ASSUME Rows # {} PROVE LedgerGaps \subseteq Ledgers
  OBVIOUS
<1> DEFINE b == Max(Rows)
<1>1. Rows \in SUBSET Ledgers
  BY DEF Rows
<1>2. b \in Ledgers
  <2> HIDE DEF Rows
  <2>1. QED  BY <1>1, GreatestLedger
<1>3. b \in Int /\ b - Lookback \in Int
  BY <1>2, LookbackAssumption, LedgersAssumption DEF Ledgers
<1>4. Max({1, b - Lookback}) = IF 1 >= b - Lookback THEN 1 ELSE b - Lookback
  BY <1>3, MaxOfTwo
<1> HIDE DEF b
<1>5. Max({1, b - Lookback}) .. b \subseteq Ledgers
  BY <1>2, <1>3, <1>4, LedgersAssumption DEF Ledgers
<1>6. LedgerGaps \subseteq Max({1, b - Lookback}) .. b
  BY DEF LedgerGaps, b
<1>7. QED  BY <1>5, <1>6

-----------------------------------------------------------------------------
(* The jobs.                                                                *)

JobsOK == job \in [Jobs -> [pc : {"idle", "gaps"}, todo : SUBSET Ledgers]]

RInv == TypeInv /\ JobsOK /\ JobsAtRest /\ RepairsInTurn

\* What a step of the indexer makes of the workers.
LEMMA WorkersMove ==
    ASSUME TypeInv, [Next]_vars
    PROVE  \/ workers' \subseteq workers
           \/ \E w \in workers : \E v : Becomes(w, v) /\ v.proc = w.proc /\ v.to = w.to
           \/ \E w \in workers : Throw(w)
           \/ \E p \in Procs : \E W : workers' = workers \cup W /\ \A v \in W : v.proc = p
<1>0. \A w \in workers : w \in Executions /\ InRange(w)
  BY DEF TypeInv, TypeOK, WorkersInRange
<1>1. ASSUME NEW w \in workers, OpenWindow(w) \/ InBatch(w) \/ CommitBatch(w)
      PROVE  \E v : Becomes(w, v) /\ v.proc = w.proc /\ v.to = w.to
  <2>1. Leave(w).proc = w.proc /\ Leave(w).to = w.to
    BY <1>0 DEF Leave, Executions
  <2>2. \A pc, at, pos, meta : LET v == Moved(w, pc, at, pos, meta)
                               IN  v.proc = w.proc /\ v.to = w.to
    BY <1>0, SameWindow
  <2>3. \/ Becomes(w, Leave(w))
        \/ \E pc, at, pos, meta : Becomes(w, Moved(w, pc, at, pos, meta))
    BY <1>1, OpenWindowStep, InBatchStep, CommitBatchStep
  <2>4. QED  BY <2>1, <2>2, <2>3
<1>6. ASSUME NEW w \in workers, Unwind(w)
      PROVE  \E v : Becomes(w, v) /\ v.proc = w.proc /\ v.to = w.to
  BY <1>6, UnwindStep
<1>2. ASSUME NEW w \in workers, ResetCursor(w) \/ WorkerFails(w)
      PROVE  Throw(w)
  BY <1>2 DEF ResetCursor, WorkerFails
<1>3. ASSUME NEW p \in Procs, Advance(p) \/ Crash(p)
      PROVE  workers' \subseteq workers
  BY <1>3 DEF Advance, Crash
<1>4. ASSUME NEW p \in Procs, NEW target \in 1 .. tip, Iterate(p, target)
      PROVE  \E W : workers' = workers \cup W /\ \A v \in W : v.proc = p
  <2>1. PICK from, to, W : IterationShape(p, from, to, W)
    BY <1>4, IterateStep
  <2>2. \A v \in W : v.proc = p
    BY <2>1, FreshWorkers DEF IterationShape
  <2>3. QED  BY <2>1, <2>2 DEF IterationShape
<1>5. CASE SetIndexerPaused \/ CloseLedger \/ (\E n \in 2 .. tip : Reorganise(n)) \/ UNCHANGED vars
  BY <1>5 DEF SetIndexerPaused, CloseLedger, Reorganise, vars
<1>7. QED
  BY <1>1, <1>2, <1>3, <1>4, <1>5, <1>6 DEF Next, IndexerNext, WorkerStep, InBatch, Unwind

\* The indexer and the network leave the jobs their workers, or end them.
LEMMA IndexerBeside ==
    ASSUME RInv, [Next]_vars, job' = job
    PROVE  RInv'
<1>0. TypeInv' /\ JobsOK'
  BY TypeStep DEF RInv, JobsOK
<1>1. workers \subseteq Executions
  BY DEF RInv, TypeInv, TypeOK
<1> DEFINE Kept(u) == \E w \in workers : w.proc = u.proc /\ w.to = u.to
<1>2. /\ \A u \in workers' : u.proc \in Jobs => Kept(u)
      /\ \A u, v \in workers' : u.proc \in Jobs /\ v.proc = u.proc => v = u
  <2>0. \A u, v \in workers : u.proc \in Jobs /\ v.proc = u.proc => v = u
    BY DEF RInv, RepairsInTurn
  <2>1. CASE workers' \subseteq workers
    BY <2>0, <2>1
  <2>2. ASSUME NEW w \in workers, NEW v, Becomes(w, v), v.proc = w.proc, v.to = w.to
        PROVE  /\ \A u \in workers' : u.proc \in Jobs => Kept(u)
               /\ \A x, y \in workers' : x.proc \in Jobs /\ y.proc = x.proc => y = x
    <3>1. \A u \in workers' : u = v \/ u \in workers \ {w}
      BY <2>2 DEF Becomes
    <3>2. QED  BY <2>0, <2>2, <3>1
  <2>3. ASSUME NEW w \in workers, Throw(w)
        PROVE  /\ \A u \in workers' : u.proc \in Jobs => Kept(u)
               /\ \A u, v \in workers' : u.proc \in Jobs /\ v.proc = u.proc => v = u
    <3> DEFINE left(v) == [v EXCEPT !.owned = v.owned /\ v.proc # w.proc]
    <3>1. workers' \subseteq workers \/ \A u \in workers' : \E v \in workers : u = left(v)
      BY <2>3 DEF Throw
    <3>2. \A v \in workers : left(v).proc = v.proc /\ left(v).to = v.to
      BY <1>1 DEF Executions
    <3> HIDE DEF left
    <3>3. QED  BY <2>0, <2>1, <3>1, <3>2
  <2>4. ASSUME NEW p \in Procs, NEW W, workers' = workers \cup W, \A v \in W : v.proc = p
        PROVE  /\ \A u \in workers' : u.proc \in Jobs => Kept(u)
               /\ \A u, v \in workers' : u.proc \in Jobs /\ v.proc = u.proc => v = u
    <3>1. p \notin Jobs
      BY CallersAssumption
    <3>2. \A u \in workers' : u.proc \in Jobs => u \in workers
      BY <2>4, <3>1
    <3>3. QED  BY <2>0, <3>2
  <2>5. QED  BY <2>1, <2>2, <2>3, <2>4, WorkersMove DEF RInv
<1>3. JobsAtRest'
  BY <1>2 DEF RInv, JobsAtRest, Returned
<1>4. RepairsInTurn'
  BY <1>2 DEF RInv, RepairsInTurn
<1>5. QED  BY <1>0, <1>3, <1>4 DEF RInv

\* A job learns what it has to do, or that it is over, while it has no worker.
LEMMA FindsInv ==
    ASSUME RInv, NEW r \in Jobs, NEW pc \in {"idle", "gaps"},
           NEW S \in SUBSET Ledgers, Finds(r, pc, S), Returned(r), pc = "idle" => S = {}
    PROVE  RInv'
<1>1. /\ job' = [job EXCEPT ![r] = [pc |-> pc, todo |-> S]] /\ workers' = workers
      /\ UNCHANGED vars /\ job \in [Jobs -> [pc : {"idle", "gaps"}, todo : SUBSET Ledgers]]
  BY DEF Finds, vars, RInv, JobsOK
<1>2. TypeInv' /\ JobsOK'
  BY <1>1 DEF vars, RInv, TypeInv, TypeOK, WorkersInRange, JobsOK
<1>3. JobsAtRest' /\ RepairsInTurn'
  BY <1>1 DEF RInv, JobsAtRest, Returned, RepairsInTurn
<1>4. QED  BY <1>2, <1>3 DEF RInv

\* The worker a job starts.
RepairWorker(r, R) == [Worker(r, TRUE, Min(R), Max(R), {}) EXCEPT !.owned = FALSE]

LEMMA BackfillStep ==
    ASSUME RInv, NEW r \in Jobs, Backfill(r)
    PROVE  LET R == FirstRange(job[r].todo)
               w == RepairWorker(r, R)
           IN  /\ R \subseteq job[r].todo
               /\ job' = [job EXCEPT ![r].todo = @ \ R]
               /\ workers' = workers \cup {w}
               /\ w \in Executions /\ InRange(w)
               /\ w.proc = r /\ w.direct /\ w.pc = "ledgers" /\ w.pos = w.at
               /\ \A n \in job[r].todo \ R : n > w.to + 1
<1> DEFINE S == job[r].todo
           R == FirstRange(S)
           v == Worker(r, TRUE, Min(R), Max(R), {})
           w == RepairWorker(r, R)
<1>1. S \in SUBSET Ledgers /\ S # {} /\ job' = [job EXCEPT ![r].todo = @ \ R]
      /\ workers' = workers \cup {w}
  BY DEF Backfill, RInv, JobsOK, RepairWorker
<1>2. /\ R \subseteq S
      /\ Min(R) \in Ledgers /\ Max(R) \in Ledgers /\ Min(R) <= Max(R)
      /\ \A n \in S \ R : n > Max(R) + 1
  <2> HIDE DEF S
  <2>1. QED  BY <1>1, FirstRangeFacts
<1> HIDE DEF R
<1>3. v \in Executions /\ InRange(v)
  <2>1. Fresh(r, Min(R), Max(R), {v})
    BY DEF Fresh
  <2> HIDE DEF v
  <2>2. QED  BY <1>2, <2>1, FreshWorkers DEF RInv
<1>4. v.proc = r /\ v.direct /\ v.pc = "ledgers" /\ v.pos = v.at /\ v.to = Max(R)
  BY DEF Worker
<1> HIDE DEF v
<1>5. w = [v EXCEPT !.owned = FALSE] /\ w.pos = v.pos
  <2>1. w = [v EXCEPT !.owned = FALSE]
    BY DEF RepairWorker, v
  <2>2. QED  BY <1>3, <2>1 DEF Executions
<1> HIDE DEF w
<1>6. /\ w \in Executions /\ InRange(w)
      /\ w.proc = r /\ w.direct /\ w.pc = "ledgers" /\ w.pos = w.at /\ w.to = Max(R)
  <2>1. /\ w \in Executions /\ InRange(w)
        /\ w.proc = v.proc /\ w.direct = v.direct /\ w.pc = v.pc /\ w.at = v.at /\ w.to = v.to
    BY <1>3, <1>5, Disowned
  <2>2. QED  BY <1>4, <1>5, <2>1
<1>7. /\ R \subseteq S /\ job' = [job EXCEPT ![r].todo = @ \ R]
      /\ workers' = workers \cup {w}
      /\ w \in Executions /\ InRange(w)
      /\ w.proc = r /\ w.direct /\ w.pc = "ledgers" /\ w.pos = w.at
      /\ \A n \in S \ R : n > w.to + 1
  BY <1>1, <1>2, <1>6
<1>8. QED  BY <1>7, Zenon DEF R, w

LEMMA BackfillInv ==
    ASSUME RInv, NEW r \in Jobs, Backfill(r)
    PROVE  RInv'
<1> DEFINE R == FirstRange(job[r].todo)
           w == RepairWorker(r, R)
<1>1. /\ R \subseteq job[r].todo
      /\ job' = [job EXCEPT ![r].todo = @ \ R]
      /\ workers' = workers \cup {w}
      /\ w \in Executions /\ InRange(w)
      /\ w.proc = r /\ w.direct /\ w.pc = "ledgers" /\ w.pos = w.at
      /\ \A n \in job[r].todo \ R : n > w.to + 1
  BY BackfillStep
<1> HIDE DEF R, w
<1>2. /\ UNCHANGED <<network, stored, cursor, checkpoint, paused, sync, faults>>
      /\ Returned(r) /\ job[r].todo # {}
  BY DEF Backfill
<1>3. TypeInv'
  BY <1>1, <1>2 DEF network, stored, RInv, TypeInv, TypeOK, WorkersInRange
<1>4. /\ job \in [Jobs -> [pc : {"idle", "gaps"}, todo : SUBSET Ledgers]]
      /\ \A q \in Jobs : job'[q].pc = job[q].pc
      /\ \A q \in Jobs : job'[q].todo = IF q = r THEN job[r].todo \ R ELSE job[q].todo
      /\ JobsOK'
  BY <1>1 DEF RInv, JobsOK
<1>5. JobsAtRest'
  BY <1>1, <1>2, <1>4 DEF RInv, JobsAtRest, Returned
<1>6. RepairsInTurn'
  BY <1>1, <1>2, <1>4 DEF RInv, RepairsInTurn, Returned
<1>7. QED  BY <1>3, <1>4, <1>5, <1>6 DEF RInv

LEMMA JobFailsInv ==
    ASSUME RInv, NEW r \in Jobs, JobFails(r)
    PROVE  RInv'
<1>1. /\ job' = [job EXCEPT ![r] = [pc |-> "idle", todo |-> {}]]
      /\ workers' = {w \in workers : w.proc # r}
      /\ UNCHANGED <<network, stored, cursor, checkpoint, paused, sync>>
      /\ faults < MaxFaults /\ faults' = faults + 1
      /\ job \in [Jobs -> [pc : {"idle", "gaps"}, todo : SUBSET Ledgers]]
  BY DEF JobFails, RInv, JobsOK
<1>2. TypeInv'
  <2>1. workers' \subseteq Executions /\ WorkersInRange'
    BY <1>1 DEF RInv, TypeInv, TypeOK, WorkersInRange
  <2>2. faults' \in 0 .. MaxFaults
    BY <1>1, BoundsAssumption DEF RInv, TypeInv, TypeOK
  <2>3. QED  BY <1>1, <2>1, <2>2 DEF network, stored, RInv, TypeInv, TypeOK
<1>3. JobsOK'
  BY <1>1 DEF JobsOK
<1>4. JobsAtRest' /\ RepairsInTurn'
  BY <1>1 DEF RInv, JobsAtRest, Returned, RepairsInTurn
<1>5. QED  BY <1>2, <1>3, <1>4 DEF RInv

LEMMA RStep ==
    ASSUME RInv, [RNext]_rvars
    PROVE  RInv'
<1>1. CASE Next /\ UNCHANGED job
  BY <1>1, IndexerBeside
<1>2. ASSUME NEW r \in Jobs, Reconcile(r)
      PROVE  RInv'
  <2>1. Returned(r) /\ Rows # {} /\ Finds(r, "gaps", LedgerGaps)
    BY <1>2 DEF Reconcile, RInv, JobsAtRest
  <2>2. QED  BY <2>1, Findings, FindsInv
<1>3. ASSUME NEW r \in Jobs, EndJob(r)
      PROVE  RInv'
  <2>1. Returned(r) /\ Finds(r, "idle", {})
    BY <1>3 DEF EndJob
  <2>2. QED  BY <2>1, FindsInv
<1>4. CASE UNCHANGED rvars
  <2>1. UNCHANGED vars /\ job' = job
    BY <1>4 DEF rvars
  <2>2. QED  BY <2>1, IndexerBeside
<1>5. QED
  BY <1>1, <1>2, <1>3, <1>4, BackfillInv, JobFailsInv DEF RNext, JobStep

LEMMA RInitInv == RInit => RInv
<1> SUFFICES ASSUME RInit PROVE RInv
  OBVIOUS
<1>1. TypeInv /\ workers = {}
  BY TypeInit DEF RInit, Init
<1>2. JobsOK
  BY DEF RInit, JobsOK
<1>3. JobsAtRest /\ RepairsInTurn
  BY <1>1 DEF RInit, JobsAtRest, RepairsInTurn, Returned
<1>4. QED  BY <1>1, <1>2, <1>3 DEF RInv

LEMMA RInvariant == RSpec => []RInv
BY RInitInv, RStep, PTL DEF RSpec

\* With the jobs beside the indexer every variable keeps its type, on a chain
\* that is reorganised too: what the query finds and the loop groups are ledgers.
THEOREM RepairTypes == RSpec => []RTypeOK
<1>1. RInv => RTypeOK
  BY DEF RInv, TypeInv, JobsOK, RTypeOK
<1>2. QED  BY <1>1, RInvariant, PTL

\* A job has at most one repair at work, and has left to do only what lies
\* behind it and does not touch it, over reorganisations, errors and restarts.
THEOREM RepairsTakeTurns == RSpec => []RepairsInTurn
<1>1. RInv => RepairsInTurn
  BY DEF RInv
<1>2. QED  BY <1>1, RInvariant, PTL

-----------------------------------------------------------------------------
(* The index, on a chain that is not reorganised.                           *)

\* No step of a job writes to the index; the repair it starts relies on nothing.
LEMMA JobsKeepIndex ==
    ASSUME RInv, IndexInv, [RNext]_rvars, ~[Next]_vars
    PROVE  IndexInv' /\ UNCHANGED <<Rows, indexed, cursor>>
<1>0. TypeInv' /\ TypeInv
  BY RStep DEF RInv
<1>1. ASSUME NEW r \in Jobs, Backfill(r)
      PROVE  /\ UNCHANGED <<hash, indexed, cursor, checkpoint, sync>> /\ workers \subseteq workers'
             /\ \A w \in workers' : w \in workers \/ (Grounded(w) /\ RowsFirst(w))
  <2>1. UNCHANGED <<hash, indexed, cursor, checkpoint, sync>>
    BY <1>1 DEF Backfill, stored
  <2>2. PICK w : /\ workers' = workers \cup {w} /\ w \in Executions
                 /\ w.direct /\ w.pc = "ledgers" /\ w.pos = w.at
    BY <1>1, BackfillStep
  <2>3. w.at .. w.at - 1 = {}
    BY <2>2 DEF Executions, Ledgers
  <2>4. Grounded(w) /\ RowsFirst(w)
    BY <2>2, <2>3 DEF Grounded, RowsFirst, Unwinding
  <2>5. QED  BY <2>1, <2>2, <2>4
<1>2. ASSUME NEW r \in Jobs, JobFails(r)
      PROVE  /\ UNCHANGED <<hash, indexed, cursor, checkpoint, sync>>
             /\ workers' \subseteq workers
             /\ \A w \in workers : w.proc \in Procs => w \in workers'
  BY <1>2, CallersAssumption DEF JobFails, stored
<1>3. /\ UNCHANGED <<hash, indexed, cursor, checkpoint, sync>>
      /\ \A w \in workers : w.proc \in Procs => w \in workers'
      /\ \A w \in workers' : w \in workers \/ (Grounded(w) /\ RowsFirst(w))
  <2>1. UNCHANGED rvars => UNCHANGED vars
    BY DEF rvars
  <2>2. ~\E r \in Jobs : Reconcile(r) \/ EndJob(r)
    BY DEF Reconcile, EndJob, Finds
  <2>3. \E r \in Jobs : Backfill(r) \/ JobFails(r)
    BY <2>1, <2>2 DEF RNext, JobStep
  <2>4. QED  BY <1>1, <1>2, <2>3
<1>4. Rows' = Rows
  BY <1>3 DEF Rows
<1>5. WorkersGrounded' /\ WorkersRowsFirst'
  BY <1>3, <1>4 DEF IndexInv, SoundInv, WorkersGrounded, Grounded, WorkersRowsFirst, RowsFirst
<1>6. NoGaps' /\ CheckpointSound'
  BY <1>3, IndexedGrows DEF IndexInv, SoundInv
<1>7. Covered'
  <2> SUFFICES ASSUME NEW p \in Procs, sync[p] # 0, NEW n \in StartLedger + 1 .. sync[p]
               PROVE  n \in indexed \/ \E u \in Own(p)' : n \in Owed(u)
    BY <1>3 DEF Covered, Owed
  <2>1. \A u \in Own(p) : u \in Own(p)'
    BY <1>3 DEF Own
  <2>2. QED  BY <2>1 DEF IndexInv, SoundInv, Covered
<1>8. QED  BY <1>0, <1>3, <1>4, <1>5, <1>6, <1>7 DEF IndexInv, SoundInv

LEMMA RIndexInvariant ==
    ASSUME MaxReorgs = 0
    PROVE  RSpec => [](RInv /\ IndexInv)
<1>1. RInv /\ IndexInv /\ [RNext]_rvars => RInv' /\ IndexInv'
  BY RStep, SoundStep, RowsFirstStep, JobsKeepIndex DEF IndexInv
<1>2. RInit => RInv /\ IndexInv
  BY RInitInv, IndexInit DEF RInit
<1>3. QED  BY <1>1, <1>2, PTL DEF RSpec

\* The jobs do not disturb the indexer: whichever ledgers they index, and
\* however they fail, the cursor has nothing missing behind it.
THEOREM RepairKeepsNoGaps ==
    ASSUME MaxReorgs = 0
    PROVE  RSpec => []NoGaps
<1>1. RInv /\ IndexInv => NoGaps
  BY DEF IndexInv, SoundInv
<1>2. QED  BY <1>1, RIndexInvariant, PTL

\* Indexer and reconciliation together implement the index their readers
\* rely on: a repair stores rows before events too, and takes nothing back.
THEOREM RepairImplementsIndex ==
    ASSUME MaxReorgs = 0
    PROVE  RSpec => IndexSpec
<1>1. ASSUME RInv, IndexInv, IndexInv', [RNext]_rvars
      PROVE  [Index!Next]_<<Rows, indexed, cursor>>
  BY <1>1, IndexStep, JobsKeepIndex DEF IndexInv
<1>2. RInit => Index!Init
  BY IndexInit DEF RInit
<1>3. RInv /\ IndexInv /\ (RInv /\ IndexInv)' /\ [RNext]_rvars =>
        [Index!Next]_<<Rows, indexed, cursor>>
  BY <1>1
<1>4. QED  BY <1>2, <1>3, RIndexInvariant, PTL DEF RSpec, IndexSpec, Index!Spec
=============================================================================
