--------------------------- MODULE IndexerCatchUp ---------------------------
(***************************************************************************)
(* How the ledger indexer moves its cursor: the loop of syncToLatest(), the *)
(* parallel workers of catchUp() and their durable per-window checkpoints,  *)
(* and the roll-back of a reorganised chain (src/indexer/indexer.ts,        *)
(* src/indexer/catch-up.ts).                                                *)
(*                                                                         *)
(* A WORKER is one async function of catchUp(), or the one call of          *)
(* processLedgerRange() that a short gap needs.  catchUp() rejects with its *)
(* first worker that throws; the others run on, disowned, while the loop    *)
(* starts the next attempt.  Nothing elects a leader among the processes.   *)
(*                                                                         *)
(* A ledger's hash is the number of the reorganisation that wrote it last.  *)
(*                                                                         *)
(* processLedgerRangeInternal() uses the names network and indexedLedger-   *)
(* Sequences without declaring them, and upserts ledgers by a key that is   *)
(* not unique; they are read as the active network and the sequences it     *)
(* has stored, which is what every other query of the function does.        *)
(***************************************************************************)
EXTENDS Integers, FiniteSets, FiniteSetsExt

CONSTANTS
    Procs,        \* processes running a SorobanEventWorker
    Jobs,         \* other callers of processLedgerRange(), see IndexerRepair
    StartLedger,  \* config.indexerStartLedger
    FirstTip,     \* the network's latest ledger when the indexer starts
    MaxLedger,    \* bound: ledgers of the network
    Window,       \* CHECKPOINT_WINDOW_SIZE
    Batch,        \* config.indexerBatchSize
    Workers,      \* config.indexerCatchupWorkers
    MaxFaults,    \* bound: crashes and errors in a behaviour
    MaxReorgs,    \* bound: reorganisations in a behaviour
    MaxDepth      \* config.indexerReorgProtectionDepth

ASSUME LedgersAssumption == /\ StartLedger \in Nat /\ FirstTip \in Nat /\ MaxLedger \in Nat
                            /\ StartLedger <= FirstTip /\ FirstTip <= MaxLedger
ASSUME SizesAssumption == /\ Window \in Nat /\ Window > 0
                          /\ Batch \in Nat /\ Batch > 0
                          /\ Workers \in Nat /\ Workers > 0
                          /\ MaxDepth \in Nat /\ MaxDepth > 0
ASSUME CallersAssumption == Procs \cap Jobs = {}
ASSUME BoundsAssumption == MaxFaults \in Nat /\ MaxReorgs \in Nat

Ledgers == 1 .. MaxLedger

\* Windows are numbered by their fixed boundaries.
WindowOf(n) == (n - 1) \div Window
RangeStart(v) == v * Window + 1
RangeEnd(v) == v * Window + Window
Windows == {WindowOf(n) : n \in Ledgers}

VARIABLES
    tip,         \* the network's latest ledger
    chain,       \* hash of each ledger on the network
    hash,        \* hash in each persisted ledger row, -1 where there is none
    indexed,     \* ledgers whose events have been persisted
    cursor,      \* indexerState.lastLedger
    checkpoint,  \* _catch_up_checkpoints, last = 0 for null or no row
    paused,      \* indexerState.paused
    sync,        \* the ledger each syncToLatest() works towards, 0 when it is idle
    workers,     \* executions of workers
    faults, reorgs

vars == <<tip, chain, hash, indexed, cursor, checkpoint, paused, sync,
          workers, faults, reorgs>>

stored == <<hash, indexed>>

\* The ledgers that have a row.
Rows == {n \in Ledgers : hash[n] # -1}
network == <<tip, chain, reorgs>>

Init == /\ tip = FirstTip
        /\ chain = [n \in 0 .. MaxLedger |-> 0]
        /\ hash = [n \in 0 .. MaxLedger |-> -1]
        /\ indexed = {}
        /\ cursor = StartLedger
        /\ checkpoint = [v \in Windows |-> [last |-> 0, done |-> FALSE]]
        /\ paused = FALSE
        /\ sync = [p \in Procs |-> 0]
        /\ workers = {}
        /\ faults = 0 /\ reorgs = 0

-----------------------------------------------------------------------------
(* Workers.                                                                 *)

\* The windows a worker has left; it is at the first of them.
Current(w) == Min(w.todo)
WorkStart(w) == Max({w.from, RangeStart(Current(w))})
WorkEnd(w) == Min({w.to, RangeEnd(Current(w))})

\* Last ledger of the batch that begins at w.at.
BatchEnd(w) == IF w.direct THEN w.to ELSE Min({w.at + Batch - 1, WorkEnd(w)})

\* A disowned worker that has returned leaves no trace.
Becomes(w, v) ==
    workers' = (workers \ {w}) \cup
               (IF ~v.owned /\ v.pc \in {"done", "stopped"} THEN {} ELSE {v})

\* The worker goes on with its next window, or returns true.
Leave(w) == LET left == w.todo \ {Current(w)}
            IN  [w EXCEPT !.todo = left, !.pc = IF left = {} THEN "done" ELSE "open"]

\* Read the checkpoint: a completed window, or one committed up to the end of
\* the work, is passed over; the others resume behind the last commit.
OpenWindow(w) ==
    LET cp == checkpoint[Current(w)]
        resumeFrom == Max({WorkStart(w), cp.last + 1})
    IN  /\ w.pc = "open"
        /\ Becomes(w, IF cp.done \/ resumeFrom > WorkEnd(w) THEN Leave(w)
                      ELSE [w EXCEPT !.pc = "begin", !.at = resumeFrom])
        /\ UNCHANGED <<network, stored, cursor, checkpoint, paused, sync, faults>>

\* The upsert before the first batch.
BeginWindow(w) ==
    /\ w.pc = "begin"
    /\ checkpoint' = [checkpoint EXCEPT ![Current(w)] =
                        [last |-> IF w.at > WorkStart(w) THEN w.at - 1 ELSE 0,
                         done |-> FALSE]]
    /\ Becomes(w, [w EXCEPT !.pc = "loop"])
    /\ UNCHANGED <<network, stored, cursor, paused, sync, faults>>

\* Between batches a pause makes the worker return false.  The metadata of the
\* whole batch is fetched ahead.
StartBatch(w) ==
    /\ w.pc = "loop"
    /\ Becomes(w, IF paused THEN [w EXCEPT !.pc = "stopped"]
                  ELSE [w EXCEPT !.pc = "ledgers", !.pos = w.at, !.meta = chain])
    /\ UNCHANGED <<network, stored, cursor, checkpoint, paused, sync, faults>>

\* The row of the previous ledger is not the parent of the one at hand.
Mismatch(w) == w.pos - 1 \in Rows /\ hash[w.pos - 1] # w.meta[w.pos - 1]

\* The row of the previous ledger is read and compared, before the ledger's own
\* row is written.
AcceptParent(w) ==
    /\ w.pc = "ledgers" /\ ~Mismatch(w)
    /\ Becomes(w, [w EXCEPT !.pc = "row"])
    /\ UNCHANGED <<network, stored, cursor, checkpoint, paused, sync, faults>>

StoreLedger(w) ==
    /\ w.pc = "row"
    /\ hash' = [hash EXCEPT ![w.pos] = w.meta[w.pos]]
    /\ Becomes(w, IF w.pos < BatchEnd(w) THEN [w EXCEPT !.pc = "ledgers", !.pos = w.pos + 1]
                  ELSE [w EXCEPT !.pc = "events"])
    /\ UNCHANGED <<network, indexed, cursor, checkpoint, paused, sync, faults>>

DetectReorg(w) ==
    /\ w.pc = "ledgers" /\ Mismatch(w)
    /\ Becomes(w, [w EXCEPT !.pc = "backtrack", !.back = {w.pos - 1}])
    /\ UNCHANGED <<network, stored, cursor, checkpoint, paused, sync, faults>>

\* The next ledger of the way back that is compared with the network; there is
\* none at the start of the chain, at a missing row and at the depth limit.
CheckSeq(w) == Min(w.back) - 1
Compared(w) == CheckSeq(w) \in Rows /\ w.pos - 1 - CheckSeq(w) < MaxDepth

\* One step back: the common ancestor is found, or one more ledger is to be
\* rolled back, or the search is given up, as it is when the RPC fails.
Backtrack(w) ==
    LET c == CheckSeq(w)
    IN  /\ w.pc = "backtrack"
        /\ \/ /\ ~Compared(w)
              /\ Becomes(w, [w EXCEPT !.pc = "safety"]) /\ UNCHANGED faults
           \/ /\ Compared(w) /\ hash[c] = chain[c]
              /\ Becomes(w, [w EXCEPT !.pc = "ancestor"]) /\ UNCHANGED faults
           \/ /\ Compared(w) /\ hash[c] # chain[c]
              /\ Becomes(w, [w EXCEPT !.back = @ \cup {c}]) /\ UNCHANGED faults
           \/ /\ Compared(w) /\ faults < MaxFaults /\ faults' = faults + 1
              /\ Becomes(w, [w EXCEPT !.pc = "safety"])
        /\ UNCHANGED <<network, stored, cursor, checkpoint, paused, sync>>

\* The cursor is to return to the common ancestor or, where none was found, just
\* to the ledger before the first one rolled back.
CommonAncestor(w) == IF w.pc = "ancestor" THEN CheckSeq(w) ELSE w.pos - 2

\* The roll-back transaction: ledger rows, transactions and events go together.
RollbackLedgers(w) ==
    /\ w.pc \in {"ancestor", "safety"}
    /\ hash' = [n \in 0 .. MaxLedger |-> IF n \in w.back THEN -1 ELSE hash[n]]
    /\ indexed' = indexed \ w.back
    /\ Becomes(w, [w EXCEPT !.pc = "reset", !.pos = CommonAncestor(w)])
    /\ UNCHANGED <<network, cursor, checkpoint, paused, sync, faults>>

\* Mutant of StoreEvents: the end of the range is taken as inclusive.
StoreEventsBeyond(w) ==
    /\ w.pc = "events"
    /\ indexed' = indexed \cup (w.at .. BatchEnd(w) + 1)
    /\ Becomes(w, [w EXCEPT !.pc = IF w.direct THEN "done" ELSE "commit"])
    /\ UNCHANGED <<network, hash, cursor, checkpoint, paused, sync, faults>>

\* Upserts by deterministic keys: indexing a ledger again changes nothing.
StoreEvents(w) ==
    /\ w.pc = "events"
    /\ indexed' = indexed \cup (w.at .. BatchEnd(w))
    /\ Becomes(w, [w EXCEPT !.pc = IF w.direct THEN "done" ELSE "commit"])
    /\ UNCHANGED <<network, hash, cursor, checkpoint, paused, sync, faults>>

\* Mutant of CommitBatch: the window counts as completed when the work ends.
CommitWorkEnd(w) ==
    LET end == BatchEnd(w)
    IN  /\ w.pc = "commit"
        /\ checkpoint' = [checkpoint EXCEPT ![Current(w)] =
                            [last |-> end, done |-> end = WorkEnd(w)]]
        /\ Becomes(w, IF end < WorkEnd(w) THEN [w EXCEPT !.pc = "loop", !.at = end + 1]
                      ELSE Leave(w))
        /\ UNCHANGED <<network, stored, cursor, paused, sync, faults>>

\* The upsert after a batch; on to the next batch or window.
CommitBatch(w) ==
    LET end == BatchEnd(w)
    IN  /\ w.pc = "commit"
        /\ checkpoint' = [checkpoint EXCEPT ![Current(w)] =
                            [last |-> end, done |-> end = RangeEnd(Current(w))]]
        /\ Becomes(w, IF end < WorkEnd(w) THEN [w EXCEPT !.pc = "loop", !.at = end + 1]
                      ELSE Leave(w))
        /\ UNCHANGED <<network, stored, cursor, paused, sync, faults>>

\* Mutant of Throw: the error of one worker is swallowed (Promise.allSettled).
ThrowSwallowed(w) == sync' = sync /\ workers' = workers \ {w}

\* A worker throws.  If its syncToLatest() awaits it, that call rejects too and
\* its other workers go on unattended.
Throw(w) ==
    IF w.owned
    THEN /\ sync' = [sync EXCEPT ![w.proc] = 0]
         /\ workers' = {[v EXCEPT !.owned = v.owned /\ v.proc # w.proc] :
                          v \in {u \in workers \ {w} :
                                   ~(u.proc = w.proc /\ u.owned
                                      /\ u.pc \in {"done", "stopped"})}}
    ELSE sync' = sync /\ workers' = workers \ {w}

\* setLastIndexedLedger(commonAncestorSeq), and the error that ends the worker.
ResetCursor(w) ==
    /\ w.pc = "reset"
    /\ cursor' = w.pos
    /\ Throw(w)
    /\ UNCHANGED <<network, stored, checkpoint, paused, faults>>

\* An RPC or database call of a worker fails; events of a first part of the
\* batch may have been persisted.
WorkerFails(w) ==
    /\ w.pc \notin {"done", "stopped"}
    /\ faults < MaxFaults /\ faults' = faults + 1
    /\ \E n \in w.at - 1 .. BatchEnd(w) :
         indexed' = IF w.pc = "events" THEN indexed \cup (w.at .. n) ELSE indexed
    /\ Throw(w)
    /\ UNCHANGED <<network, hash, cursor, checkpoint, paused>>

-----------------------------------------------------------------------------
(* syncToLatest().                                                          *)

Worker(p, direct, from, to, todo) ==
    [proc |-> p, owned |-> TRUE, direct |-> direct, from |-> from, to |-> to,
     todo |-> todo, pc |-> IF direct THEN "ledgers" ELSE "open",
     at |-> from, pos |-> from, meta |-> chain, back |-> {}]

\* catchUp() deals the windows of from .. to out to its workers in turn.
CatchUpWorkers(p, from, to) ==
    LET wins == {WindowOf(n) : n \in from .. to}
        share(k) == {v \in wins : (v - WindowOf(from)) % Workers = k}
    IN  {Worker(p, FALSE, from, to, share(k)) :
           k \in {i \in 0 .. Workers - 1 : share(i) # {}}}

\* Mutant of Iterate: starts at the cursor, not behind it.
IterateFromCursor(p, target) ==
    /\ sync[p] = 0 /\ ~paused /\ cursor < target
    /\ sync' = [sync EXCEPT ![p] = target]
    /\ workers' = workers \cup {Worker(p, TRUE, cursor, target, {})}
    /\ UNCHANGED <<network, stored, cursor, checkpoint, paused, faults>>

\* One iteration of the loop: the ledgers before the target are a gap, and a
\* long one is left to catchUp(); the target itself comes last.
Iterate(p, target) ==
    LET from == cursor + 1
        gap == from < target
        to == IF gap THEN target - 1 ELSE target
        parallel == gap /\ to - from >= Batch
    IN  /\ sync[p] = 0 /\ ~paused /\ cursor < target
        /\ sync' = [sync EXCEPT ![p] = to]
        /\ workers' = workers \cup
             (IF parallel THEN CatchUpWorkers(p, from, to)
                          ELSE {Worker(p, TRUE, from, to, {})})
        /\ UNCHANGED <<network, stored, cursor, checkpoint, paused, faults>>

Own(p) == {w \in workers : w.proc = p /\ w.owned}

\* Mutant of Advance: the cursor is not saved after a short range.
AdvanceParallelOnly(p) ==
    /\ sync[p] # 0 /\ \A w \in Own(p) : w.pc \in {"done", "stopped"}
    /\ cursor' = IF \E w \in Own(p) : w.pc = "stopped" \/ paused \/ w.direct
                 THEN cursor ELSE sync[p]
    /\ sync' = [sync EXCEPT ![p] = 0]
    /\ workers' = workers \ Own(p)
    /\ UNCHANGED <<network, stored, checkpoint, paused, faults>>

\* All workers have returned.  The cursor moves, unless one of them stopped or
\* the indexer is paused now.  setLastIndexedLedger() compares versions, but
\* writes its ledger in any case.
Advance(p) ==
    /\ sync[p] # 0 /\ \A w \in Own(p) : w.pc \in {"done", "stopped"}
    /\ IF \E w \in Own(p) : w.pc = "stopped" \/ (paused /\ ~w.direct)
       THEN cursor' = cursor
       ELSE cursor' = sync[p]
    /\ sync' = [sync EXCEPT ![p] = 0]
    /\ workers' = workers \ Own(p)
    /\ UNCHANGED <<network, stored, checkpoint, paused, faults>>

Crash(p) ==
    /\ faults < MaxFaults /\ faults' = faults + 1
    /\ sync' = [sync EXCEPT ![p] = 0]
    /\ workers' = {w \in workers : w.proc # p}
    /\ UNCHANGED <<network, stored, cursor, checkpoint, paused>>

-----------------------------------------------------------------------------
(* The operator and the network.                                            *)

SetIndexerPaused ==
    /\ paused' = ~paused
    /\ UNCHANGED <<network, stored, cursor, checkpoint, sync, workers, faults>>

CloseLedger ==
    /\ tip < MaxLedger /\ tip' = tip + 1
    /\ UNCHANGED <<chain, reorgs, stored, cursor, checkpoint, paused, sync, workers, faults>>

\* Ledgers from n on are replaced.
Reorganise(n) ==
    /\ reorgs < MaxReorgs /\ reorgs' = reorgs + 1
    /\ chain' = [m \in 0 .. MaxLedger |-> IF m >= n THEN reorgs + 1 ELSE chain[m]]
    /\ UNCHANGED <<tip, stored, cursor, checkpoint, paused, sync, workers, faults>>

WorkerStep(w) == \/ OpenWindow(w) \/ BeginWindow(w) \/ StartBatch(w)
                 \/ AcceptParent(w) \/ StoreLedger(w) \/ StoreEvents(w) \/ CommitBatch(w)
                 \/ DetectReorg(w) \/ Backtrack(w) \/ RollbackLedgers(w) \/ ResetCursor(w)

\* On a chain that is not reorganised.
IndexerNext == \/ \E w \in workers : WorkerStep(w) \/ WorkerFails(w)
               \/ \E p \in Procs : \/ Advance(p) \/ Crash(p)
                                   \/ \E target \in 1 .. tip : Iterate(p, target)
               \/ SetIndexerPaused \/ CloseLedger

Next == IndexerNext \/ \E n \in 2 .. tip : Reorganise(n)

Spec == Init /\ [][Next]_vars

\* Promises settle, and the polling loop starts a next iteration with the
\* latest ledger.
FairSpec ==
    /\ Init /\ [][IndexerNext]_vars
    /\ \A p \in Procs :
         /\ WF_vars(\E w \in Own(p) : WorkerStep(w))
         /\ WF_vars(Advance(p))
         /\ SF_vars(Iterate(p, tip))

-----------------------------------------------------------------------------
(* Properties.                                                              *)

Executions ==
    [proc : Procs \cup Jobs, owned : BOOLEAN, direct : BOOLEAN, from : Ledgers, to : Ledgers,
     todo : SUBSET Windows, at : Ledgers, pos : 0 .. MaxLedger,
     pc : {"open", "begin", "loop", "ledgers", "row", "events", "commit", "backtrack",
           "ancestor", "safety", "reset", "done", "stopped"},
     meta : [0 .. MaxLedger -> 0 .. MaxReorgs], back : SUBSET Ledgers]

\* Every ledger number, checkpoint and worker has its type.
TypeOK ==
    /\ tip \in 0 .. MaxLedger /\ cursor \in 0 .. MaxLedger
    /\ chain \in [0 .. MaxLedger -> 0 .. MaxReorgs]
    /\ hash \in [0 .. MaxLedger -> -1 .. MaxReorgs]
    /\ indexed \subseteq Ledgers
    /\ checkpoint \in [Windows -> [last : 0 .. MaxLedger, done : BOOLEAN]]
    /\ paused \in BOOLEAN
    /\ sync \in [Procs -> 0 .. MaxLedger]
    /\ workers \subseteq Executions
    /\ faults \in 0 .. MaxFaults /\ reorgs \in 0 .. MaxReorgs

\* The cursor has nothing missing behind it: every ledger up to it is indexed,
\* whichever process, worker or disowned worker has indexed it and whatever has
\* crashed or thrown on the way, except between a roll-back and its reset.
NoGaps == (\A w \in workers : w.pc # "reset") =>
            StartLedger + 1 .. cursor \subseteq indexed

\* A checkpoint vouches for the whole of its window: for all ledgers up to the
\* last one committed, and to the end if it is completed; so a later catch-up
\* with another start may skip them.
CheckpointSound ==
    \A v \in Windows :
      /\ {n \in RangeStart(v) .. checkpoint[v].last : n > StartLedger} \subseteq indexed
      /\ checkpoint[v].done =>
           {n \in RangeStart(v) .. RangeEnd(v) : n > StartLedger} \subseteq indexed

\* On a chain that is not reorganised the three tables of the indexer are an
\* index that only grows: no worker persists events ahead of their ledger's row
\* or moves the cursor over a ledger another one has still to index.
Index == INSTANCE LedgerIndex WITH rows <- Rows
IndexSpec == Index!Spec

\* The indexer catches up: the cursor comes up to every ledger the network has
\* closed, over crashes and errors, once the operator stops pausing it.
CatchesUp == <>[]~paused => \A n \in Ledgers : (tip >= n) ~> (cursor >= n)

-----------------------------------------------------------------------------
(* Inductive strengthenings.  The first holds of every chain, the others of  *)
(* one without reorganisations.                                             *)

InWindow == {"begin", "loop", "ledgers", "row", "events", "commit"}
Unwinding == {"backtrack", "ancestor", "safety"}

\* A worker inside a window or a batch is inside the work it was given.
InRange(w) ==
    /\ w.from <= w.to
    /\ \A v \in w.todo : \E n \in w.from .. w.to : WindowOf(n) = v
    /\ IF w.direct THEN w.at = w.from /\ w.pc \notin {"open", "begin", "loop", "commit", "stopped"}
       ELSE /\ w.todo = {} <=> w.pc = "done"
            /\ w.pc \in InWindow => WorkStart(w) <= w.at /\ w.at <= WorkEnd(w)
    /\ w.pc \in {"ledgers", "row"} => w.at <= w.pos /\ w.pos <= BatchEnd(w)
    /\ w.pc \in Unwinding => w.back # {} /\ w.back \subseteq 1 .. w.pos - 1

WorkersInRange == \A w \in workers : InRange(w)

\* What a worker of catchUp() relies on: everything before its range, and
\* before its batch in the current window, is indexed.
Grounded(w) ==
    /\ w.pc \notin Unwinding \cup {"reset"}
    /\ ~w.direct => StartLedger + 1 .. w.from - 1 \subseteq indexed
    /\ ~w.direct /\ w.pc \in InWindow =>
         {n \in RangeStart(Current(w)) .. w.at - 1 : n > StartLedger} \subseteq indexed
    /\ w.pc = "commit" => w.at .. BatchEnd(w) \subseteq indexed

WorkersGrounded == \A w \in workers : Grounded(w)

\* A worker has stored the rows of its batch up to the one at hand, and all of
\* them before it turns to the events.
RowsFirst(w) ==
    /\ w.pc \in {"ledgers", "row"} => w.at .. w.pos - 1 \subseteq Rows
    /\ w.pc = "events" => w.at .. BatchEnd(w) \subseteq Rows

WorkersRowsFirst == \A w \in workers : RowsFirst(w)

\* The ledgers a worker has still to see to.
Owed(w) == IF w.direct THEN {n \in w.from .. w.to : w.pc # "done"}
           ELSE {n \in w.from .. w.to : WindowOf(n) \in w.todo}

\* Whatever a loop iteration will move the cursor over is indexed, or owed by a
\* worker it waits for.
Covered ==
    \A p \in Procs : sync[p] # 0 =>
      \A n \in StartLedger + 1 .. sync[p] :
        n \in indexed \/ \E w \in Own(p) : n \in Owed(w)
=============================================================================
