---------------------------- MODULE IndexerRepair ----------------------------
(***************************************************************************)
(* Reconciliation beside the indexer: runReconciliation() looks for ledgers *)
(* without a row (src/indexer/reconciliation.ts) and has their ranges       *)
(* indexed by triggerAutomatedGapRepair() (src/indexer/repair.ts), each     *)
(* with processLedgerRange(), as a worker nobody of IndexerCatchUp awaits.  *)
(* A JOB is one caller: the timer of an indexer or an API request.          *)
(*                                                                         *)
(* The query and the bounds it was given are read in one step.  LedgerGap   *)
(* rows, which only count the attempts for an alert, and the event counts   *)
(* reconciliation reports without acting on them are left out.  So is the   *)
(* sweep of repair.ts: its raw SQL names tables the schema does not have,   *)
(* so every sweep throws at its first query and repairs nothing.            *)
(***************************************************************************)
EXTENDS IndexerCatchUp

CONSTANT Lookback  \* lookbackLedgers

ASSUME LookbackAssumption == Lookback \in Nat

VARIABLE job  \* what each job is at, and the ledgers it has still to repair

rvars == <<vars, job>>

RInit == Init /\ job = [r \in Jobs |-> [pc |-> "idle", todo |-> {}]]

-----------------------------------------------------------------------------
(* What the query finds.                                                    *)

\* Mutant of LedgerGaps: the lookback goes past the first ledger.
LedgerGapsBelow == (Max(Rows) - Lookback .. Max(Rows)) \ Rows

\* findLedgerGaps(): the ledgers without a row among the last before the latest row.
LedgerGaps == (Max({1, Max(Rows) - Lookback}) .. Max(Rows)) \ Rows

-----------------------------------------------------------------------------
(* The jobs.                                                                *)

\* The repair of the job's last range has ended, either way.
Returned(r) == \A w \in workers : w.proc # r

Finds(r, pc, S) ==
    /\ job' = [job EXCEPT ![r] = [pc |-> pc, todo |-> S]]
    /\ UNCHANGED vars

\* runReconciliation(): nothing happens without a gap.
Reconcile(r) ==
    /\ job[r].pc = "idle" /\ Rows # {} /\ LedgerGaps # {}
    /\ Finds(r, "gaps", LedgerGaps)

\* Mutant of FirstRange: a range is closed one ledger early.
FirstRangeShort(S) == {n \in S : n = Min(S) \/ Min(S) .. n + 1 \subseteq S}

\* The first of the ranges S is grouped into.
FirstRange(S) == {n \in S : Min(S) .. n \subseteq S}

\* Mutant of Backfill: the last range of the list is left out.
BackfillDropsLast(r) ==
    LET range == FirstRange(job[r].todo)
        left == job[r].todo \ range
    IN  /\ job[r].todo # {} /\ Returned(r)
        /\ job' = [job EXCEPT ![r].todo = left]
        /\ workers' = IF left = {} THEN workers ELSE
                      workers \cup {[Worker(r, TRUE, Min(range), Max(range), {})
                                       EXCEPT !.owned = FALSE]}
        /\ UNCHANGED <<network, stored, cursor, checkpoint, paused, sync, faults>>

\* The loop of triggerAutomatedGapRepair(): the ranges one by one, whatever
\* becomes of the one before.
Backfill(r) ==
    LET range == FirstRange(job[r].todo)
    IN  /\ job[r].todo # {} /\ Returned(r)
        /\ job' = [job EXCEPT ![r].todo = @ \ range]
        /\ workers' = workers \cup {[Worker(r, TRUE, Min(range), Max(range), {})
                                       EXCEPT !.owned = FALSE]}
        /\ UNCHANGED <<network, stored, cursor, checkpoint, paused, sync, faults>>

EndJob(r) ==
    /\ job[r].pc = "gaps" /\ job[r].todo = {} /\ Returned(r)
    /\ Finds(r, "idle", {})

\* The process dies, or a query of the job throws.
JobFails(r) ==
    /\ job[r].pc # "idle"
    /\ faults < MaxFaults /\ faults' = faults + 1
    /\ job' = [job EXCEPT ![r] = [pc |-> "idle", todo |-> {}]]
    /\ workers' = {w \in workers : w.proc # r}
    /\ UNCHANGED <<network, stored, cursor, checkpoint, paused, sync>>

JobStep(r) == Backfill(r) \/ EndJob(r)

RNext == \/ Next /\ UNCHANGED job
         \/ \E r \in Jobs : Reconcile(r) \/ JobStep(r) \/ JobFails(r)

RSpec == RInit /\ [][RNext]_rvars

\* As FairSpec; and the jobs are started again and again and their calls settle.
RFairSpec ==
    /\ RSpec
    /\ \A p \in Procs :
         /\ WF_rvars((\E w \in Own(p) : WorkerStep(w)) /\ UNCHANGED job)
         /\ WF_rvars(Advance(p) /\ UNCHANGED job)
         /\ SF_rvars(Iterate(p, tip) /\ UNCHANGED job)
    /\ \A r \in Jobs :
         /\ WF_rvars((\E w \in workers : w.proc = r /\ WorkerStep(w)) /\ UNCHANGED job)
         /\ WF_rvars(JobStep(r)) /\ SF_rvars(Reconcile(r))

-----------------------------------------------------------------------------
(* Properties.                                                              *)

\* What a job has found, and the ranges it has handed out, are ledgers.
RTypeOK ==
    /\ TypeOK
    /\ job \in [Jobs -> [pc : {"idle", "gaps"}, todo : SUBSET Ledgers]]

\* A job repairs one range at a time, from the lowest to the highest, and its
\* ranges neither overlap nor touch: over roll-backs, errors and restarts, while
\* a range is repaired no ledger of it or next to it is found again.
RepairsInTurn ==
    \A w \in workers : w.proc \in Jobs =>
      /\ \A v \in workers : v.proc = w.proc => v = w
      /\ \A n \in job[w.proc].todo : n > w.to + 1

\* Reconciliation heals what it looks at: once the operator stops pausing the
\* indexer, the cursor is at the network's last ledger and every ledger of the
\* lookback before it has a row, for good, whatever a roll-back, an error or a
\* crash between the roll-back and the reset of the cursor has left behind the
\* cursor and however often a repair has moved it.
RecentGapsHeal ==
    <>[]~paused =>
      <>[](cursor = tip /\ {n \in StartLedger + 1 .. tip : n >= tip - Lookback} \subseteq Rows)

-----------------------------------------------------------------------------
(* Inductive strengthening.                                                 *)

\* A job that is over has nothing to do and nobody at work.
JobsAtRest ==
    \A r \in Jobs : job[r].pc = "idle" => job[r].todo = {} /\ Returned(r)
=============================================================================
