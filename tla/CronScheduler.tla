--------------------------- MODULE CronScheduler ---------------------------
(***************************************************************************)
(* The cron scheduler (src/scheduler/cron-scheduler.ts): registration,      *)
(* executeJob() with its backpressure flag, timeout and retry timer, and    *)
(* gracefulShutdown().                                                      *)
(*                                                                         *)
(* An INSTANCE is one register() call; a job id may be registered again     *)
(* after a shutdown.  Timers and suspended executions keep their instance   *)
(* when the scheduler has forgotten it.  The process is single threaded: an *)
(* action is the code between two awaits.                                   *)
(***************************************************************************)
EXTENDS Integers

CONSTANTS
    Instances,       \* register() calls
    JobId,           \* the job id each one registers
    MaxDuration,     \* instances with a maxDuration
    RetryOnFailure,  \* instances with retryOnFailure
    MaxLive          \* bound: executions, tasks and timers of an instance

ASSUME InstancesAssumption == MaxDuration \subseteq Instances /\ RetryOnFailure \subseteq Instances
ASSUME MaxLiveAssumption == MaxLive \in Nat

VARIABLES
    state,           \* of each instance: "new", "registered", "cleared"
    cronOn,          \* instances whose node-cron task is started
    isRunning,       \* jobInstance.isRunning
    frames,          \* executeJob() calls awaiting their task
    orphans,         \* tasks still running after their executeJob() timed out
    timers,          \* pending retry timers
    isShuttingDown

vars == <<state, cronOn, isRunning, frames, orphans, timers, isShuttingDown>>

Registered == {i \in Instances : state[i] = "registered"}

\* Tasks of an instance whose body is being executed.
Tasks(i) == frames[i] + orphans[i]

Init == /\ state = [i \in Instances |-> "new"]
        /\ cronOn = {}
        /\ isRunning = [i \in Instances |-> FALSE]
        /\ frames = [i \in Instances |-> 0]
        /\ orphans = [i \in Instances |-> 0]
        /\ timers = [i \in Instances |-> 0]
        /\ isShuttingDown = FALSE

-----------------------------------------------------------------------------
(* Registration.                                                            *)

\* A job id that is registered already makes register() throw.
Register(i) ==
    /\ state[i] = "new" /\ \A k \in Registered : JobId[k] # JobId[i]
    /\ state' = [state EXCEPT ![i] = "registered"]
    /\ cronOn' = cronOn \cup {i}
    /\ UNCHANGED <<isRunning, frames, orphans, timers, isShuttingDown>>

Stop(i) == /\ i \in Registered /\ cronOn' = cronOn \ {i}
           /\ UNCHANGED <<state, isRunning, frames, orphans, timers, isShuttingDown>>

Start(i) == /\ i \in Registered /\ cronOn' = cronOn \cup {i}
            /\ UNCHANGED <<state, isRunning, frames, orphans, timers, isShuttingDown>>

-----------------------------------------------------------------------------
(* Executions.                                                              *)

\* executeJob() past its two early returns, up to the await of the task.
ExecuteJob(i) ==
    /\ isRunning' = [isRunning EXCEPT ![i] = TRUE]
    /\ frames' = [frames EXCEPT ![i] = @ + 1]

\* Mutant of Tick: no backpressure.
TickWhileRunning(i) ==
    /\ i \in cronOn /\ ~isShuttingDown
    /\ Tasks(i) + timers[i] < MaxLive
    /\ ExecuteJob(i)
    /\ UNCHANGED <<state, cronOn, orphans, timers, isShuttingDown>>

\* The cron expression matches; a run is skipped while one is in progress or
\* the scheduler is shutting down.
Tick(i) ==
    /\ i \in cronOn /\ ~isRunning[i] /\ ~isShuttingDown
    /\ Tasks(i) + timers[i] < MaxLive
    /\ ExecuteJob(i)
    /\ UNCHANGED <<state, cronOn, orphans, timers, isShuttingDown>>

\* Mutant of Finish: no finally block.
FinishStillRunning(i) ==
    /\ frames[i] > 0
    /\ frames' = [frames EXCEPT ![i] = @ - 1]
    /\ isRunning' = isRunning

\* An execution ends, however it ends: the finally block clears the flag of the
\* instance, whichever execution has set it last.
Finish(i) ==
    /\ frames[i] > 0
    /\ frames' = [frames EXCEPT ![i] = @ - 1]
    /\ isRunning' = [isRunning EXCEPT ![i] = FALSE]

Succeed(i) ==
    /\ Finish(i)
    /\ UNCHANGED <<state, cronOn, orphans, timers, isShuttingDown>>

\* The catch block: a retry is scheduled, also during a shutdown.
ScheduleRetry(i) ==
    timers' = IF i \in RetryOnFailure THEN [timers EXCEPT ![i] = @ + 1] ELSE timers

Fail(i) ==
    /\ Finish(i) /\ ScheduleRetry(i)
    /\ UNCHANGED <<state, cronOn, orphans, isShuttingDown>>

\* Mutant of Timeout: a job with a retry gets no timeout.
TimeoutUnlessRetried(i) ==
    /\ i \in MaxDuration \ RetryOnFailure
    /\ Finish(i) /\ ScheduleRetry(i)
    /\ orphans' = [orphans EXCEPT ![i] = @ + 1]
    /\ UNCHANGED <<state, cronOn, isShuttingDown>>

\* executeWithTimeout(): the race is lost, the task goes on.
Timeout(i) ==
    /\ i \in MaxDuration
    /\ Finish(i) /\ ScheduleRetry(i)
    /\ orphans' = [orphans EXCEPT ![i] = @ + 1]
    /\ UNCHANGED <<state, cronOn, isShuttingDown>>

OrphanEnds(i) ==
    /\ orphans[i] > 0 /\ orphans' = [orphans EXCEPT ![i] = @ - 1]
    /\ UNCHANGED <<state, cronOn, isRunning, frames, timers, isShuttingDown>>

\* The timer of a retry: nothing during a shutdown; otherwise the flag is
\* cleared first, so the run is not skipped.
RetryFires(i) ==
    /\ timers[i] > 0 /\ timers' = [timers EXCEPT ![i] = @ - 1]
    /\ IF isShuttingDown
       THEN UNCHANGED <<isRunning, frames>>
       ELSE Tasks(i) < MaxLive /\ ExecuteJob(i)
    /\ UNCHANGED <<state, cronOn, orphans, isShuttingDown>>

-----------------------------------------------------------------------------
(* gracefulShutdown().                                                      *)

\* A second call returns at once.
GracefulShutdown ==
    /\ ~isShuttingDown /\ isShuttingDown' = TRUE
    /\ cronOn' = {}
    /\ UNCHANGED <<state, isRunning, frames, orphans, timers>>

\* Mutant of ShutdownComplete: the cron tasks are not stopped a second time.
ShutdownStopsOnce ==
    /\ isShuttingDown /\ isShuttingDown' = FALSE
    /\ state' = [i \in Instances |-> IF i \in Registered THEN "cleared" ELSE state[i]]
    /\ UNCHANGED <<cronOn, isRunning, frames, orphans, timers>>

\* After the wait: stop the tasks that were started meanwhile, forget the jobs
\* and reset the flag.
ShutdownComplete ==
    /\ isShuttingDown /\ isShuttingDown' = FALSE
    /\ cronOn' = {}
    /\ state' = [i \in Instances |-> IF i \in Registered THEN "cleared" ELSE state[i]]
    /\ UNCHANGED <<isRunning, frames, orphans, timers>>

\* Mutant of Drained: only the jobs that are still scheduled are polled.
DrainedIfScheduled == \A i \in Registered \cap cronOn : ~isRunning[i]

\* The condition of the polling loop.
Drained == \A i \in Registered : ~isRunning[i]

ShutdownDrained == Drained /\ ShutdownComplete

\* maxWaitTime has passed with a job still running.
ShutdownTimesOut == ~Drained /\ ShutdownComplete

Next == \/ \E i \in Instances :
             \/ Register(i) \/ Stop(i) \/ Start(i)
             \/ Tick(i) \/ Succeed(i) \/ Fail(i) \/ Timeout(i)
             \/ OrphanEnds(i) \/ RetryFires(i)
        \/ GracefulShutdown \/ ShutdownDrained \/ ShutdownTimesOut

Spec == Init /\ [][Next]_vars

\* Timeouts fire; the polling loop ends, at the latest at maxWaitTime.  Tasks
\* may hang.
FairSpec == /\ Spec
            /\ \A i \in Instances : WF_vars(Timeout(i))
            /\ WF_vars(ShutdownDrained \/ ShutdownTimesOut)

-----------------------------------------------------------------------------
(* Properties.                                                              *)

\* Every instance, flag and counter has its type.
TypeOK == /\ state \in [Instances -> {"new", "registered", "cleared"}]
          /\ cronOn \subseteq Registered
          /\ isRunning \in [Instances -> BOOLEAN]
          /\ frames \in [Instances -> Nat]
          /\ orphans \in [Instances -> Nat]
          /\ timers \in [Instances -> Nat]
          /\ isShuttingDown \in BOOLEAN

\* No job is skipped for good: where isRunning is set there is an execution
\* whose finally block will clear it.
NotWedged == \A i \in Instances : isRunning[i] => frames[i] > 0

\* Backpressure works for a job without retryOnFailure, over shutdowns and new
\* registrations: its flag counts the executions in progress, and its runs
\* overlap only with tasks a maxDuration has given up.
ExactFlag == \A i \in Instances \ RetryOnFailure :
               /\ frames[i] = IF isRunning[i] THEN 1 ELSE 0
               /\ orphans[i] > 0 => i \in MaxDuration

\* A shutdown that did not time out has waited for those jobs.
DrainsPlainJobs ==
    [][ShutdownDrained => \A i \in Registered \ (MaxDuration \cup RetryOnFailure) :
                            Tasks(i) = 0]_vars

\* A job with a maxDuration is runnable again and again even if its tasks hang.
Unblocks == \A i \in MaxDuration : []<>(~isRunning[i])

-----------------------------------------------------------------------------
(* Inductive strengthening, proved in CronScheduler_proofs.                 *)

\* No job without retryOnFailure has a retry timer.
NoTimers == \A i \in Instances \ RetryOnFailure : timers[i] = 0
=============================================================================
