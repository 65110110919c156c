------------------------ MODULE CronScheduler_proofs ------------------------
(***************************************************************************)
(* Proofs about CronScheduler for every set of jobs and every bound.        *)
(***************************************************************************)
EXTENDS CronScheduler, TLAPS

Inv == TypeOK /\ NotWedged /\ ExactFlag /\ NoTimers

LEMMA InvInit == Init => Inv
<1> SUFFICES ASSUME Init PROVE Inv
  OBVIOUS
<1>1. TypeOK
  BY DEF Init, TypeOK
<1>2. \A i \in Instances : ~isRunning[i] /\ frames[i] = 0 /\ orphans[i] = 0 /\ timers[i] = 0
  BY DEF Init
<1>3. NotWedged /\ ExactFlag /\ NoTimers
  BY <1>2 DEF NotWedged, ExactFlag, NoTimers
<1>4. QED  BY <1>1, <1>3 DEF Inv

\* A step of the scheduler keeps the flags and the executions in agreement.
LEMMA InvStep ==
    ASSUME Inv, [Next]_vars
    PROVE  Inv'
<1> USE InstancesAssumption DEF Inv, TypeOK, NotWedged, ExactFlag, NoTimers, Registered
<1>1. ASSUME NEW i \in Instances, Register(i) \/ Stop(i) \/ Start(i)
      PROVE  Inv'
  BY <1>1 DEF Register, Stop, Start
<1>2. ASSUME NEW i \in Instances, Tick(i)
      PROVE  Inv'
  BY <1>2 DEF Tick, ExecuteJob
<1>3. ASSUME NEW i \in Instances, Succeed(i)
      PROVE  Inv'
  BY <1>3 DEF Succeed, Finish
<1>4. ASSUME NEW i \in Instances, Fail(i)
      PROVE  Inv'
  BY <1>4 DEF Fail, Finish, ScheduleRetry
<1>5. ASSUME NEW i \in Instances, Timeout(i)
      PROVE  Inv'
  BY <1>5 DEF Timeout, Finish, ScheduleRetry
<1>6. ASSUME NEW i \in Instances, OrphanEnds(i)
      PROVE  Inv'
  BY <1>6 DEF OrphanEnds
<1>7. ASSUME NEW i \in Instances, RetryFires(i)
      PROVE  Inv'
  <2>1. i \in RetryOnFailure /\ timers[i] > 0
    BY <1>7 DEF RetryFires
  <2>2. CASE isShuttingDown
    BY <1>7, <2>1, <2>2 DEF RetryFires
  <2>3. CASE ~isShuttingDown
    <3>1. /\ isRunning' = [isRunning EXCEPT ![i] = TRUE]
          /\ frames' = [frames EXCEPT ![i] = @ + 1]
          /\ timers' = [timers EXCEPT ![i] = @ - 1]
          /\ UNCHANGED <<state, cronOn, orphans, isShuttingDown>>
      BY <1>7, <2>3 DEF RetryFires, ExecuteJob
    <3>2. TypeOK'
      BY <2>1, <3>1
    <3>3. NotWedged'
      BY <3>1
    <3>4. ExactFlag' /\ NoTimers'
      BY <2>1, <3>1
    <3>5. QED  BY <3>2, <3>3, <3>4
  <2>4. QED  BY <2>2, <2>3
<1>8. CASE GracefulShutdown \/ ShutdownDrained \/ ShutdownTimesOut
  BY <1>8 DEF GracefulShutdown, ShutdownDrained, ShutdownTimesOut, ShutdownComplete
<1>9. CASE UNCHANGED vars
  BY <1>9 DEF vars
<1>10. QED
  BY <1>1, <1>2, <1>3, <1>4, <1>5, <1>6, <1>7, <1>8, <1>9 DEF Next

LEMMA Invariant == Spec => []Inv
BY InvInit, InvStep, PTL DEF Spec

\* Flags and counters keep their types, and only registered jobs are scheduled.
THEOREM SchedulerTypes == Spec => []TypeOK
<1>1. Inv => TypeOK  BY DEF Inv
<1>2. QED  BY <1>1, Invariant, PTL

\* isRunning never outlives the executions that will clear it.
THEOREM NeverWedged == Spec => []NotWedged
<1>1. Inv => NotWedged  BY DEF Inv
<1>2. QED  BY <1>1, Invariant, PTL

\* Executions of a job without retryOnFailure never overlap, and only a
\* maxDuration leaves tasks behind.
THEOREM Backpressure == Spec => []ExactFlag
<1>1. Inv => ExactFlag  BY DEF Inv
<1>2. QED  BY <1>1, Invariant, PTL

\* A shutdown that does not time out leaves no task of a plain job behind.
THEOREM ShutdownDrainsPlainJobs == Spec => DrainsPlainJobs
<1>1. ASSUME Inv, ShutdownDrained
      PROVE  \A i \in Registered \ (MaxDuration \cup RetryOnFailure) : Tasks(i) = 0
  <2> SUFFICES ASSUME NEW i \in Registered \ (MaxDuration \cup RetryOnFailure)
               PROVE  Tasks(i) = 0
    OBVIOUS
  <2>1. frames[i] = 0
    BY <1>1 DEF Inv, ExactFlag, ShutdownDrained, Drained, Registered
  <2>2. orphans[i] = 0
    BY <1>1 DEF Inv, TypeOK, ExactFlag, Registered
  <2>3. QED  BY <2>1, <2>2 DEF Tasks
<1>2. Inv /\ [Next]_vars =>
        [ShutdownDrained => \A i \in Registered \ (MaxDuration \cup RetryOnFailure) :
                              Tasks(i) = 0]_vars
  BY <1>1
<1>3. QED  BY <1>2, Invariant, PTL DEF Spec, DrainsPlainJobs
=============================================================================
