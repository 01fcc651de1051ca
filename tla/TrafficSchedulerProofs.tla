----------------------- MODULE TrafficSchedulerProofs -----------------------
(***************************************************************************)
(* Proofs about TrafficScheduler for every set of machines, any number of  *)
(* workers, any retry count and any set of silent peers.                   *)
(***************************************************************************)
EXTENDS TrafficScheduler, FiniteSetTheorems, TLAPS

\* The hook and the flags Stop sets agree, and after a Start they agree with
\* the loop: this is what makes LeaveLoop imply a cancelled context.
StopInv ==
  /\ hook \in {"init", "off"} => loop = "none"
  /\ hook = "up" => loop # "none"
  /\ stopClosed => hook \in {"waiting", "stopped", "timedout"}
  /\ hook \in {"cancelled", "waiting", "stopped", "timedout"} /\ loop # "none"
       => ctxDone

\* Only the loop's deferred close closes the channel, and workers exist
\* exactly when the loop does.
ChannelInv ==
  /\ jobsClosed <=> loop \in {"closed", "done"}
  /\ loop = "none" => jobs = <<>>
  /\ \A w \in Workers : worker[w] = "none" <=> loop = "none"
  /\ Len(jobs) <= MaxWorkers

\* A worker waits for another attempt only while one is left: without this
\* the attempt counter could leave its range at the next Retry.
RetryInv ==
  \A w \in Workers : worker[w] = "delay" => attempt[w] < RetryTimes

\* The inductive invariant: the first four parts carry the others.
IInv ==
  /\ TypeOK
  /\ StopInv
  /\ ChannelInv
  /\ RetryInv
  /\ DrainedBeforeExit
  /\ LoopDiesOnlyOnStop
  /\ hook = "stopped" => GoroutinesDone

-----------------------------------------------------------------------------
\* The channel's capacity is a number.
LEMMA MaxWorkersNat == MaxWorkers \in Nat
  BY SchedulerAssumption, FS_CardinalityType DEF SchedulerAssumption, MaxWorkers

\* Before OnStart the inductive invariant holds.
LEMMA IInvInit == Init => IInv
  <1> SUFFICES ASSUME Init PROVE IInv
    OBVIOUS
  <1> USE SchedulerAssumption DEF SchedulerAssumption, Init
  <1>1. TypeOK
    <2>1. /\ ctxDone \in BOOLEAN /\ stopClosed \in BOOLEAN
          /\ tick \in BOOLEAN /\ jobsClosed \in BOOLEAN
      OBVIOUS
    <2>2. /\ hook \in HookStates
          /\ loop \in LoopStates
          /\ pending \in SUBSET Machines
          /\ jobs \in Seq(Machines)
          /\ worker \in [Workers -> WorkerStates]
          /\ job \in [Workers -> Machines \cup {None}]
          /\ attempt \in [Workers -> 0..RetryTimes]
          /\ enabled \in SUBSET Machines
      BY DEF HookStates, LoopStates, WorkerStates
    <2> QED
      BY <2>1, <2>2 DEF TypeOK
  <1>2. StopInv /\ RetryInv /\ DrainedBeforeExit /\ LoopDiesOnlyOnStop
    BY DEF StopInv, RetryInv, DrainedBeforeExit, LoopDiesOnlyOnStop
  <1>3. ChannelInv
    BY MaxWorkersNat DEF ChannelInv
  <1> QED
    BY <1>1, <1>2, <1>3 DEF IInv

\* What the steps of a collection have in common: they move one busy worker
\* among the busy states or back to "recv", and touch nothing else.
LEMMA CollectStepFrame ==
  ASSUME NEW w \in Workers, TypeOK, RetryInv, CollectStep(w)
  PROVE  /\ KeepsRest
         /\ worker[w] \in BusyStates
         /\ worker' \in [Workers -> WorkerStates]
         /\ worker'[w] \in BusyStates \cup {"recv"}
         /\ \A v \in Workers \ {w} : worker'[v] = worker[v]
         /\ job' \in [Workers -> Machines \cup {None}]
         /\ attempt' \in [Workers -> 0..RetryTimes]
         /\ RetryInv'
  <1> USE SchedulerAssumption
      DEF SchedulerAssumption, BusyStates, TypeOK, WorkerStates, RetryInv
  <1> DEFINE Moves ==
               /\ worker' \in [Workers -> WorkerStates]
               /\ worker'[w] \in BusyStates \cup {"recv"}
               /\ \A v \in Workers \ {w} : worker'[v] = worker[v]
               /\ job' \in [Workers -> Machines \cup {None}]
               /\ attempt' \in [Workers -> 0..RetryTimes]
               /\ RetryInv'
  <1>1. Finish(w) => Moves
    BY DEF Finish
  <1>2. Fail(w) => Moves
    BY <1>1 DEF Fail
  <1>3. ASSUME NEW from \in BusyStates, NEW to \in BusyStates \ {"delay"},
               Advance(w, from, to)
        PROVE  Moves
    BY <1>3 DEF Advance
  <1>4. CASE LoadKey(w)
    BY <1>2, <1>3, <1>4 DEF LoadKey
  <1>5. CASE Dial(w)
    BY <1>2, <1>3, <1>5 DEF Dial
  <1>6. CASE Handshake(w)
    BY <1>2, <1>3, <1>6 DEF Handshake
  <1>7. CASE Command(w)
    BY <1>2, <1>3, <1>7 DEF Command
  <1>8. CASE Store(w)
    BY <1>1, <1>2, <1>8 DEF Store
  <1>9. CASE Retry(w)
    BY <1>9 DEF Retry
  <1>10. CASE AbandonRetry(w)
    BY <1>1, <1>10 DEF AbandonRetry
  <1> QED
    BY <1>4, <1>5, <1>6, <1>7, <1>8, <1>9, <1>10 DEF CollectStep

\* The hook's steps: only OnStopReturns and CancelRun touch what IInv ties
\* together, the first under Wait's condition, the second with the loop alive.
LEMMA HookStepIInv == ASSUME IInv, HookStep PROVE IInv'
  <1> USE SchedulerAssumption DEF SchedulerAssumption, IInv
  <1>1. CASE OnStartDisabled
    BY <1>1 DEF OnStartDisabled, TypeOK, HookStates, StopInv, ChannelInv, RetryInv,
                DrainedBeforeExit, LoopDiesOnlyOnStop, GoroutinesDone
  <1>2. CASE Start
    BY <1>2 DEF Start, TypeOK, HookStates, LoopStates, WorkerStates, StopInv, ChannelInv,
                RetryInv, DrainedBeforeExit, LoopDiesOnlyOnStop, GoroutinesDone
  <1>3. CASE CancelRun
    BY <1>3 DEF CancelRun, TypeOK, HookStates, StopInv, ChannelInv, RetryInv,
                DrainedBeforeExit, LoopDiesOnlyOnStop, GoroutinesDone
  <1>4. CASE CloseStop
    BY <1>4 DEF CloseStop, TypeOK, HookStates, StopInv, ChannelInv, RetryInv,
                DrainedBeforeExit, LoopDiesOnlyOnStop, GoroutinesDone
  <1>5. CASE OnStopReturns
    BY <1>5 DEF OnStopReturns, TypeOK, HookStates, StopInv, ChannelInv, RetryInv,
                DrainedBeforeExit, LoopDiesOnlyOnStop, GoroutinesDone
  <1>6. CASE OnStopTimesOut
    BY <1>6 DEF OnStopTimesOut, TypeOK, HookStates, StopInv, ChannelInv, RetryInv,
                DrainedBeforeExit, LoopDiesOnlyOnStop, GoroutinesDone
  <1> QED
    BY <1>1, <1>2, <1>3, <1>4, <1>5, <1>6 DEF HookStep

\* The loop's steps: a send needs the channel open, hence no worker is done.
LEMMA LoopStepIInv == ASSUME IInv, LoopStep PROVE IInv'
  <1> USE SchedulerAssumption, MaxWorkersNat
      DEF SchedulerAssumption, IInv, TypeOK, LoopStates, StopInv, ChannelInv,
          RetryInv, DrainedBeforeExit, LoopDiesOnlyOnStop, GoroutinesDone,
          stopVars, workerVars
  <1>1. CASE ListFails
    BY <1>1 DEF ListFails
  <1>2. CASE ListMachines
    BY <1>2 DEF ListMachines
  <1>3. CASE SendJob
    BY <1>3 DEF SendJob
  <1>4. CASE AbandonDispatch
    BY <1>4 DEF AbandonDispatch
  <1>5. CASE TakeTick
    BY <1>5 DEF TakeTick
  <1>6. CASE LeaveLoop
    BY <1>6 DEF LeaveLoop
  <1>7. CASE CloseJobs
    BY <1>7 DEF CloseJobs
  <1>8. CASE LoopDone
    BY <1>8 DEF LoopDone
  <1> QED
    BY <1>1, <1>2, <1>3, <1>4, <1>5, <1>6, <1>7, <1>8 DEF LoopStep

\* The workers' steps.
LEMMA WorkerStepIInv ==
  ASSUME IInv, NEW w \in Workers, WorkerStep(w) PROVE IInv'
  <1> USE SchedulerAssumption, MaxWorkersNat
      DEF SchedulerAssumption, IInv, TypeOK, WorkerStates, BusyStates, StopInv,
          ChannelInv, DrainedBeforeExit, LoopDiesOnlyOnStop, GoroutinesDone,
          stopVars, loopVars
  <1>1. CASE TakeJob(w)
    BY <1>1 DEF TakeJob, RetryInv
  <1>2. CASE WorkerExit(w)
    BY <1>2 DEF WorkerExit, RetryInv
  <1>3. CASE CollectStep(w)
    BY <1>3, CollectStepFrame DEF KeepsRest
  <1> QED
    BY <1>1, <1>2, <1>3 DEF WorkerStep

\* Every step of the hook, the ticker, the loop, the workers and the machine
\* handlers keeps the inductive invariant.
LEMMA IInvStep == IInv /\ [Next]_vars => IInv'
  <1> SUFFICES ASSUME IInv, [Next]_vars PROVE IInv'
    OBVIOUS
  <1>1. CASE HookStep
    BY <1>1, HookStepIInv
  <1>2. CASE Tick
    BY <1>2 DEF Tick, IInv, TypeOK, StopInv, ChannelInv, RetryInv,
                DrainedBeforeExit, LoopDiesOnlyOnStop, GoroutinesDone, workerVars
  <1>3. CASE LoopStep
    BY <1>3, LoopStepIInv
  <1>4. ASSUME NEW w \in Workers, WorkerStep(w) PROVE IInv'
    BY <1>4, WorkerStepIInv
  <1>5. ASSUME NEW m \in Machines, ToggleMachine(m) PROVE IInv'
    BY <1>5 DEF ToggleMachine, IInv, TypeOK, StopInv, ChannelInv, RetryInv,
                DrainedBeforeExit, LoopDiesOnlyOnStop, GoroutinesDone,
                stopVars, loopVars, workerVars
  <1>6. CASE UNCHANGED vars
    BY <1>6 DEF vars, IInv, TypeOK, StopInv, ChannelInv, RetryInv,
                DrainedBeforeExit, LoopDiesOnlyOnStop, GoroutinesDone
  <1> QED
    BY <1>1, <1>2, <1>3, <1>4, <1>5, <1>6 DEF Next

\* Every reachable state of the scheduler satisfies the inductive invariant.
THEOREM SchedulerInvariant == Spec => []IInv
  BY IInvInit, IInvStep, PTL DEF Spec

\* The scheduler's variables keep their types; in particular the attempt
\* counter of collectWithRetry never passes retry_times.
THEOREM SchedulerTypeCorrect == Spec => []TypeOK
  <1>1. IInv => TypeOK
    BY DEF IInv
  <1> QED
    BY <1>1, SchedulerInvariant, PTL

\* No dispatched job is lost in a shutdown and nothing is sent on the closed
\* jobs channel, for any number of workers and machines.
THEOREM SchedulerDrains == Spec => []DrainedBeforeExit
  <1>1. IInv => DrainedBeforeExit
    BY DEF IInv
  <1> QED
    BY <1>1, SchedulerInvariant, PTL

\* runLoop ends only after Stop.
THEOREM SchedulerLoopSurvives == Spec => []LoopDiesOnlyOnStop
  <1>1. IInv => LoopDiesOnlyOnStop
    BY DEF IInv
  <1> QED
    BY <1>1, SchedulerInvariant, PTL

\* When OnStop has returned nil, no goroutine of the scheduler moves again.
THEOREM SchedulerStoppedIsQuiet == Spec => StoppedIsQuiet
  <1>1. ASSUME IInv, [Next]_vars
        PROVE  [hook = "stopped" => UNCHANGED <<loopVars, tick, jobs, workerVars>>]_vars
    <2> SUFFICES ASSUME Next, hook = "stopped"
                 PROVE  UNCHANGED <<loopVars, tick, jobs, workerVars>>
      BY <1>1
    <2> USE <1>1 DEF IInv, GoroutinesDone
    <2>1. ~HookStep
      BY DEF HookStep, OnStartDisabled, Start, CancelRun, CloseStop,
             OnStopReturns, OnStopTimesOut
    <2>2. ~Tick /\ ~LoopStep
      BY DEF Tick, LoopStep, ListFails, ListMachines, SendJob, AbandonDispatch,
             TakeTick, LeaveLoop, CloseJobs, LoopDone, ChannelInv
    <2>3. ASSUME NEW w \in Workers, WorkerStep(w) PROVE FALSE
      <3>1. worker[w] \in {"none", "done"}
        OBVIOUS
      <3>2. ~CollectStep(w)
        BY <3>1, CollectStepFrame DEF BusyStates
      <3> QED
        BY <2>3, <3>1, <3>2 DEF WorkerStep, TakeJob, WorkerExit
    <2>4. ASSUME NEW m \in Machines, ToggleMachine(m)
          PROVE  UNCHANGED <<loopVars, tick, jobs, workerVars>>
      BY <2>4 DEF ToggleMachine
    <2> QED
      BY <2>1, <2>2, <2>3, <2>4 DEF Next
  <1> QED
    BY <1>1, SchedulerInvariant, PTL DEF Spec, StoppedIsQuiet
-----------------------------------------------------------------------------
(* What DisabledGoesQuiet rests on: a snapshot of a machine moves from the    *)
(* list to the channel to a worker, never back, and only a list makes one.    *)

Queued(m) == \E i \in 1..Len(jobs) : jobs[i] = m
Unlisted(m) == m \notin pending
Undispatched(m) == Unlisted(m) /\ ~Queued(m)
Untouched(m) == Undispatched(m) /\ ~Collected(m)

\* No step puts a disabled machine into the list of the loop, one that is not
\* listed into the channel, or one that is in neither into a worker's hands: a
\* retry stays with its job.
LEMMA SnapshotsMoveOn ==
  ASSUME TypeOK, RetryInv, [Next]_vars, NEW m \in Machines, m \notin enabled
  PROVE  /\ Unlisted(m) => Unlisted(m)'
         /\ Undispatched(m) => Undispatched(m)'
         /\ Untouched(m) => Untouched(m)'
  <1> USE DEF TypeOK, Unlisted, Undispatched, Untouched, Queued, Collected
  <1>1. CASE HookStep
    <2>1. UNCHANGED <<pending, jobs>>
      BY <1>1 DEF HookStep, OnStartDisabled, Start, CancelRun, CloseStop,
                  OnStopReturns, OnStopTimesOut
    <2>2. UNCHANGED job
      BY <1>1 DEF HookStep, OnStartDisabled, Start, CancelRun, CloseStop,
                  OnStopReturns, OnStopTimesOut
    <2> QED
      BY <2>1, <2>2
  <1>2. CASE SendJob
    <2>1. PICK k \in pending : jobs' = Append(jobs, k) /\ pending' = pending \ {k}
      BY <1>2 DEF SendJob
    <2>2. UNCHANGED job
      BY <1>2 DEF SendJob, workerVars
    <2>3. Undispatched(m) => ~Queued(m)'
      BY <2>1
    <2> QED
      BY <2>1, <2>2, <2>3
  <1>3. CASE LoopStep /\ ~SendJob
    <2>1. UNCHANGED <<jobs, job>>
      BY <1>3 DEF LoopStep, ListFails, ListMachines, AbandonDispatch, TakeTick,
                  LeaveLoop, CloseJobs, LoopDone, workerVars
    <2>2. Unlisted(m) => Unlisted(m)'
      BY <1>3 DEF LoopStep, ListFails, ListMachines, AbandonDispatch, TakeTick,
                  LeaveLoop, CloseJobs, LoopDone
    <2> QED
      BY <2>1, <2>2
  <1>4. ASSUME NEW w \in Workers, TakeJob(w)
        PROVE  /\ Unlisted(m) => Unlisted(m)'
               /\ Undispatched(m) => Undispatched(m)'
               /\ Untouched(m) => Untouched(m)'
    <2>1. jobs # <<>> /\ jobs' = Tail(jobs) /\ pending' = pending
      BY <1>4 DEF TakeJob, loopVars
    <2>2. job' = [job EXCEPT ![w] = Head(jobs)]
      BY <1>4 DEF TakeJob
    <2>3. Queued(m)' => Queued(m)
      BY <2>1
    <2>4. Head(jobs) = m => Queued(m)
      BY <2>1
    <2>5. Collected(m)' => Collected(m) \/ Head(jobs) = m
      BY <2>2
    <2> QED
      BY <2>1, <2>3, <2>4, <2>5
  <1>5. ASSUME NEW w \in Workers, WorkerExit(w) \/ CollectStep(w)
        PROVE  /\ Unlisted(m) => Unlisted(m)'
               /\ Undispatched(m) => Undispatched(m)'
               /\ Untouched(m) => Untouched(m)'
    <2>1. UNCHANGED <<jobs, pending>>
      <3>1. CASE WorkerExit(w)
        BY <3>1 DEF WorkerExit, loopVars
      <3>2. CASE CollectStep(w)
        BY <3>2, CollectStepFrame DEF KeepsRest, loopVars
      <3> QED
        BY <1>5, <3>1, <3>2
    <2>2. \A v \in Workers : job'[v] \in {job[v], None}
      BY <1>5 DEF WorkerExit, CollectStep, LoadKey, Dial, Handshake, Command, Store,
                  Retry, AbandonRetry, Advance, Fail, Finish
    <2>3. Collected(m)' => Collected(m)
      BY <2>2, SchedulerAssumption DEF SchedulerAssumption
    <2> QED
      BY <2>1, <2>3
  <1>6. CASE Tick \/ (\E k \in Machines : ToggleMachine(k)) \/ UNCHANGED vars
    <2>1. UNCHANGED <<pending, jobs, job>>
      BY <1>6 DEF Tick, ToggleMachine, vars, loopVars, workerVars
    <2> QED
      BY <2>1
  <1> QED
    BY <1>1, <1>2, <1>3, <1>4, <1>5, <1>6 DEF Next, WorkerStep

\* The part of DisabledGoesQuiet that is no matter of time: while a machine stays
\* disabled or deleted, once the loop's list is without it, it stays so, then the
\* channel, and from then on a worker that is done with it is done for good. That
\* each of these happens is what TLC checks under fairness.
THEOREM SchedulerSnapshotsRunOut ==
  ASSUME NEW m \in Machines
  PROVE  Spec => /\ [](Unlisted(m) /\ [](m \notin enabled) => []Unlisted(m))
                 /\ [](Undispatched(m) /\ [](m \notin enabled) => []Undispatched(m))
                 /\ [](Untouched(m) /\ [](m \notin enabled) => []~Collected(m))
  <1>1. ASSUME IInv, [Next]_vars, m \notin enabled
        PROVE  /\ Unlisted(m) => Unlisted(m)'
               /\ Undispatched(m) => Undispatched(m)'
               /\ Untouched(m) => Untouched(m)'
    BY <1>1, SnapshotsMoveOn DEF IInv
  <1>2. Untouched(m) => ~Collected(m)
    BY DEF Untouched
  <1> QED
    BY <1>1, <1>2, SchedulerInvariant, PTL DEF Spec

=============================================================================
