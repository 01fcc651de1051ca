-------------------------- MODULE TrafficScheduler --------------------------
(***************************************************************************)
(* The background collection scheduler of                                  *)
(* internal/service/traffic_scheduler.go: one dispatch loop that feeds a   *)
(* bounded channel of jobs, MaxWorkers workers that drain it, a retry loop *)
(* around every collection, and the fx hook that starts and stops them.    *)
(*                                                                         *)
(* A collection (collectMachineSamples and SSHRunner.Run) is followed only *)
(* as far as the points where it can block, fail or notice that the run    *)
(* context was cancelled: reading the key, dialling, the SSH handshake,    *)
(* the remote command, and storing and evaluating the samples.             *)
(***************************************************************************)
EXTENDS Naturals, Sequences, FiniteSets

CONSTANTS
  Machines,     \* primary keys of the machines table
  Workers,      \* the worker goroutines; collector.max_workers of them
  RetryTimes,   \* collector.retry_times
  SilentPeers,  \* machines that accept TCP and then never speak SSH
  None          \* no job

\* Config.Validate: max_workers > 0, retry_times >= 0.
ASSUME SchedulerAssumption ==
  /\ Machines \subseteq Nat
  /\ IsFiniteSet(Workers) /\ Workers # {}
  /\ RetryTimes \in Nat
  /\ SilentPeers \subseteq Machines
  /\ None \notin Machines

VARIABLES
  hook,        \* progress of the fx lifecycle hook: OnStart, then OnStop
  ctxDone,     \* the run context is cancelled
  stopClosed,  \* stopCh is closed
  loop,        \* program counter of runLoop
  tick,        \* a tick waits in the ticker's one-slot channel
  pending,     \* machines dispatchOnce has listed and not yet sent
  jobs,        \* contents of the jobs channel
  jobsClosed,  \* the jobs channel is closed
  worker,      \* program counter of each worker
  job,         \* the machine each worker is collecting
  attempt,     \* attempt number of that job, from 0
  enabled      \* machines whose row has collect_enabled set

loopVars   == <<loop, pending>>
workerVars == <<worker, job, attempt>>
stopVars   == <<hook, ctxDone, stopClosed>>
vars == <<hook, ctxDone, stopClosed, loop, tick, pending, jobs, jobsClosed,
          worker, job, attempt, enabled>>

\* Capacity of the jobs channel, and the number of workers.
MaxWorkers == Cardinality(Workers)

\* A worker's states: "recv" waits on the channel, the busy ones are inside
\* collectWithRetry.
BusyStates == {"key", "dial", "handshake", "command", "store", "delay"}
WorkerStates == {"none", "recv", "done"} \cup BusyStates
LoopStates == {"none", "list", "send", "select", "return", "closed", "done"}
HookStates == {"init", "off", "up", "cancelled", "waiting", "stopped", "timedout"}

Init ==
  /\ hook = "init"
  /\ ctxDone = FALSE
  /\ stopClosed = FALSE
  /\ loop = "none"
  /\ tick = FALSE
  /\ pending = {}
  /\ jobs = <<>>
  /\ jobsClosed = FALSE
  /\ worker = [w \in Workers |-> "none"]
  /\ job = [w \in Workers |-> None]
  /\ attempt = [w \in Workers |-> 0]
  /\ enabled \in SUBSET Machines

-----------------------------------------------------------------------------
(* The fx hook *)

\* OnStart in restore mode, or with collector.enabled = false.
OnStartDisabled ==
  /\ hook = "init"
  /\ hook' = "off"
  /\ UNCHANGED <<ctxDone, stopClosed, loop, tick, pending, jobs, jobsClosed,
                 worker, job, attempt, enabled>>

\* OnStart calls Start: the workers, then the loop goroutine.
Start ==
  /\ hook = "init"
  /\ hook' = "up"
  /\ worker' = [w \in Workers |-> "recv"]
  /\ loop' = "list"
  /\ UNCHANGED <<ctxDone, stopClosed, tick, pending, jobs, jobsClosed, job,
                 attempt, enabled>>

\* OnStop calls Stop, whose first half is cancelRun. Without a Start there is
\* no run context to cancel.
CancelRun ==
  /\ hook \in {"off", "up"}
  /\ hook' = "cancelled"
  /\ ctxDone' = (hook = "up")
  /\ UNCHANGED <<stopClosed, loop, tick, pending, jobs, jobsClosed, worker,
                 job, attempt, enabled>>

\* The second half of Stop; OnStop then spawns Wait and selects on it.
CloseStop ==
  /\ hook = "cancelled"
  /\ hook' = "waiting"
  /\ stopClosed' = TRUE
  /\ UNCHANGED <<ctxDone, loop, tick, pending, jobs, jobsClosed, worker, job,
                 attempt, enabled>>

WaitLoopOnly == loop \in {"none", "done"}

\* Wait: loopDone, then workersDone.
GoroutinesDone ==
  /\ loop \in {"none", "done"}
  /\ \A w \in Workers : worker[w] \in {"none", "done"}

\* The select of OnStop takes the done branch.
OnStopReturns ==
  /\ hook = "waiting"
  /\ GoroutinesDone
  /\ hook' = "stopped"
  /\ UNCHANGED <<ctxDone, stopClosed, loop, tick, pending, jobs, jobsClosed,
                 worker, job, attempt, enabled>>

\* The select of OnStop takes the stopContext branch.
OnStopTimesOut ==
  /\ hook = "waiting"
  /\ hook' = "timedout"
  /\ UNCHANGED <<ctxDone, stopClosed, loop, tick, pending, jobs, jobsClosed,
                 worker, job, attempt, enabled>>

-----------------------------------------------------------------------------
(* The dispatch loop *)

\* time.Ticker keeps at most one undelivered tick.
Tick ==
  /\ loop \in {"list", "send", "select"}
  /\ ~tick
  /\ tick' = TRUE
  /\ UNCHANGED <<hook, ctxDone, stopClosed, loop, pending, jobs, jobsClosed,
                 workerVars, enabled>>

ListFailureEndsLoop ==
  /\ loop = "list"
  /\ loop' = "return"
  /\ UNCHANGED <<stopVars, tick, pending, jobs, jobsClosed, workerVars, enabled>>

\* ListEnabledMachines fails: always once the context is cancelled, and
\* whenever the database does. dispatchOnce only logs it.
ListFails ==
  /\ loop = "list"
  /\ loop' = "select"
  /\ UNCHANGED <<stopVars, tick, pending, jobs, jobsClosed, workerVars, enabled>>

ListAllMachines ==
  /\ loop = "list"
  /\ ~ctxDone
  /\ pending' = Machines
  /\ loop' = "send"
  /\ UNCHANGED <<stopVars, tick, jobs, jobsClosed, workerVars, enabled>>

\* ListEnabledMachines returns a snapshot of the enabled machines.
ListMachines ==
  /\ loop = "list"
  /\ ~ctxDone
  /\ pending' = enabled
  /\ loop' = IF enabled = {} THEN "select" ELSE "send"
  /\ UNCHANGED <<stopVars, tick, jobs, jobsClosed, workerVars, enabled>>

SendFirstOnly ==
  /\ loop = "send"
  /\ Len(jobs) < MaxWorkers
  /\ \E m \in pending :
       /\ \A k \in pending : k <= m
       /\ jobs' = Append(jobs, m)
  /\ pending' = {}
  /\ loop' = "select"
  /\ UNCHANGED <<stopVars, tick, jobsClosed, workerVars, enabled>>

\* The send branch of dispatchOnce, in the order of machineStore.List (id
\* descending). Go picks any ready branch, so it may win against a stop.
SendJob ==
  /\ loop = "send"
  /\ Len(jobs) < MaxWorkers
  /\ \E m \in pending :
       /\ \A k \in pending : k <= m
       /\ jobs' = Append(jobs, m)
       /\ pending' = pending \ {m}
       /\ loop' = IF pending = {m} THEN "select" ELSE "send"
  /\ UNCHANGED <<stopVars, tick, jobsClosed, workerVars, enabled>>

\* The stop and context branches of dispatchOnce: the rest of the list is
\* dropped.
AbandonDispatch ==
  /\ loop = "send"
  /\ stopClosed \/ ctxDone
  /\ pending' = {}
  /\ loop' = "select"
  /\ UNCHANGED <<stopVars, tick, jobs, jobsClosed, workerVars, enabled>>

\* The ticker branch of runLoop.
TakeTick ==
  /\ loop = "select"
  /\ tick
  /\ tick' = FALSE
  /\ loop' = "list"
  /\ UNCHANGED <<stopVars, pending, jobs, jobsClosed, workerVars, enabled>>

\* The stop and context branches of runLoop, and the deferred ticker.Stop.
LeaveLoop ==
  /\ loop = "select"
  /\ stopClosed \/ ctxDone
  /\ loop' = "return"
  /\ tick' = FALSE
  /\ UNCHANGED <<stopVars, pending, jobs, jobsClosed, workerVars, enabled>>

\* The deferred close(jobs).
CloseJobs ==
  /\ loop = "return"
  /\ jobsClosed' = TRUE
  /\ loop' = "closed"
  /\ UNCHANGED <<stopVars, tick, pending, jobs, workerVars, enabled>>

\* The deferred loopDone.Done().
LoopDone ==
  /\ loop = "closed"
  /\ loop' = "done"
  /\ UNCHANGED <<stopVars, tick, pending, jobs, jobsClosed, workerVars, enabled>>

-----------------------------------------------------------------------------
(* The workers *)

\* `for job := range jobs` receives the next job.
TakeJob(w) ==
  /\ worker[w] = "recv"
  /\ jobs # <<>>
  /\ jobs' = Tail(jobs)
  /\ job' = [job EXCEPT ![w] = Head(jobs)]
  /\ attempt' = [attempt EXCEPT ![w] = 0]
  /\ worker' = [worker EXCEPT ![w] = "key"]
  /\ UNCHANGED <<stopVars, loopVars, tick, jobsClosed, enabled>>

WorkerExitOnStop(w) ==
  /\ worker[w] = "recv"
  /\ stopClosed
  /\ worker' = [worker EXCEPT ![w] = "done"]
  /\ UNCHANGED <<stopVars, loopVars, tick, jobs, jobsClosed, job, attempt, enabled>>

\* The range ends only when the channel is closed and drained.
WorkerExit(w) ==
  /\ worker[w] = "recv"
  /\ jobsClosed
  /\ jobs = <<>>
  /\ worker' = [worker EXCEPT ![w] = "done"]
  /\ UNCHANGED <<stopVars, loopVars, tick, jobs, jobsClosed, job, attempt, enabled>>

\* The current collection moves on to its next phase.
Advance(w, from, to) ==
  /\ worker[w] = from
  /\ worker' = [worker EXCEPT ![w] = to]
  /\ UNCHANGED <<job, attempt>>

\* collectWithRetry returns to the range loop.
Finish(w) ==
  /\ worker' = [worker EXCEPT ![w] = "recv"]
  /\ job' = [job EXCEPT ![w] = None]
  /\ attempt' = [attempt EXCEPT ![w] = 0]

\* CollectMachine returned an error: wait for the next attempt, or give up.
Fail(w) ==
  \/ /\ attempt[w] < RetryTimes
     /\ worker' = [worker EXCEPT ![w] = "delay"]
     /\ UNCHANGED <<job, attempt>>
  \/ /\ attempt[w] >= RetryTimes
     /\ Finish(w)

KeepsRest ==
  UNCHANGED <<stopVars, loopVars, tick, jobs, jobsClosed, enabled>>

\* sshKeyStore.GetByID and Decrypt; the query fails under a cancelled context.
LoadKey(w) ==
  /\ worker[w] = "key"
  /\ \/ ~ctxDone /\ Advance(w, "key", "dial")
     \/ Fail(w)
  /\ KeepsRest

\* dialer.DialContext, bounded by dial_timeout and by the command context.
Dial(w) ==
  /\ worker[w] = "dial"
  /\ \/ Advance(w, "dial", "handshake")
     \/ Fail(w)
  /\ KeepsRest

\* ssh.NewClientConn and client.NewSession. Neither takes a context and no
\* deadline is set on the connection: only the peer can end this step.
Handshake(w) ==
  /\ worker[w] = "handshake"
  /\ job[w] \notin SilentPeers
  /\ \/ Advance(w, "handshake", "command")
     \/ Fail(w)
  /\ KeepsRest

\* The select on the command's result and the command context, then
\* parseVNStatSamples.
Command(w) ==
  /\ worker[w] = "command"
  /\ \/ Advance(w, "command", "store")
     \/ Fail(w)
  /\ KeepsRest

\* UpsertSamples and EvaluateSamples, which fail under a cancelled context.
Store(w) ==
  /\ worker[w] = "store"
  /\ \/ ~ctxDone /\ Finish(w)
     \/ Fail(w)
  /\ KeepsRest

RetryWithoutCounting(w) ==
  /\ worker[w] = "delay"
  /\ worker' = [worker EXCEPT ![w] = "key"]
  /\ UNCHANGED <<job, attempt>>
  /\ KeepsRest

\* The retry delay elapses.
Retry(w) ==
  /\ worker[w] = "delay"
  /\ worker' = [worker EXCEPT ![w] = "key"]
  /\ attempt' = [attempt EXCEPT ![w] = @ + 1]
  /\ UNCHANGED job
  /\ KeepsRest

\* The stop and context branches of the retry delay.
AbandonRetry(w) ==
  /\ worker[w] = "delay"
  /\ stopClosed \/ ctxDone
  /\ Finish(w)
  /\ KeepsRest

\* The machine handlers, on other goroutines, create, edit or delete rows.
ToggleMachine(m) ==
  /\ enabled' = IF m \in enabled THEN enabled \ {m} ELSE enabled \cup {m}
  /\ UNCHANGED <<stopVars, loopVars, tick, jobs, jobsClosed, workerVars>>

-----------------------------------------------------------------------------
HookStep ==
  \/ OnStartDisabled \/ Start \/ CancelRun \/ CloseStop
  \/ OnStopReturns \/ OnStopTimesOut

LoopStep ==
  \/ ListFails \/ ListMachines \/ SendJob \/ AbandonDispatch
  \/ TakeTick \/ LeaveLoop \/ CloseJobs \/ LoopDone

CollectStep(w) ==
  \/ LoadKey(w) \/ Dial(w) \/ Handshake(w) \/ Command(w) \/ Store(w)
  \/ Retry(w) \/ AbandonRetry(w)

WorkerStep(w) == TakeJob(w) \/ WorkerExit(w) \/ CollectStep(w)

Next ==
  \/ HookStep
  \/ Tick
  \/ LoopStep
  \/ \E w \in Workers : WorkerStep(w)
  \/ \E m \in Machines : ToggleMachine(m)

Spec == Init /\ [][Next]_vars

\* Goroutines that can run do run, a started OnStop runs to its end, and the
\* ticker ticks. Go's select chooses at random among ready branches, so the
\* stop branch of runLoop cannot lose to the ticker for ever. Nothing obliges
\* an operator to stop the service, stopContext to expire, or the handlers to
\* change a machine.
Fairness ==
  /\ WF_vars(LoopStep)
  /\ SF_vars(LeaveLoop)
  /\ WF_vars(Tick)
  /\ WF_vars(CloseStop)
  /\ WF_vars(OnStopReturns)
  /\ \A w \in Workers : WF_vars(WorkerStep(w))

FairSpec == Spec /\ Fairness

-----------------------------------------------------------------------------
(* Properties *)

TypeOK ==
  /\ hook \in HookStates
  /\ ctxDone \in BOOLEAN
  /\ stopClosed \in BOOLEAN
  /\ loop \in LoopStates
  /\ tick \in BOOLEAN
  /\ pending \in SUBSET Machines
  /\ jobs \in Seq(Machines)
  /\ jobsClosed \in BOOLEAN
  /\ worker \in [Workers -> WorkerStates]
  /\ job \in [Workers -> Machines \cup {None}]
  /\ attempt \in [Workers -> 0..RetryTimes]
  /\ enabled \in SUBSET Machines

\* No work is lost in a shutdown: a worker leaves its range loop only after
\* the channel is closed and every dispatched job has been taken, and nothing
\* is put into the channel afterwards (a send then would be a Go panic).
DrainedBeforeExit ==
  \A w \in Workers :
    worker[w] = "done" => jobsClosed /\ jobs = <<>> /\ loop \in {"closed", "done"}

\* The loop survives everything but a stop: a failing machine list, a full
\* channel and a slow worker never end it, so collection cannot die silently.
LoopDiesOnlyOnStop == loop \in {"return", "closed", "done"} => ctxDone

\* Once OnStop has returned nil, no goroutine of the scheduler takes another
\* step: what the later stop hooks release (the database) is no longer in use.
StoppedIsQuiet ==
  [][hook = "stopped" => UNCHANGED <<loopVars, tick, jobs, workerVars>>]_vars

\* After a stop the scheduler's goroutines all end, whatever they were doing:
\* waiting for a free slot, inside a collection or in a retry delay.
GracefulExit == ctxDone ~> GoroutinesDone

\* A machine that stays enabled keeps being collected until the service stops:
\* no other machine's jobs, failures or retries starve it, provided that the
\* machine list cannot be read unsuccessfully for ever.
Collected(m) == \E w \in Workers : job[w] = m
EnabledMachineServed ==
  <>[](hook = "up") /\ SF_vars(ListMachines) =>
    \A m \in Machines : <>[](m \in enabled) => []<>Collected(m)

\* A machine that was disabled or deleted for good stops being collected: the
\* snapshots of it that are still listed, queued or waiting for a retry run
\* out, and no later list brings it back.
DisabledGoesQuiet ==
  \A m \in Machines : <>[](m \notin enabled) => <>[]~Collected(m)

=============================================================================
