--------------------------- MODULE HistoryCleanup ---------------------------
(***************************************************************************)
(* internal/service/history_cleanup_service.go with the two delete         *)
(* statements of the repositories: the scheduled cleanup and the ones an   *)
(* administrator starts by hand, while collections go on inserting rows.   *)
(*                                                                         *)
(* A cleanup goes through the samples and then the alerts, each in batches *)
(* until one comes back short. A batch first selects ids and then deletes  *)
(* them: two statements for the samples, and for the alerts one statement  *)
(* whose subquery PostgreSQL (read committed) evaluates before it waits    *)
(* for the row locks of a concurrent delete.                               *)
(***************************************************************************)
EXTENDS Naturals, FiniteSets

CONSTANTS
  Machines,     \* machine ids
  All,          \* a cleanup without machine_id
  Sched,        \* the cleanup of the scheduler's loop
  Manual,       \* requests to POST /traffic-samples/cleanup
  BatchSize,    \* history_cleanup.batch_size
  Days,         \* history_cleanup.samples_days, alerts_days: [Tables -> Nat]
  Asked,        \* what a request may ask for: [tables, machine, days]
  MaxTime,      \* bound on the clock, in days
  MaxRows       \* bound on the rows ever inserted

Tables == {"samples", "alerts"}
Cleaners == {Sched} \cup Manual

\* Config.Validate, for an enabled scheduler, demands positive settings;
\* Cleanup rejects a request whose days are not.
ASSUME CleanupAssumption ==
  /\ IsFiniteSet(Machines) /\ All \notin Machines
  /\ Sched \notin Manual
  /\ BatchSize \in Nat \ {0}
  /\ Days \in [Tables -> Nat \ {0}]
  /\ Asked \subseteq [tables : (SUBSET Tables) \ {{}}, machine : Machines \cup {All},
                     days : [Tables -> Nat \ {0}]]
  /\ MaxTime \in Nat /\ MaxRows \in Nat

VARIABLES
  now,      \* the current day
  rows,     \* the rows of both tables
  nextId,   \* the sequence behind their primary keys
  hook,     \* the fx hook: "up", "stopping" (Stop was called), and what OnStop
            \* returned: "stopped" or "timedOut"
  loop,     \* runLoop: "off" (not started), "run" (in runOnce), "select", "done"
  pc,       \* each cleanup: "idle", or about to select or delete a batch
  table,    \* the table it is working on
  todo,     \* the tables after that one
  scope,    \* its machine_id filter
  cutoff,   \* rows before this day are expired for it
  ids,      \* the ids it has selected
  answer,   \* how the last cleanup ended: "none", "ok", "error"
  due,      \* rows it was to remove, fixed at its start (for the properties)
  raced     \* another cleanup ran at the same time (for the properties)

jobVars == <<pc, table, todo, scope, cutoff, ids, answer, due, raced>>
vars == <<now, rows, nextId, hook, loop, jobVars>>

\* A row is a table, a machine, the day of its bucket and an id. The hour, the
\* period and the metric play no part in a cleanup, so rows may agree in all
\* but the id.
Rows == Tables \X Machines \X (0..MaxTime) \X (1..MaxRows)

InScope(x, t, m) == x[1] = t /\ (m = All \/ x[2] = m)

\* The WHERE clause of DeleteBefore and DeleteExpired.
Matching(t, m, before) == { x \in rows : InScope(x, t, m) /\ x[3] < before }

\* OnStart starts the loop, unless the scheduler is disabled or the service is
\* in restore mode.
Init ==
  /\ now = 0
  /\ rows = {}
  /\ nextId = 1
  /\ hook = "up"
  /\ loop \in {"off", "run"}
  /\ pc = [c \in Cleaners |-> "idle"]
  /\ table = [c \in Cleaners |-> "samples"]
  /\ todo = [c \in Cleaners |-> {}]
  /\ scope = [c \in Cleaners |-> All]
  /\ cutoff = [c \in Cleaners |-> [t \in Tables |-> 0]]
  /\ ids = [c \in Cleaners |-> {}]
  /\ answer = [c \in Cleaners |-> "none"]
  /\ due = [c \in Cleaners |-> {}]
  /\ raced = [c \in Cleaners |-> FALSE]

-----------------------------------------------------------------------------
(* One cleanup *)

Busy(c) == pc[c] # "idle"

\* Cleanup fixes the cutoffs once, from its own reading of the clock.
Cleanup(c, T, m, days) ==
  LET cut == [t \in Tables |-> IF days[t] <= now THEN now - days[t] ELSE 0]
      others == { d \in Cleaners \ {c} : Busy(d) }
      first == IF "samples" \in T THEN "samples" ELSE "alerts"
  IN /\ pc' = [pc EXCEPT ![c] = "select"]
     /\ table' = [table EXCEPT ![c] = first]
     /\ todo' = [todo EXCEPT ![c] = T \ {first}]
     /\ scope' = [scope EXCEPT ![c] = m]
     /\ cutoff' = [cutoff EXCEPT ![c] = cut]
     /\ answer' = [answer EXCEPT ![c] = "none"]
     /\ due' = [due EXCEPT ![c] = UNION { Matching(t, m, cut[t]) : t \in T }]
     /\ raced' = [d \in Cleaners |-> IF d = c THEN others # {}
                                     ELSE raced[d] \/ d \in others]
     /\ UNCHANGED ids

\* RunOnce, called by the loop: both tables, every machine, configured days.
RunOnce ==
  /\ loop = "run" /\ ~Busy(Sched)
  /\ Cleanup(Sched, Tables, All, Days)
  /\ UNCHANGED <<now, rows, nextId, hook, loop>>

\* A request: either table or both (neither flag means both), one machine or
\* all of them, the configured days or its own.
Request(c) ==
  /\ c # Sched /\ ~Busy(c)
  /\ \E q \in Asked : Cleanup(c, q.tables, q.machine, q.days)
  /\ UNCHANGED <<now, rows, nextId, hook, loop>>

ReturnWhenOk(c, result) ==
  /\ pc' = [pc EXCEPT ![c] = "idle"]
  /\ table' = [table EXCEPT ![c] = "samples"]
  /\ todo' = [todo EXCEPT ![c] = {}]
  /\ scope' = [scope EXCEPT ![c] = All]
  /\ cutoff' = [cutoff EXCEPT ![c] = [t \in Tables |-> 0]]
  /\ ids' = [ids EXCEPT ![c] = {}]
  /\ answer' = [answer EXCEPT ![c] = result]
  /\ due' = [due EXCEPT ![c] = IF result = "ok" THEN @ ELSE {}]
  /\ loop' = IF c = Sched /\ result = "ok" THEN "select" ELSE loop

\* Cleanup returns; runOnce only logs the outcome and the loop goes on. What
\* the call kept in memory is dropped.
Return(c, result) ==
  /\ pc' = [pc EXCEPT ![c] = "idle"]
  /\ table' = [table EXCEPT ![c] = "samples"]
  /\ todo' = [todo EXCEPT ![c] = {}]
  /\ scope' = [scope EXCEPT ![c] = All]
  /\ cutoff' = [cutoff EXCEPT ![c] = [t \in Tables |-> 0]]
  /\ ids' = [ids EXCEPT ![c] = {}]
  /\ answer' = [answer EXCEPT ![c] = result]
  /\ due' = [due EXCEPT ![c] = IF result = "ok" THEN @ ELSE {}]
  /\ loop' = IF c = Sched THEN "select" ELSE loop

\* A statement of the scheduler's cleanup cannot succeed once the run context
\* is cancelled.
ContextAlive(c) == c = Sched => hook = "up"

SelectAny(c) ==
  /\ pc[c] = "select" /\ ContextAlive(c)
  /\ LET found == { x \in rows : InScope(x, table[c], scope[c]) }
     IN \E S \in SUBSET found :
          /\ Cardinality(S) = BatchSize \/ (S = found /\ Cardinality(S) < BatchSize)
          /\ ids' = [ids EXCEPT ![c] = S]
  /\ pc' = [pc EXCEPT ![c] = "delete"]
  /\ UNCHANGED <<now, rows, nextId, hook, loop, table, todo, scope, cutoff, answer, due, raced>>

\* Select the oldest BatchSize expired rows (ORDER BY bucket_time LIMIT n).
Select(c) ==
  /\ pc[c] = "select" /\ ContextAlive(c)
  /\ LET expired == Matching(table[c], scope[c], cutoff[c][table[c]])
     IN \E S \in SUBSET expired :
          /\ Cardinality(S) = BatchSize \/ (S = expired /\ Cardinality(S) < BatchSize)
          /\ \A x \in S, y \in expired \ S : x[3] <= y[3]
          /\ ids' = [ids EXCEPT ![c] = S]
  /\ pc' = [pc EXCEPT ![c] = "delete"]
  /\ UNCHANGED <<now, rows, nextId, hook, loop, table, todo, scope, cutoff, answer, due, raced>>

StopAfterBatch(deleted) == TRUE
NeverStop(deleted) == FALSE

\* A batch that deleted fewer rows than the limit was the last one.
LastBatch(deleted) == Cardinality(deleted) < BatchSize

\* Delete the selected rows that are still there. After the last batch of a
\* table comes the next table, then the answer.
Delete(c) ==
  /\ pc[c] = "delete" /\ ContextAlive(c)
  /\ LET deleted == ids[c] \cap rows IN
       /\ rows' = rows \ deleted
       /\ \/ /\ ~LastBatch(deleted)
             /\ pc' = [pc EXCEPT ![c] = "select"]
             /\ ids' = [ids EXCEPT ![c] = {}]
             /\ UNCHANGED <<loop, table, todo, scope, cutoff, answer, due>>
          \/ /\ LastBatch(deleted) /\ todo[c] # {}
             /\ table' = [table EXCEPT ![c] = "alerts"]
             /\ todo' = [todo EXCEPT ![c] = {}]
             /\ pc' = [pc EXCEPT ![c] = "select"]
             /\ ids' = [ids EXCEPT ![c] = {}]
             /\ UNCHANGED <<loop, scope, cutoff, answer, due>>
          \/ /\ LastBatch(deleted) /\ todo[c] = {}
             /\ Return(c, "ok")
  /\ UNCHANGED <<now, nextId, hook, raced>>

\* A statement fails, the timeout expires or the context is cancelled; a
\* delete may have been committed all the same. What was deleted so far stays
\* deleted, and the alerts are not looked at after a failure on the samples.
Fail(c) ==
  /\ Busy(c)
  /\ \/ UNCHANGED rows
     \/ pc[c] = "delete" /\ rows' = rows \ ids[c]
  /\ Return(c, "error")
  /\ UNCHANGED <<now, nextId, hook, raced>>

-----------------------------------------------------------------------------
(* The scheduler and the rest of the system *)

\* The ticker fires while the loop waits.
TakeTick ==
  /\ loop = "select"
  /\ loop' = "run"
  /\ UNCHANGED <<now, rows, nextId, hook, jobVars>>

\* OnStop calls Stop: the run context is cancelled and stopCh closed.
Stop ==
  /\ hook = "up"
  /\ hook' = "stopping"
  /\ UNCHANGED <<now, rows, nextId, loop, jobVars>>

\* The stop and context branches of runLoop.
LeaveLoop ==
  /\ loop = "select" /\ hook # "up"
  /\ loop' = "done"
  /\ UNCHANGED <<now, rows, nextId, hook, jobVars>>

\* OnStop returns once Wait did.
OnStopReturns ==
  /\ hook = "stopping" /\ loop \in {"off", "done"}
  /\ hook' = "stopped"
  /\ UNCHANGED <<now, rows, nextId, loop, jobVars>>

\* The stop context expires first; the loop goes on to its end.
OnStopTimesOut ==
  /\ hook = "stopping"
  /\ hook' = "timedOut"
  /\ UNCHANGED <<now, rows, nextId, loop, jobVars>>

\* A collection writes the sample of vnstat's newest entry, or its alert; the
\* entry is old when vnstat has stopped on that machine.
Insert ==
  /\ nextId <= MaxRows
  /\ \E t \in Tables, m \in Machines, d \in 0..now :
       rows' = rows \cup {<<t, m, d, nextId>>}
  /\ nextId' = nextId + 1
  /\ UNCHANGED <<now, hook, loop, jobVars>>

NextDay ==
  /\ now < MaxTime
  /\ now' = now + 1
  /\ UNCHANGED <<rows, nextId, hook, loop, jobVars>>

Step(c) == Select(c) \/ Delete(c) \/ Fail(c)

Next ==
  \/ RunOnce \/ TakeTick \/ Stop \/ LeaveLoop \/ OnStopReturns \/ OnStopTimesOut
  \/ \E c \in Cleaners : Request(c) \/ Step(c)
  \/ Insert \/ NextDay

Spec == Init /\ [][Next]_vars

\* The ticker ticks and goroutines run; the select of runLoop is random, so a
\* stop cannot lose to the ticker for ever.
Fairness ==
  /\ WF_vars(RunOnce) /\ WF_vars(TakeTick) /\ WF_vars(OnStopReturns)
  /\ SF_vars(LeaveLoop)
  /\ \A c \in Cleaners : WF_vars(Step(c))

FairSpec == Spec /\ Fairness

\* Besides, no statement of the scheduled cleanup fails for ever.
ReliableSpec ==
  /\ FairSpec
  /\ \A t \in Tables :
       /\ SF_vars(table[Sched] = t /\ Select(Sched))
       /\ SF_vars(table[Sched] = t /\ Delete(Sched))

-----------------------------------------------------------------------------
(* Properties *)

TypeOK ==
  /\ now \in 0..MaxTime
  /\ rows \subseteq Rows
  /\ nextId \in 1..(MaxRows + 1)
  /\ hook \in {"up", "stopping", "stopped", "timedOut"}
  /\ loop \in {"off", "run", "select", "done"}
  /\ pc \in [Cleaners -> {"idle", "select", "delete"}]
  /\ table \in [Cleaners -> Tables]
  /\ todo \in [Cleaners -> SUBSET {"alerts"}]
  /\ scope \in [Cleaners -> Machines \cup {All}]
  /\ cutoff \in [Cleaners -> [Tables -> 0..MaxTime]]
  /\ ids \in [Cleaners -> SUBSET Rows]
  /\ answer \in [Cleaners -> {"none", "ok", "error"}]
  /\ due \in [Cleaners -> SUBSET Rows]
  /\ raced \in [Cleaners -> BOOLEAN]

\* A cleanup that ran alone and was answered 200 has removed every row that
\* was expired when it started, however many batches that took and whatever
\* collections inserted meanwhile.
UnracedIsComplete ==
  \A c \in Cleaners :
    answer[c] = "ok" /\ ~raced[c] => due[c] \cap rows = {}

\* Between the selection and the deletion of a batch nothing slips in: a row
\* that disappears is older than a retention someone asked for and lies in the
\* scope of a cleanup that is under way.
DeletesOnlyExpired ==
  [][\A x \in rows \ rows' :
       \E c \in Cleaners, d \in {Days} \cup { q.days : q \in Asked } :
         Busy(c) /\ InScope(x, table[c], scope[c]) /\ x[3] + d[x[1]] < now]_vars

Expired(id) == \E x \in rows : x[4] = id /\ x[3] + Days[x[1]] < now

\* While the scheduler runs, no row outlives its retention for ever, although
\* runs fail half way and manual cleanups race the scheduled one.
ExpiredIsRemoved ==
  \A id \in 1..MaxRows :
    Expired(id) /\ loop # "off" ~> ~Expired(id) \/ hook # "up"

\* A stop ends the loop, also in the middle of a cleanup and when OnStop has
\* given up waiting for it.
StopCompletes == hook = "stopping" ~> loop \in {"off", "done"}

=============================================================================
