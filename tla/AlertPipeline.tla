---------------------------- MODULE AlertPipeline ----------------------------
(***************************************************************************)
(* From a vnstat reading to a notification: collectMachineSamples of       *)
(* internal/service/traffic_collection_service.go and EvaluateSamples,     *)
(* evaluateSample and dispatchAlerts of internal/service/alert_service.go, *)
(* over the samples, alerts, channels and deliveries tables.               *)
(*                                                                         *)
(* One machine is modelled: every row and every alert key carries its      *)
(* machine id, so collections of different machines share only the channel *)
(* settings. What does meet is several collections of the same machine:    *)
(* scheduler workers of two ticks, and collect-now requests. Each database *)
(* statement and each HTTP request is one step of a collector; between two *)
(* of them anything may happen, a failed statement, a cancelled context or *)
(* a process crash included. Time is counted in whole hours.               *)
(***************************************************************************)
EXTENDS Naturals, FiniteSets

CONSTANTS
  Collectors,   \* goroutines that may be collecting the machine
  Periods,      \* among "hourly" and "daily"
  Metrics,      \* among "upload", "download" and "total"
  Amounts,      \* [up, down]: the traffic a vnstat entry may show, in MB
  RuleSets,     \* the effective rules an administrator may install
  HoursPerDay,  \* 24
  Offset,       \* whole hours by which the machine's local midnight precedes UTC's
  AlertsHours,  \* history_cleanup.alerts_days, in hours
  BatchSize,    \* history_cleanup.batch_size
  Faults,       \* TRUE when statements may fail and the process may crash
  MaxTime,      \* bound: the clock stops here
  MaxRows,      \* bound: how often one alert key may be inserted
  Off,          \* no rule, or a disabled one
  None          \* no reading

Channels == {"telegram", "webhook"}

HoursIn(p) == IF p = "hourly" THEN 1 ELSE HoursPerDay

\* Start of the period that holds UTC hour t by the machine's calendar, as
\* vnstat keeps it, in UTC hours.
HostStart(p, t) == t - ((t + Offset) % HoursIn(p))

Dims == Periods \X Metrics
Buckets == { HostStart(p, t) : p \in Periods, t \in HoursPerDay..MaxTime }
Keys == Periods \X Metrics \X Buckets
Ids == Periods \X Metrics \X Buckets \X (1..MaxRows)

ASSUME PipelineAssumption ==
  /\ Periods \subseteq {"hourly", "daily"}
  /\ Metrics \subseteq {"upload", "download", "total"}
  /\ Amounts \subseteq [up : Nat, down : Nat]
  /\ RuleSets \subseteq [Dims -> Nat \cup {Off}]
  /\ Off \notin Nat
  /\ HoursPerDay \in Nat \ {0}
  /\ Offset \in 0..(HoursPerDay - 1)
  /\ AlertsHours \in Nat
  /\ BatchSize \in Nat \ {0}
  /\ Faults \in BOOLEAN
  /\ MaxTime \in Nat /\ MaxTime >= HoursPerDay
  /\ MaxRows \in Nat \ {0}

Entries == [bucket : Buckets, amount : Amounts]
Batches == [Periods -> Entries]
ASSUME NoneAssumption == None \notin Batches /\ None \notin Amounts

VARIABLES
  now,         \* the server's clock, UTC
  latest,      \* per period, the newest entry of the machine's vnstat database
  rules,       \* effective rules of the machine (thresholds, Off if disabled)
  enabledCh,   \* channels whose row is enabled
  stored,      \* traffic_samples: per period and bucket
  rows,        \* alerts: notify_status per row id, "none" before, "gone" after
  deliveries,  \* notification_deliveries: <<alert id, channel, success>>
  sends,       \* history: notification requests made per alert and channel
  pc,          \* where each collector is
  batch,       \* the samples it read
  todo,        \* alert keys it still has to insert
  mine,        \* alerts it inserted: createdAlerts
  chans,       \* enabled channels it still has to serve, the current one included
  left,        \* alerts still to handle in the current pass
  failed,      \* alerts with alertSucceeded = false
  lastOk       \* outcome of its last request

envVars == <<now, latest, rules, enabledCh>>
dbVars == <<stored, rows, deliveries>>
localVars == <<pc, batch, todo, mine, chans, left, failed, lastOk>>
vars == <<now, latest, rules, enabledCh, stored, rows, deliveries, sends,
          pc, batch, todo, mine, chans, left, failed, lastOk>>

Live == {"pending", "sent", "failed", "skipped"}
RowStates == {"none", "gone"} \cup Live
PCs == {"idle", "upsert", "rules", "create", "channels", "send", "record",
        "status", "skip"}

-----------------------------------------------------------------------------
(* Periods, readings and rules *)

\* The same by the server's UTC calendar.
UTCStart(p, t) == t - (t % HoursIn(p))

\* Order of evaluation: hourly before daily, then upload, download, total.
Rank(p, m) ==
  (IF p = "hourly" THEN 0 ELSE 3)
    + (CASE m = "upload" -> 1 [] m = "download" -> 2 [] OTHER -> 3)

\* trafficSampleFromEntry: upload is tx, download is rx, total their sum.
MetricMB(amount, m) ==
  CASE m = "upload" -> amount.up
    [] m = "download" -> amount.down
    [] OTHER -> amount.up + amount.down

KeyOf(id) == <<id[1], id[2], id[3]>>
BucketOf(id) == id[3]

AnyAlertPeriod(p, bucket, t) == bucket <= t

\* The bucket lies before the current UTC hour or UTC day.
isCompletedAlertPeriod(p, bucket, t) == bucket < UTCStart(p, t)

\* Keys of the metrics of the batch that are over an enabled rule, in
\* completed periods.
OverLimit(b, r, t) ==
  { k \in Keys :
      /\ k[3] = b[k[1]].bucket
      /\ isCompletedAlertPeriod(k[1], k[3], t)
      /\ r[<<k[1], k[2]>>] # Off
      /\ MetricMB(b[k[1]].amount, k[2]) > r[<<k[1], k[2]>>] }

\* k is the element of S the code handles first.
IsFirst(k, S) == k \in S /\ \A j \in S : Rank(k[1], k[2]) <= Rank(j[1], j[2])

\* Channels are listed by channel_type.
CurrentChannel(S) == IF "telegram" \in S THEN "telegram" ELSE "webhook"

-----------------------------------------------------------------------------
Init ==
  /\ now = HoursPerDay
  /\ latest \in [Periods -> Entries]
  /\ \A p \in Periods : latest[p].bucket = HostStart(p, now)
  /\ rules \in RuleSets
  /\ enabledCh \in SUBSET Channels
  /\ stored = [p \in Periods |-> [b \in Buckets |-> None]]
  /\ rows = [id \in Ids |-> "none"]
  /\ deliveries = {}
  /\ sends = [id \in Ids |-> [ch \in Channels |-> 0]]
  /\ pc = [c \in Collectors |-> "idle"]
  /\ batch = [c \in Collectors |-> None]
  /\ todo = [c \in Collectors |-> {}]
  /\ mine = [c \in Collectors |-> {}]
  /\ chans = [c \in Collectors |-> {}]
  /\ left = [c \in Collectors |-> {}]
  /\ failed = [c \in Collectors |-> {}]
  /\ lastOk = [c \in Collectors |-> TRUE]

-----------------------------------------------------------------------------
(* The environment *)

AdvanceClock ==
  /\ now < MaxTime
  /\ now' = now + 1
  /\ UNCHANGED <<latest, rules, enabledCh, dbVars, sends, localVars>>

\* The machine's vnstat daemon writes the current period's entry. It may lag
\* behind the clock; within a period its counters only grow.
VnstatWrites(p) ==
  /\ \E a \in Amounts :
       LET e == [bucket |-> HostStart(p, now), amount |-> a] IN
         /\ e # latest[p]
         /\ e.bucket = latest[p].bucket =>
              a.up >= latest[p].amount.up /\ a.down >= latest[p].amount.down
         /\ latest' = [latest EXCEPT ![p] = e]
  /\ UNCHANGED <<now, rules, enabledCh, dbVars, sends, localVars>>

\* Threshold handlers: UpsertGlobalRules and UpsertMachineRules.
ChangeRules ==
  /\ rules' \in RuleSets \ {rules}
  /\ UNCHANGED <<now, latest, enabledCh, dbVars, sends, localVars>>

\* Channel handlers: UpsertWebhookChannel and UpsertTelegramChannel.
ToggleChannel(ch) ==
  /\ enabledCh' = IF ch \in enabledCh THEN enabledCh \ {ch} ELSE enabledCh \cup {ch}
  /\ UNCHANGED <<now, latest, rules, dbVars, sends, localVars>>

\* One statement of deleteExpiredAlerts: the oldest BatchSize expired rows.
DeleteExpired ==
  /\ \E S \in SUBSET { id \in Ids : rows[id] \in Live } :
       LET expired == { id \in Ids : /\ rows[id] \in Live
                                     /\ BucketOf(id) + AlertsHours < now }
       IN /\ S # {} /\ S \subseteq expired
          /\ S # expired => Cardinality(S) = BatchSize
          /\ Cardinality(S) <= BatchSize
          /\ \A i \in S, j \in expired \ S : BucketOf(i) <= BucketOf(j)
          /\ rows' = [id \in Ids |-> IF id \in S THEN "gone" ELSE rows[id]]
  /\ UNCHANGED <<envVars, stored, deliveries, sends, localVars>>

-----------------------------------------------------------------------------
(* A collection *)

\* The collection returns to its caller, in success or in error; what it kept
\* in memory is dropped.
Return(c) ==
  /\ pc' = [pc EXCEPT ![c] = "idle"]
  /\ batch' = [batch EXCEPT ![c] = None]
  /\ todo' = [todo EXCEPT ![c] = {}]
  /\ mine' = [mine EXCEPT ![c] = {}]
  /\ chans' = [chans EXCEPT ![c] = {}]
  /\ left' = [left EXCEPT ![c] = {}]
  /\ failed' = [failed EXCEPT ![c] = {}]
  /\ lastOk' = [lastOk EXCEPT ![c] = TRUE]

\* The statement the collector is about to make fails, or its context is
\* cancelled: every caller up to collectMachineSamples returns the error.
Abort(c) ==
  /\ Faults
  /\ pc[c] \notin {"idle", "send"}
  /\ Return(c)
  /\ UNCHANGED <<envVars, dbVars, sends>>

\* The SSH command returns the vnstat database, and parseVNStatSamples keeps
\* the newest entry of each period. The entries carry a timestamp: what
\* vnstatEntryTime does without one (it takes the machine's wall clock for UTC) is
\* left out, and makes no difference where Offset = 0.
ReadVnstat(c) ==
  /\ pc[c] = "idle"
  /\ pc' = [pc EXCEPT ![c] = "upsert"]
  /\ batch' = [batch EXCEPT ![c] = latest]
  /\ UNCHANGED <<envVars, dbVars, sends, todo, mine, chans, left, failed, lastOk>>

InsertSamplesOnce(c) ==
  /\ pc[c] = "upsert"
  /\ stored' = [p \in Periods |->
                  [b \in Buckets |->
                     IF b = batch[c][p].bucket /\ stored[p][b] = None
                     THEN batch[c][p].amount ELSE stored[p][b]]]
  /\ pc' = [pc EXCEPT ![c] = "rules"]
  /\ UNCHANGED <<envVars, rows, deliveries, sends, batch, todo, mine, chans,
                 left, failed, lastOk>>

\* One statement writes all samples; the last writer of a bucket wins.
UpsertSamples(c) ==
  /\ pc[c] = "upsert"
  /\ stored' = [p \in Periods |->
                  [b \in Buckets |->
                     IF b = batch[c][p].bucket THEN batch[c][p].amount
                                               ELSE stored[p][b]]]
  /\ pc' = [pc EXCEPT ![c] = "rules"]
  /\ UNCHANGED <<envVars, rows, deliveries, sends, batch, todo, mine, chans,
                 left, failed, lastOk>>

\* ListEffectiveMachineRules, then time.Now: from here on the outcome of the
\* comparisons is fixed. With nothing to alert on EvaluateSamples returns nil.
ListRules(c) ==
  /\ pc[c] = "rules"
  /\ LET over == OverLimit(batch[c], rules, now) IN
       \/ /\ over # {}
          /\ todo' = [todo EXCEPT ![c] = over]
          /\ pc' = [pc EXCEPT ![c] = "create"]
          /\ batch' = [batch EXCEPT ![c] = None]
          /\ UNCHANGED <<mine, chans, left, failed, lastOk>>
       \/ over = {} /\ Return(c)
  /\ UNCHANGED <<envVars, dbVars, sends>>

\* No row with this alert_key.
KeyAbsent(k) == \A id \in Ids : KeyOf(id) = k => rows[id] \notin Live

\* id is the row the next insert of its key creates.
NextRow(id) ==
  /\ rows[id] = "none"
  /\ \A j \in Ids : KeyOf(j) = KeyOf(id) /\ j[4] < id[4] => rows[j] = "gone"

\* After the last key: dispatchAlerts, which returns at once without alerts.
AfterCreate(c, k, alerts) ==
  pc' = [pc EXCEPT ![c] = IF todo[c] # {k} THEN "create"
                          ELSE IF alerts = {} THEN "idle" ELSE "channels"]

CreateOrReuse(c) ==
  /\ pc[c] = "create"
  /\ \E k \in todo[c] :
       /\ IsFirst(k, todo[c])
       /\ todo' = [todo EXCEPT ![c] = @ \ {k}]
       /\ \E id \in Ids :
            /\ KeyOf(id) = k
            /\ rows[id] \in Live \/ (KeyAbsent(k) /\ NextRow(id))
            /\ rows' = [rows EXCEPT ![id] = "pending"]
            /\ mine' = [mine EXCEPT ![c] = @ \cup {id}]
            /\ AfterCreate(c, k, mine[c] \cup {id})
  /\ UNCHANGED <<envVars, stored, deliveries, sends, batch, chans, left, failed, lastOk>>

\* INSERT ... ON CONFLICT (alert_key) DO NOTHING, and its row count. A key that
\* was inserted and removed MaxRows times is not inserted again.
CreateIfAbsent(c) ==
  /\ pc[c] = "create"
  /\ \E k \in todo[c] :
       /\ IsFirst(k, todo[c])
       /\ todo' = [todo EXCEPT ![c] = @ \ {k}]
       /\ \/ /\ ~KeyAbsent(k)
             /\ AfterCreate(c, k, mine[c])
             /\ UNCHANGED <<rows, mine>>
          \/ /\ KeyAbsent(k)
             /\ \E id \in Ids :
                  /\ KeyOf(id) = k /\ NextRow(id)
                  /\ rows' = [rows EXCEPT ![id] = "pending"]
                  /\ mine' = [mine EXCEPT ![c] = @ \cup {id}]
                  /\ AfterCreate(c, k, mine[c] \cup {id})
  /\ UNCHANGED <<envVars, stored, deliveries, sends, batch, chans, left, failed, lastOk>>

ListChannelsNoSkip(c) ==
  /\ pc[c] = "channels"
  /\ \/ /\ enabledCh # {}
        /\ chans' = [chans EXCEPT ![c] = enabledCh]
        /\ left' = [left EXCEPT ![c] = mine[c]]
        /\ pc' = [pc EXCEPT ![c] = "send"]
        /\ UNCHANGED <<batch, todo, mine, failed, lastOk>>
     \/ enabledCh = {} /\ Return(c)
  /\ UNCHANGED <<envVars, dbVars, sends>>

\* dispatchAlerts reads the channels once.
ListChannels(c) ==
  /\ pc[c] = "channels"
  /\ chans' = [chans EXCEPT ![c] = enabledCh]
  /\ left' = [left EXCEPT ![c] = mine[c]]
  /\ pc' = [pc EXCEPT ![c] = IF enabledCh = {} THEN "skip" ELSE "send"]
  /\ UNCHANGED <<envVars, dbVars, sends, batch, todo, mine, failed, lastOk>>

SendWholeBatch(c) ==
  /\ pc[c] = "send"
  /\ LET ch == CurrentChannel(chans[c]) IN
       sends' = [id \in Ids |-> IF id \in mine[c]
                                THEN [sends[id] EXCEPT ![ch] = @ + 1]
                                ELSE sends[id]]
  /\ \E ok \in BOOLEAN : lastOk' = [lastOk EXCEPT ![c] = ok]
  /\ pc' = [pc EXCEPT ![c] = "record"]
  /\ UNCHANGED <<envVars, dbVars, batch, todo, mine, chans, left, failed>>

\* The request to the current channel: Telegram gets one message for all
\* alerts, the others one request per alert. Any failure, from a deleted proxy
\* to a bad status, becomes sendErr and is recorded, not returned.
Send(c) ==
  /\ pc[c] = "send"
  /\ LET ch == CurrentChannel(chans[c])
         addressed == IF ch = "telegram" THEN mine[c]
                      ELSE { id \in left[c] : IsFirst(id, left[c]) }
     IN sends' = [id \in Ids |-> IF id \in addressed
                                 THEN [sends[id] EXCEPT ![ch] = @ + 1]
                                 ELSE sends[id]]
  /\ \E ok \in BOOLEAN : lastOk' = [lastOk EXCEPT ![c] = ok]
  /\ pc' = [pc EXCEPT ![c] = "record"]
  /\ UNCHANGED <<envVars, dbVars, batch, todo, mine, chans, left, failed>>

ForgetsFailure(c) ==
  /\ pc[c] = "record"
  /\ \E id \in left[c] :
       LET ch == CurrentChannel(chans[c])
           lastAlert == left[c] = {id}
           lastChannel == chans[c] = {ch}
       IN /\ IsFirst(id, left[c])
          /\ deliveries' = deliveries \cup {<<id, ch, lastOk[c]>>}
          /\ failed' = [failed EXCEPT ![c] = IF lastOk[c] THEN @ \ {id} ELSE @ \cup {id}]
          /\ left' = [left EXCEPT ![c] = IF lastAlert THEN mine[c] ELSE @ \ {id}]
          /\ chans' = [chans EXCEPT ![c] = IF lastAlert THEN @ \ {ch} ELSE @]
          /\ pc' = [pc EXCEPT ![c] =
                      IF lastAlert THEN (IF lastChannel THEN "status" ELSE "send")
                      ELSE IF ch = "telegram" THEN "record" ELSE "send"]
  /\ UNCHANGED <<envVars, stored, rows, sends, batch, todo, mine, lastOk>>

\* createNotificationDelivery for the next alert, and the bookkeeping of the
\* two nested loops.
CreateDelivery(c) ==
  /\ pc[c] = "record"
  /\ \E id \in left[c] :
       LET ch == CurrentChannel(chans[c])
           lastAlert == left[c] = {id}
           lastChannel == chans[c] = {ch}
       IN /\ IsFirst(id, left[c])
          /\ deliveries' = deliveries \cup {<<id, ch, lastOk[c]>>}
          /\ failed' = [failed EXCEPT ![c] = IF lastOk[c] THEN @ ELSE @ \cup {id}]
          /\ left' = [left EXCEPT ![c] = IF lastAlert THEN mine[c] ELSE @ \ {id}]
          /\ chans' = [chans EXCEPT ![c] = IF lastAlert THEN @ \ {ch} ELSE @]
          /\ pc' = [pc EXCEPT ![c] =
                      IF lastAlert THEN (IF lastChannel THEN "status" ELSE "send")
                      ELSE IF ch = "telegram" THEN "record" ELSE "send"]
  /\ UNCHANGED <<envVars, stored, rows, sends, batch, todo, mine, lastOk>>

\* UpdateNotifyStatus for the next alert: no row is touched if it was deleted
\* meanwhile.
UpdateNotifyStatus(c) ==
  /\ pc[c] \in {"status", "skip"}
  /\ \E id \in left[c] :
       /\ IsFirst(id, left[c])
       /\ rows' = [rows EXCEPT ![id] =
                     IF @ = "gone" THEN "gone"
                     ELSE IF pc[c] = "skip" THEN "skipped"
                     ELSE IF id \in failed[c] THEN "failed" ELSE "sent"]
       /\ \/ /\ left[c] # {id}
             /\ left' = [left EXCEPT ![c] = @ \ {id}]
             /\ UNCHANGED <<pc, batch, todo, mine, chans, failed, lastOk>>
          \/ left[c] = {id} /\ Return(c)
  /\ UNCHANGED <<envVars, stored, deliveries, sends>>

\* The process dies and restarts: only the database survives.
Crash ==
  /\ Faults
  /\ \E c \in Collectors : pc[c] # "idle"
  /\ pc' = [c \in Collectors |-> "idle"]
  /\ batch' = [c \in Collectors |-> None]
  /\ todo' = [c \in Collectors |-> {}]
  /\ mine' = [c \in Collectors |-> {}]
  /\ chans' = [c \in Collectors |-> {}]
  /\ left' = [c \in Collectors |-> {}]
  /\ failed' = [c \in Collectors |-> {}]
  /\ lastOk' = [c \in Collectors |-> TRUE]
  /\ UNCHANGED <<envVars, dbVars, sends>>

-----------------------------------------------------------------------------
Collect(c) ==
  \/ ReadVnstat(c) \/ UpsertSamples(c) \/ ListRules(c) \/ CreateIfAbsent(c)
  \/ ListChannels(c) \/ Send(c) \/ CreateDelivery(c) \/ UpdateNotifyStatus(c)

Environment ==
  \/ AdvanceClock
  \/ \E p \in Periods : VnstatWrites(p)
  \/ ChangeRules
  \/ \E ch \in Channels : ToggleChannel(ch)
  \/ DeleteExpired

Next ==
  \/ Environment
  \/ \E c \in Collectors : Collect(c) \/ Abort(c)
  \/ Crash

Spec == Init /\ [][Next]_vars

\* The scheduler collects again and again, and a collection whose statements
\* succeed runs to its end. The clock, vnstat and the administrators are free.
Fairness == \A c \in Collectors : WF_vars(Collect(c))

FairSpec == Spec /\ Fairness

-----------------------------------------------------------------------------
(* Properties *)

TypeOK ==
  /\ now \in HoursPerDay..MaxTime
  /\ latest \in Batches
  /\ rules \in RuleSets
  /\ enabledCh \in SUBSET Channels
  /\ stored \in [Periods -> [Buckets -> Amounts \cup {None}]]
  /\ rows \in [Ids -> RowStates]
  /\ deliveries \subseteq Ids \X Channels \X BOOLEAN
  /\ sends \in [Ids -> [Channels -> Nat]]
  /\ pc \in [Collectors -> PCs]
  /\ batch \in [Collectors -> Batches \cup {None}]
  /\ \A c \in Collectors : pc[c] \in {"upsert", "rules"} => batch[c] # None
  /\ todo \in [Collectors -> SUBSET Keys]
  /\ mine \in [Collectors -> SUBSET Ids]
  /\ chans \in [Collectors -> SUBSET Channels]
  /\ left \in [Collectors -> SUBSET Ids]
  /\ failed \in [Collectors -> SUBSET Ids]
  /\ lastOk \in [Collectors -> BOOLEAN]

\* However collections of one machine overlap, fail, are retried or crash, a
\* channel is asked at most once to notify about an alert row.
NotifiedAtMostOnce ==
  \A id \in Ids, ch \in Channels : sends[id][ch] <= 1

\* notify_status agrees with the delivery log: "sent" rests on at least one
\* delivery and on successful ones only, "failed" on a failed one, "skipped"
\* on no request at all, and a settled alert has a delivery per request.
Requested(id) == { ch \in Channels : sends[id][ch] > 0 }
Logged(id, ch) == \E ok \in BOOLEAN : <<id, ch, ok>> \in deliveries
StatusTruthful ==
  \A id \in Ids :
    /\ rows[id] = "sent" =>
         /\ Requested(id) # {}
         /\ \A ch \in Channels : <<id, ch, FALSE>> \notin deliveries
    /\ rows[id] = "failed" => \E ch \in Channels : <<id, ch, FALSE>> \in deliveries
    /\ rows[id] = "skipped" => Requested(id) = {}
    /\ rows[id] \in {"sent", "failed"} => \A ch \in Requested(id) : Logged(id, ch)

\* An alert is raised only when its period is over on the machine, whoever read the
\* entry and however long ago (alert_service.go:899). It says nothing of the amount: an
\* entry read before the end of its period and evaluated after it reports what had
\* been counted by then, and is not corrected.
AlertsOnlyForFinishedPeriods ==
  \A id \in Ids : rows[id] \in Live => BucketOf(id) + HoursIn(id[1]) <= now

\* Without faults every alert that was raised is settled.
PendingIsTransient ==
  \A id \in Ids : rows[id] = "pending" ~> rows[id] # "pending"

\* A slow collection may overwrite a newer sample with an older one, but not
\* for good: once vnstat stops changing, the table holds its newest entry.
StoredCatchesUp ==
  \A p \in Periods : <>[](stored[p][latest[p].bucket] = latest[p].amount)

\* The pipeline keeps the promises of AlertLedger: each step of a collection,
\* of the cleanup, each failure and each crash is a step of the ledger or none.
Ledger == INSTANCE AlertLedger WITH Alerts <- Ids, status <- rows, asked <- sends
KeepsLedger == Ledger!Spec

=============================================================================
