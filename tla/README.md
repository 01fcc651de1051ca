# Formal models of traffic-monitor

TLA+ specifications, TLC runs and TLAPS proofs for the service of this
repository: a single Go process that collects vnstat traffic over SSH from a
list of machines, stores samples in PostgreSQL, raises alerts for hourly and
daily overruns, sends them to a webhook and to Telegram, and is administered
through a web console. The modules stand beside the code; `PROJECT.json` names,
under `map`, the lines each definition translates.

Contents: 1 the system, 2 how its parts interact, 3 modules and code, 4 runs,
5 fairness, 6 proofs, 7 behaviour outside the checked properties, 8 what is not
modelled, 9 plan.

## 1. The system

| Component | State it keeps | Operations that change it | Hard behaviour | What makes it correct |
|---|---|---|---|---|
| Traffic scheduler (`service/traffic_scheduler.go`) | stop channel, run context, jobs channel, two wait groups | fx OnStart and OnStop, tick, dispatch, worker, retry | a stop racing a dispatch, a retry pause or a worker; a full channel; a failing list | no job lost or sent on a closed channel, the loop ends only on a stop, everything ends after a stop, no machine starves |
| SSH runner (`bootstrap/ssh_client.go`) | one connection per call | `Run` | which step honours which timeout | a collection ends |
| Traffic collection (`service/traffic_collection_service.go`) | `traffic_samples` | collect, parse, upsert | two collections of one machine; a late one overwriting a newer one | the table catches up with vnstat |
| Alerts (`service/alert_service.go`) | `alerts`, `notification_deliveries` | evaluate, create if absent, send, log, settle | deduplication by a unique key, failing half way, crash, cleanup in between | at most one request per alert and channel, for a period that is over, a status that agrees with the delivery log and is final |
| Channels and proxies (`service/alert_service.go`, `web/src/App.tsx`) | `notification_channels`, `notification_proxies`, the console's forms | save, create, update, delete | masks instead of secrets, forms and lists that are older than the table, buttons that work while a request is under way | an up-to-date mask never becomes the secret, an untouched field keeps what was stored when it was filled |
| History cleanup (`service/history_cleanup_service.go`) | none of its own; deletes samples and alerts | scheduled run, manual request | batches chosen and deleted in two statements, two cleanups at once, a stop in between | nothing young is deleted, everything expired goes in the end |
| Machines and SSH keys (`service/machine_service.go`, `ssh_key_service.go`) | `machines`, `ssh_keys` | create, patch, delete, import, generate | checks and writes in separate statements, no foreign keys | a machine's key exists, deletions are final, a PATCH changes what it names: broken only by requests that another one overtakes between check and write |
| Restore mode (`handler/restore_handler.go`) | token used, token deadline, `admins` | consume, reset, release | concurrent requests, an update that fails or may have been committed | one success, then nothing; a failure gives the token back |
| Administrator session (`middleware/auth_middleware.go`, `handler/auth_handler.go`) | a signed cookie in the browser | login, logout, sliding renewal | overlapping requests, answers that overtake each other, expiries cut to seconds | in use it lasts, unused it ends |
| Backup (`service/backup_service.go`) | the file; writes all configuration tables | export, import | import without a transaction, retries, names instead of ids | a round trip restores everything, nothing is overwritten, references resolve |
| Thresholds (`service/threshold_service.go`, `web/src/lib/app-utils.ts`) | `global_threshold_rules`, `machine_threshold_rules`, the console's form | save global and machine rules, import | effective rules read in three statements and merged, answers that arrive late, units converted both ways, rules of deleted machines | rules of one moment, a save changes what was edited, a new machine inherits |
| Administrators, guest mode (`service/auth_service.go`, `settings_service.go`) | `admins`, `app_settings` | bootstrap, login, change and reset of a password, guest switch | restarts with another configuration, requests in flight while a setting changes | a serving process has an administrator, passwords change by their holder or in restore mode, guests read only in guest mode |
| Lifecycle (`internal/app/module.go`, `bootstrap/http.go`, `database.go`) | fx hooks, connection pool, listener | start, stop, kill | hooks that fail or expire, requests and workers in flight when the pool is closed | the pool outlives its users |
| Configuration (`config/config.go`) | none after the start | `Validate` | settings that are right only together | no process runs without a way to log in |
| Cryptography, logging, health, list queries | none that changes | none | none | not modelled, section 8 |

## 2. How the parts interact

The dispatch loop lists the enabled machines and puts a job for each into a
bounded channel. A worker takes a job, reads and decrypts the machine's key,
runs `vnstat --json` over SSH, upserts the samples and hands them to the alert
service, all under the scheduler's run context; an error at any of these points
leads to the retry loop. The alert service reads the rules, inserts alerts with
a unique key, and for those it inserted itself goes through the enabled channels,
some behind a proxy. A collect-now request from the console does the same on an
HTTP goroutine, so two collections of one machine may overlap. The cleanup
deletes from the tables the collections write. Machines, keys, rules, channels
and proxies are edited by HTTP handlers while all of this runs, each statement
its own transaction, and an import of a backup writes all of them. Sessions,
guest mode and restore mode guard the handlers. fx starts the hooks of the
database, the bootstrap administrator, the HTTP server and the two schedulers in
this order and stops them in the reverse one.

## 3. Modules and code

Each component is one module; `MC<Module>` holds the constants of its runs and
`<Module>Proofs` its theorems. Two instances hold two modules each, which share no
variable: `MCConfiguration` (`MachineRegistry`, `Backup`) and `MCAccounts`
(`ServiceProcess`, `RestoreToken`). Their variable `part` is chosen in the initial
state and says which of the two a behaviour is about; the other one stays in its
initial state, so that each is checked exactly as if it were alone. The refinement of `AlertLedger` is proved with the
pipeline it is about, and `ServiceProcessProofs` also holds the theorems about
`RestoreToken`, the process in restore mode, whose definitions therefore have
names of their own (`RestoreInit`, `RestoreSpec`).

**TrafficScheduler.** `hook` is the progress of the fx hooks, `ctxDone` and
`stopClosed` the two stop signals, `loop` and `worker` program counters, `tick`
the ticker's one-slot channel, `pending` what `dispatchOnce` has listed and not
sent, `jobs` the channel. One action per blocking point: `Start`, `CancelRun`,
`CloseStop`, `OnStopReturns`, `OnStopTimesOut`; `ListMachines`, `ListFails`,
`SendJob`, `AbandonDispatch`, `TakeTick`, `LeaveLoop`, `CloseJobs`, `LoopDone`;
`TakeJob`, `WorkerExit`, `LoadKey`, `Dial`, `Handshake`, `Command`, `Store`,
`Retry`, `AbandonRetry`. A Go `select` with several ready branches is a
disjunction. `SilentPeers` are machines that accept TCP and never speak.

**AlertPipeline.** One monitored machine, several `Collectors` (scheduler
workers or manual collections) and their database. `latest` is vnstat's newest
entry per period, `stored` the samples, `rows` the `notify_status` of every
alert row that ever existed, `deliveries` the log, `sends` counts requests (a
history variable). Actions follow `collectMachineSamples` and `EvaluateSamples`
statement by statement; `Abort` and `Crash` end a collection anywhere;
`DeleteExpired` is one batch of the cleanup. `Offset` is the machine's time zone, in
whole hours, and vnstat's entries carry a timestamp (see section 8).

**AlertLedger** is the abstract specification: an alert is raised once, each
channel is asked at most once to announce it and never after it was settled, it
is settled at most once and "skipped" exactly if nobody was asked, and it may be
removed at any time. It knows no collectors, statements or failures.
`AlertPipeline!KeepsLedger` is its specification under the mapping
`status <- rows, asked <- sends`.

**HistoryCleanup.** `rows` are both tables, and each cleaner (the scheduled loop
or a manual request) has the table it works on, the tables to come, its scope, its
cutoffs and the batch it selected: `Select` and `Delete` are the two statements of
`DeleteBefore` and `DeleteExpired`. `due` and `raced` are history variables.

**MachineRegistry.** Rows are "none", "live" or "gone"; a request is a sequence
of statements with what it holds in memory (`copy`, `change`). Requests interleave
without restriction, as gin serves them. The history variable `crossed` has the
requests under way of which another one has changed something they rely on: the
machines of the key a request deletes, the key it binds a machine to, the row it
holds a copy of.

**RestoreToken.** `Consume` and `Release` are the two critical sections of the
handler, `Lookup` and the update the two database calls between them.

**AdminSession.** Time has a resolution finer than the `Second` to which
`expires_at` and the signature time are cut. A request carries the cookie as it
was when sent; its answer may be overtaken. The gorilla codec's own age limit is
`CodecAge`. `diligent`, chosen in `Init`, says whether the user keeps using the
console: then the clock advances only while `Busy` holds.

**Backup.** The export reads one table per step (`ListMachines` to `ListRules`)
from the source instance and yields a file; the imports are state machines, one
action per statement, with the maps they keep in memory. `Refuse` is the
validation, `ImportFails` ends an attempt, what was written stays, and `ReadKeys`
starts the next. `Others` are edits of the same tables, during the export and during
an import. `Trim` is what the import does to names. A query with an ORDER BY returns
one of the sequences in `List`; channel types are numbered in the order of their
names. Variables, initial state and next-state relation are called `backupVars`,
`BackupInit` and `BackupNext`, so that one module can extend this one and
`MachineRegistry`.

**ThresholdRules.** Both rule tables, the machines' ids, reads of the effective
rules (`GetMachine`, `ListGlobalRules`, `ListMachineRules`) on behalf of the
console or of an alert evaluation, PUT requests of the console and of others
(`CheckMachine`, `ReplaceMachineRules`), and the console's selection, form and
save button. Thresholds are numbers of MB, shown in the larger unit when they are
a multiple of it (`DisplayValue`, `DisplayUnit`). `hasty`, `basis`, `edited` and
`held` are history variables.

**ServiceProcess.** `phase` and `hook` say which fx hook is being started or
stopped, `pool`, `listening` and `worker` what has been started, `boot` where
`EnsureBootstrapAdmin` stands. `Start` takes any configuration that `Validate`
accepts; `Crash`, `StartFailed`, `StartTimedOut` and `StopTimedOut` end it anywhere.
`admins`, `guest` and the browsers' cookies survive. Requests are served in steps
between which others run.

**NotificationSettings.** The stored channels and proxies, the forms of each window of
the console, and what is under way: saves, deletions and loads, several at a time
also from one window, each with the form as it was when the button was clicked.
Fields, Edit and Delete work at any time; only the save buttons are disabled while
the window is `busy`, which whatever ends first resets. `tokenAge` and `urlAge`
count the changes of a row, and a value shown by a form carries the age its row had
when it was read (`Copy`). `overtaken` has the rows that were saved from a mask
with another age, `robbed` the channel saves whose proxy was deleted after it was
checked; ages and both sets are history variables. A mask is the pair
`<<"mask", secret>>`, so different secrets have different masks; tokens that
share their visible ends, or URLs that differ in the password only, have one mask
in the code, which then stands for the stored secret.

## 4. Runs

| Run | Instance | What it shows |
|---|---|---|
| `scheduler` | two machines, one worker, one retry, no silent peer; all fairness | drained before exit, the loop dies only on a stop, quiet after OnStop, graceful exit, an enabled machine keeps being served although the other one competes for the only worker, a disabled one goes quiet although jobs hold snapshots of it |
| `alert_safety` | two collectors, days of two hours, upload and total over their limit, rule sets with and without the upload rule, faults, cleanup | at most one request per alert and channel with batches of two alerts, a truthful status, no alert while its day is running, and the refinement of `AlertLedger` |
| `alert_liveness` | two collectors, two amounts, no faults | every alert is settled, samples catch up |
| `alert_stuck_pending` | one collector, faults | violation: see section 7 |
| `cleanup` | scheduled and manual cleaner, batches of one, two rows, three days | complete if unraced, never too much, everything in the end, a stop ends it |
| `configuration` | `Backup`: every selection of two machines and two keys into an empty instance with one failure, padded and blank key names, one file into the instances that share names with it with two failures, a file with two keys of one name into instances in use, one with two edits of others during export or import and one failure, two imports at once with one failure. `MachineRegistry`: two keys, one machine, two requests at a time | round trip, nothing missing, references resolve, nothing overwritten, a refused file writes nothing; a machine loses its key, comes back after its deletion, or has a field set back only through a request that was overtaken |
| `session` | two requests at a time, two lifetimes of a session for a diligent user with pauses up to 1 and answers up to 1 late at max_age 7, one change of the secret | an active user stays in, no request is accepted max_age after the last |
| `settings` | one window with two requests at a time, two tokens, two URLs, one proxy id, three saves and deletions | a mask is stored only where a form was saved that showed an older row, an untouched field keeps the token it was filled for, a saved proxy exists unless it was deleted after its check |
| `thresholds` | two dimensions, two machine ids, a gigabyte of two megabytes, two reads at a time, three request bodies (one with a row twice), five actions of users | rules of one moment, new machines inherit, untouched rows are kept, a save is shown |
| `accounts` | `ServiceProcess`: two users, six configurations (plain, with a bootstrap account, restore mode, and three that `Validate` refuses), three starts, two requests in flight. `RestoreToken`: three requests, two administrators, an unknown name, a deadline inside the clock's range | pool, administrator, passwords and guests as in section 1; one success, a true 200, the token comes back |
| `key_in_use` | `MachineRegistry`: two keys, one machine, two requests | violation: see section 7 |
| `deleted_machine` | the same | violation: see section 7 |

Bounds and why they are enough. Interference in this code is pairwise: two
collections of a machine, two cleanups, two requests with one token. Two of each
(three requests for the token, so that one can find it taken and another given
back) produce every pair; a third adds no new conflict. Batches of one row make
"exactly full" and "short" both occur. One retry distinguishes the last attempt
from the others. The safety properties of the scheduler, the pipeline, the
cleanup, the restore token, the registry, the process, the session, the settings,
the thresholds and the backup are proved for all constants (section
6 says under which conditions), so that for them the instance only has to be large
enough to find mistakes. In `session` the bound
`Gap + 2 * Latency < MaxAge / 2` is what the renewal at half of the lifetime asks
for: with `Gap = 2` TLC finds a user who is sent to the login page. In `settings` two windows are too
many for TLC; one window with two requests at a time already has every conflict (a
click during a reload, a deletion during a save, two answers in either order), and
the theorems are for any number of windows. In `thresholds` and
`accounts` the bounded things are what people do and how often the process is
started; one edit, one concurrent write and one restart after a failed start are
enough for each pair of steps to meet. The two imports of `configuration` start from an
empty instance and from one that has some of the names. `CHECK_DEADLOCK FALSE` is set where
a bound on the clock, the users' actions or the starts ends the behaviour; the scheduler and pipeline models are
checked for deadlock.

`TypeOK` of each module is proved where the module has proofs and is otherwise a
definition that documents the variables; none of the runs spends a check on it
(add `INVARIANT TypeOK` to a configuration to have TLC evaluate it).

## 5. Fairness

- Goroutines that can run do run: weak fairness of the loop's and each worker's
  steps, of the ticker, of a started `OnStop`, of a collection, of a restore
  handler that holds the token (in `accounts` for behaviours about `RestoreToken`).
- Strong fairness of `LeaveLoop`: Go's `select` picks at random among ready
  branches, so the stop cannot lose to the ticker for ever.
- `EnabledMachineServed` assumes inside the property that the machine list is
  not unreadable for ever, `ExpiredIsRemoved` (`ReliableSpec`) that the scheduled
  cleanup's statements do not fail for ever.
- Nothing obliges an operator to stop the service, stop contexts to expire,
  requests to arrive, administrators to edit or machines to answer well. The
  liveness of the scheduler is for machines whose SSH handshake ends.
- No liveness is stated for `ServiceProcess`: that a stopped process ends is fx's
  doing, which expires the stop context and exits whatever a hook does.

## 6. Proofs

Every theorem is proved for all constants that satisfy the module's `ASSUME`,
from an inductive invariant of the form Init => IInv, IInv /\ [Next]_vars => IInv'.

- `TrafficSchedulerProofs` (any finite non-empty set of workers, any machines and
  retries): `TypeOK`, `DrainedBeforeExit`, `LoopDiesOnlyOnStop`, `StoppedIsQuiet`.
  `DrainedBeforeExit` is not inductive: that a worker who saw the channel closed
  and empty is followed by no send needs that only the loop's last steps close it
  (`ChannelInv`), that `stopped` implies finished goroutines needs the order of
  the hook (`StopInv`), and the attempt counter's range needs `RetryInv`.
  `SchedulerSnapshotsRunOut` is the part of `DisabledGoesQuiet` that does not need
  fairness: snapshots of a machine move from the list to the channel to a worker
  and never back, so while it stays disabled each place it has left stays empty of it.
- `AlertPipelineProofs` (any collectors, periods, metrics, rules, retention,
  faults): `TypeOK`, `NotifiedAtMostOnce`, `StatusTruthful`, `KeepsLedger`,
  `AlertsOnlyForFinishedPeriods` for `Offset = 0`. At most one collector
  owns an alert (`OwnerInv`, from the unique key), it handles its alerts in a
  total order (`OneKeyPerDim`), where it stands in its two nested loops tells
  which requests are still to be made (`SendInv`), and what it has not settled is
  pending or deleted (`OpenInv`). `TruthInv` adds what has been done to what was
  still to do: which requests were made, which of them are logged and whether one
  failed, so that the status written at the end repeats the log. For the
  refinement each action is matched with a step of the ledger: inserting
  is `Raise`, sending `Announce` (never for a settled alert, by `OpenInv`), the
  status update `Settle` (truthful by `TruthInv`), the cleanup `Remove`, and
  everything else leaves rows and requests alone. That a settled status is final
  follows from the ledger. `PeriodInv` is about the time:
  readings are aligned to the machine's hours and days, and a bucket that is about
  to be alerted on, or was, is over (`Over`, up to the lead of the machine's
  midnight). `PipelineAlertsWithinLead` states what is left for an `Offset` other
  than 0, in zones a whole number of hours from UTC and for entries with a timestamp:
  no alert earlier than `HoursPerDay - Offset` hours before the end of the
  machine's day, and none before the end of its hour. Both are about the time of an
  alert, not about its amount (section 7).
- `ServiceProcessProofs` (any requests, users, configurations and restarts):
  `TypeOK`, `PoolOutlivesUsers`, `ServingHasAdmin`, `GuestNeedsGuestMode`,
  `OnlyHolderOrRestore`. `Lifecycle` ties what is started to the hook the process
  has reached, so that at the database's stop hook nothing after it is alive;
  `Accounts` says that an account exists from the bootstrap hook on and that the
  one about to be inserted does not exist yet (no request runs before the HTTP
  hook); `ReqInv` says what a request has seen: the password in force is among
  those it noted, and resets occur in restore mode only. About `RestoreToken` (any
  requests, users, lifetime): `RestoreTypeOK`, `OkMeansStored`, `SuccessIsFinal`,
  from `TakenInv`: at most one request has the token.
- `HistoryCleanupProofs` (any batch size, retentions, requests): `TypeOK`,
  `UnracedIsComplete`, `DeletesOnlyExpired`. What an unraced cleanup is to remove
  and has not removed is in the tables to come, the current table or the selected
  batch (`DueInv`, `BatchInv`, with `AloneInv`), new rows have new ids (`IdInv`),
  and cutoffs and batches stay old as the clock advances (`OldInv`).
- `ConfigurationProofs`, first part (any ids, any number of overlapping requests):
  `TypeOK`, `OnlyCrossedStrands`, `OnlyCrossedRevives`, `OnlyCrossedOverwrites`, from
  `HeldInv`: what a request has read still holds as long as it is not `crossed`. These
  say that the overlaps of section 7 are the only ways to a machine without its key,
  a deleted machine that is back, or a lost update.
- `ConfigurationProofs`, second part (any scenarios, imports, names, key material,
  failures and edits): `BackupTypeOK`, `RefusalWritesNothing`, `ImportOnlyAdds`,
  `RefsResolve`, `NothingMissing`, `RoundTrip`. `Shape` is types, `FileClosed` (a file has the key
  of each machine and the machine of each rule, because the export refuses to go on
  without) and `Gate` (no import gets on before the export is through, or with a file
  that `validateBackupPayload` refuses). A lemma per statement (`ImportKeyMoves` and
  so on) says which fields it changes; the rest of the argument uses these lemmas
  only. `RefsResolve` rests on `PointsInv`: an id in the maps of an import is the id
  of a row. It is proved under `SoundTargets`, that the instance had no dangling
  reference before, since an import repairs none; the run's targets are such.
  `NothingMissing` rests on `ProgressInv`: of the sections it is through with, the
  import knows an id for every key and machine and the other things exist. A key that
  is skipped for its fingerprint has the id the first listing gave it (`KeysSoFar`), a
  machine is never skipped for want of its key (by `FileClosed`), and of the rules for
  one machine and dimension the first in the file is the one inserted
  (`RulesInserted`). Minima and maxima come from `LeastElement`, the least number
  principle for a set of numbers, which the library states for predicates.

  `RoundTrip` says that nothing else was written either, and is proved in two halves
  that meet in the file. `ExportTells`: as long as nobody edits the source, what the
  export has read at each of its statements is what was asked for, so that the file
  `Tells` of the original every row and no other (references turned into names).
  `RestoreInv`: what an undisturbed import has written is `Copied` from rows of the
  original, each of them `Once`, and the ids it remembers are those of the copies.
  `NothingMissing` adds that the copies are complete when it answers 200; then both
  instances have one `View` and as many machines and proxies (a bijection between
  the tables, by name). A failed attempt leaves the first two parts of `RestoreInv`
  standing and forgets the ids; the retry finds by name what is there, which is
  where names must tell things apart. The theorem's hypothesis `Restorable` says so
  of the part of the source that was asked for: keys have different ids,
  fingerprints and trimmed names, machines and proxies different ids and names, and
  a machine one rule per dimension; and the target has no channels and no global
  rules either. The unique indexes guarantee fingerprints (`model/ssh_key.go:10`)
  and rules (`model/threshold_rule.go:17`), not the names; section 7 says what
  happens without them.
- `AdminSessionProofs` (any number of requests, any resolution): `TypeOK`,
  `IdleIsOut`, from `Cap`: no cookie, in the browser or on its way, expires later
  than `max_age` after the last accepted request. `ActiveStaysIn` is proved under
  `Roomy`: pauses, latencies and the rounding to seconds together stay below half
  of `max_age`, and `max_age` below the codec's limit (the run's constants satisfy
  it). The invariant `Live` follows the newest acceptance of a diligent user: the
  cookie in the browser, or the one on its way, lasts beyond the next request even
  if an older answer overtakes it. Without `Roomy` a request that just missed the
  renewal point is the counterexample of section 4.
- `ThresholdRulesProofs` (any rules, requests, machines, loads, unit size):
  `TypeOK`, `NewMachineInherits`, `RulesOfOneMoment`, `UntouchedRowsAreKept`,
  `SavedIsShown`. One layer rests on the next: `PutValid` (what a write transaction
  gets was validated), `GivenIds` (only ids given out have rules, or get some),
  `SeenInv` (what a read has seen was in force during it, up to one write),
  `FormInv` (an unedited row of a patient user's form shows the merge of the
  selected machine's rules) and `SaveInv` (what a save sent, has written and is
  reading back). `DisplayRoundTrip` is the conversion of units.
- `NotificationSettingsProofs` (any number of windows and requests): `TypeOK`,
  `SecretsAreReal`, `UntouchedIsKept`, `SavedProxyExists`. The invariant says that a
  mask with the age of its row is the mask of what the row holds (`Fresh`), in
  forms, lists and requests alike; that a row outside `overtaken` holds no mask, nor
  does what is about to be written there; and that a save that has checked its proxy
  has one, unless it is in `robbed`. Ages only grow, so a copy once too old stays so,
  whichever order loads and saves are answered in.

Model-checked only: all liveness (`GracefulExit`, `EnabledMachineServed`,
`PendingIsTransient`, `StoredCatchesUp`, `ExpiredIsRemoved`, `StopCompletes`,
`TokenComesBack`), which needs reasoning about fairness and ENABLED that the
prover does not support, with `DisabledGoesQuiet` among them (that each of the three
places empties); and `RoundTrip` for
the one kind of source in the run that is not `Restorable` (two proxies of one name,
imported without a failure). Every safety and action property of a passing run has a
theorem.

## 7. Behaviour outside the checked properties

Three runs record a disagreement between the code and what the repository says of
it; each is a finding in `PROJECT.json`.

- `alert_stuck_pending`: one failed statement or crash after `CreateIfAbsent` leaves
  the alert pending for ever, because the retry finds the key
  (`alert_service.go:139`).
- `key_in_use`: a key that is "still referenced by machines" is not to be deleted
  (`ssh_key_service.go:26`), but a machine can be bound to it between the listing and
  the deletion (`ssh_key_service.go:164`).
- `deleted_machine`: deleting a machine "cannot be undone" (`i18n.tsx:436`), but the
  `Save` of a PATCH that had read it inserts it again (`machine_repo.go:46`).

Other properties carry a condition: a constant's value, a history variable or a
hypothesis. TLC finds a counterexample when it is dropped. Some items are not
such conditions but limits of what is stated: the amount of an alert, half-hour zones,
past buckets, the repeated announcement of a bucket, the overrun nobody evaluates,
the sessions after a rotation or a late answer.

- `SilentPeers = {}`: the handshake and the opening of the session are under no
  timeout (`ssh_client.go:42`), so one silent machine holds a worker for ever.
- `Offset = 0`: a machine east of UTC has its running day taken for a completed
  one (`alert_service.go:899`), and `AlertsOnlyForFinishedPeriods` fails for
  daily buckets. Where the zone is not a whole number of hours from UTC the lead is
  another one; neither that nor entries without a timestamp (`vnstatEntryTime`,
  `traffic_collection_service.go:328`) are modelled.
- `AlertsOnlyForFinishedPeriods` is about the time only. A collection that reads an
  entry shortly before the end of its period and evaluates it shortly after alerts on
  the amount it has read, which later traffic of that period may have changed.
- `StoredCatchesUp` is about the newest bucket: a past one that a late collection
  overwrites with older counters stays as it is once vnstat no longer reports it.
- `NotifiedAtMostOnce` is about a row: once the cleanup has deleted it and vnstat
  has stopped, the bucket is alerted on and announced again (`alert_repo.go:58`).
- Only the newest vnstat entry is evaluated, and only when its period is over
  (`alert_service.go:134`): an overrun no collection saw in that window is not
  alerted on.
- `UnracedIsComplete`: of two cleanups that select the same batch the second
  counts too few rows and ends early with a 200 (`history_cleanup_service.go:284`).
- `crossed` in `OnlyCrossedOverwrites`: a PATCH writes every column of the row it has
  read (`machine_service.go:118`), and so sets back what another request changed
  since. No document of the repository promises otherwise, so this is a condition of
  the property and no finding.
- Names used once per table in `RoundTrip` with failures (`Restorable` in the
  theorem): the retry takes the
  first of two proxies of one name for one that was there and drops the second
  (`backup_service.go:476`). Without a failure both are restored, which the run
  includes.
- The name of an SSH key is stored as it was sent (`ssh_key_service.go:73`), the
  import trims it. A key whose name is blank gives a file that every import
  refuses; keys named "a" and "a " become one name, and the machines of both are
  bound to whichever key of that name comes first. Of two keys with one name the
  second is skipped, also when the first was skipped for its fingerprint, which the
  instance may know under another name. `NothingMissing` therefore asks, for the name
  of a key, for a key with this name or with the fingerprint of one that has this
  name in the file.
- One import (`Alone`) in `RoundTrip` and `NothingMissing`: no index makes machine
  names unique, so two imports at once both create a machine
  (`backup_service.go:414`). When one of them inserts a key after the other has
  listed the keys, the other finds the fingerprint taken, knows no id for it,
  skips the machines of that key, and still answers 200.
- At most one write during the read in `RulesOfOneMoment`: if the global rules
  change after they were read and then the machine's rules before those are read
  (`threshold_service.go:99`), the evaluation sees a combination that was never
  in force.
- `~hasty` in `UntouchedRowsAreKept`: `loadMachineThresholds` puts whatever answer
  arrives into the form (`App.tsx:615`). Select a machine, select another before
  the first answer is there, or let the second load fail, and the form shows the
  first machine's rules under the second one's name; saving writes them there.
- `gaveUp` in `PoolOutlivesUsers`: requests that outlast `http.stop_timeout` run on
  while the pool is closed, and fail.
- A start whose address is in use is only logged (`http.go:52`): the process stays
  up without serving. A kill between the insertion of the bootstrap account and
  the log line with its generated password leaves an account nobody can use
  outside restore mode (`admin_bootstrap.go:21`). A disabled global rule without a
  value is refused, and with it the whole request (`threshold_service.go:197`).
- `RefsResolve` is for edits that delete nothing: there are no foreign keys, so a
  deletion alone can leave a reference behind, and the import writes ids it read
  earlier.
- `CodecAge` above `MaxAge`: gorilla's codec refuses cookies older than 30 days, so
  with `session.max_age` above 60 days an active user is sent to the login page
  (`bootstrap/session.go:14`).
- After a change of `session.secret` a login with the old cookie is answered 500
  until the browser drops it (`auth_handler.go:99`), and the answer of a renewing
  request that arrives after a logout restores the session (`auth_handler.go:127`).
- `overtaken` in `SecretsAreReal`: only the mask of the current secret is recognised
  (`alert_service.go:779`, `813`); an older one is stored as the URL or the token,
  and notifications fail. A second window is not needed: a saved proxy's form is
  cleared before the list is loaded again (`App.tsx:1420`), Edit works meanwhile
  (`NotificationsPage.tsx:238`) and takes the mask of the URL just replaced, and the
  next save stores it. The test `alert_service_test.go:793` is about an up-to-date mask.
- The age of the token in `UntouchedIsKept`: if another window, or another request of
  this one, has changed the token since the field was filled, saving the form with
  the field untouched puts the old mask in its place.
- `robbed` in `SavedProxyExists`: Delete works while a channel is being saved
  (`NotificationsPage.tsx:241`), in the same window or in another; a proxy deleted
  between `validateNotificationProxyID` (`alert_service.go:391`) and the write leaves a
  channel whose proxy does not exist.

## 8. What is not modelled

Cryptography (library ciphers), logging, health and list queries (reads). Within
modelled components: the sources of the configuration, the bytes on the wire,
vnstat's JSON with the fallback for entries without a timestamp (`vnstatEntryTime`) and
time zones with half hours, message texts and HTTP details, the encryption of the backup file,
renaming of keys, connection and channel tests (they change no state of the
system), the console's form for the global rules, its layout and its charts.

## 9. Plan

Done, in this order: scheduler, alert pipeline, restore token, cleanup, registry,
backup, session, settings, thresholds, process with accounts and guest mode, the
ledger and its refinement, the export in steps and concurrent imports, the proofs of
the safety properties down to the round trip of the backup, the console's forms with
several requests under way, the registry with overlapping requests throughout. Next:

1. A composition of `MachineRegistry` and `TrafficScheduler`, in which a job
   carries the fields of the row it was made from (now `DisabledGoesQuiet` covers
   its existence only).
2. The global form of the console and the renaming of keys.
