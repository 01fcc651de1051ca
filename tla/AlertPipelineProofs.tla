------------------------- MODULE AlertPipelineProofs -------------------------
(***************************************************************************)
(* Proofs about AlertPipeline for any number of concurrent collections and *)
(* any rules, readings, retention and clock bounds, with faults.           *)
(***************************************************************************)
EXTENDS AlertPipeline, TLAPS

\* A collector holds alerts only between their insert and its return, and no
\* two collectors hold the same one: the unique alert_key decides the owner.
OwnerInv ==
  /\ \A c \in Collectors : pc[c] \in {"idle", "upsert", "rules"} => mine[c] = {}
  /\ \A c \in Collectors : left[c] \subseteq mine[c]
  /\ \A c \in Collectors : \A id \in mine[c] : rows[id] # "none"
  /\ \A c, d \in Collectors : c # d => mine[c] \cap mine[d] = {}

\* A collection handles each (period, metric) once, so the order in which it
\* handles its alerts is a total one.
OneKeyPerDim ==
  \A c \in Collectors :
    /\ \A k, l \in todo[c] : k[1] = l[1] /\ k[2] = l[2] => k = l
    /\ \A i, j \in mine[c] : i[1] = j[1] /\ i[2] = j[2] => i = j
    /\ \A k \in todo[c], i \in mine[c] : k[1] # i[1] \/ k[2] # i[2]
    /\ pc[c] # "create" => todo[c] = {}

Unsent(id, ch) == sends[id][ch] = 0

\* Where a collector stands in the two nested loops of dispatchAlerts tells
\* which requests have not been made yet.
SendAt(c) ==
  \A id \in mine[c] :
    /\ pc[c] \in {"create", "channels", "skip"} =>
         \A ch \in Channels : Unsent(id, ch)
    /\ pc[c] \in {"send", "record"} =>
         /\ CurrentChannel(chans[c]) \in chans[c]
         /\ \A ch \in chans[c] \ {CurrentChannel(chans[c])} : Unsent(id, ch)
    /\ pc[c] = "send" /\ (CurrentChannel(chans[c]) = "telegram" \/ id \in left[c])
         => Unsent(id, CurrentChannel(chans[c]))
    /\ pc[c] = "record" /\ CurrentChannel(chans[c]) # "telegram"
         /\ id \in left[c] /\ ~IsFirst(id, left[c])
         => Unsent(id, CurrentChannel(chans[c]))

SendInv ==
  /\ \A id \in Ids, ch \in Channels : rows[id] = "none" => Unsent(id, ch)
  /\ \A c \in Collectors : SendAt(c)

\* A held alert that is still to be settled has not been settled before.
OpenInv ==
  \A c \in Collectors : \A id \in mine[c] :
    pc[c] \notin {"status", "skip"} \/ id \in left[c] => rows[id] \in {"pending", "gone"}

IInv ==
  /\ TypeOK
  /\ OwnerInv
  /\ OneKeyPerDim
  /\ SendInv
  /\ OpenInv
  /\ NotifiedAtMostOnce

-----------------------------------------------------------------------------
\* Two positions of the evaluation order are equal only for equal dimensions.
LEMMA RankInjective ==
  ASSUME NEW p \in Periods, NEW q \in Periods, NEW m \in Metrics, NEW n \in Metrics,
         Rank(p, m) = Rank(q, n)
  PROVE  p = q /\ m = n
  BY PipelineAssumption DEF PipelineAssumption, Rank

\* The start of the machine's current period is a bucket.
LEMMA HostStartBucket ==
  ASSUME NEW p \in Periods, NEW t \in HoursPerDay..MaxTime
  PROVE  HostStart(p, t) \in Buckets
  <1> USE PipelineAssumption DEF PipelineAssumption
  <1> DEFINE h == HoursIn(p)
  <1>1. h \in Nat \ {0} /\ h <= HoursPerDay /\ t \in Nat /\ Offset \in Nat
    BY DEF HoursIn
  <1> HIDE DEF h
  <1>2. (t + Offset) % h \in 0..(h - 1)
    BY <1>1
  <1>3. t - ((t + Offset) % h) \in 0..t
    BY <1>1, <1>2
  <1> QED
    BY <1>3, <1>1 DEF HostStart, Buckets, h

\* A collection finds at most one key per dimension, in completed periods.
LEMMA OverLimitKeys ==
  ASSUME NEW b, NEW r, NEW t
  PROVE  /\ OverLimit(b, r, t) \subseteq Keys
         /\ \A k, l \in OverLimit(b, r, t) : k[1] = l[1] /\ k[2] = l[2] => k = l
  <1>1. \A k, l \in OverLimit(b, r, t) : k[1] = l[1] => k[3] = l[3]
    BY DEF OverLimit
  <1>2. \A k, l \in Keys : k[1] = l[1] /\ k[2] = l[2] /\ k[3] = l[3] => k = l
    BY DEF Keys
  <1> QED
    BY <1>1, <1>2 DEF OverLimit

\* The empty tables and idle collectors satisfy the inductive invariant.
LEMMA IInvInit == Init => IInv
  <1> SUFFICES ASSUME Init PROVE IInv
    OBVIOUS
  <1> USE PipelineAssumption DEF PipelineAssumption, Init
  <1>1. TypeOK
    <2>1. now \in HoursPerDay..MaxTime
      OBVIOUS
    <2>2. /\ latest \in Batches /\ rules \in RuleSets /\ enabledCh \in SUBSET Channels
          /\ stored \in [Periods -> [Buckets -> Amounts \cup {None}]]
      BY DEF Batches
    <2>3. rows \in [Ids -> RowStates] /\ deliveries \subseteq Ids \X Channels \X BOOLEAN
      BY DEF RowStates
    <2>4. sends \in [Ids -> [Channels -> Nat]]
      OBVIOUS
    <2>5. /\ pc \in [Collectors -> PCs]
          /\ batch \in [Collectors -> Batches \cup {None}]
          /\ \A c \in Collectors : pc[c] \in {"upsert", "rules"} => batch[c] # None
      BY DEF PCs
    <2>6. /\ todo \in [Collectors -> SUBSET Keys]
          /\ mine \in [Collectors -> SUBSET Ids]
          /\ chans \in [Collectors -> SUBSET Channels]
          /\ left \in [Collectors -> SUBSET Ids]
          /\ failed \in [Collectors -> SUBSET Ids]
      OBVIOUS
    <2>7. lastOk \in [Collectors -> BOOLEAN]
      OBVIOUS
    <2> QED
      BY <2>1, <2>2, <2>3, <2>4, <2>5, <2>6, <2>7 DEF TypeOK
  <1>2. OwnerInv /\ OneKeyPerDim /\ OpenInv
    BY DEF OwnerInv, OneKeyPerDim, OpenInv
  <1>3. SendInv /\ NotifiedAtMostOnce
    BY DEF SendInv, SendAt, Unsent, NotifiedAtMostOnce
  <1> QED
    BY <1>1, <1>2, <1>3 DEF IInv

-----------------------------------------------------------------------------
(* What a step must keep besides the types. *)
Core == OwnerInv /\ OneKeyPerDim /\ SendInv /\ OpenInv /\ NotifiedAtMostOnce

\* A step that leaves the alerts, the requests and the collectors' position
\* alone keeps the core of the invariant.
LEMMA CoreFrame ==
  ASSUME Core, UNCHANGED <<rows, sends, pc, todo, mine, chans, left>>
  PROVE  Core'
  BY DEF Core, OwnerInv, OneKeyPerDim, SendInv, SendAt, Unsent, OpenInv,
         NotifiedAtMostOnce, IsFirst, CurrentChannel

\* Types after a return.
LEMMA ReturnType ==
  ASSUME NEW c \in Collectors, TypeOK, Return(c)
  PROVE  /\ pc' \in [Collectors -> PCs]
         /\ batch' \in [Collectors -> Batches \cup {None}]
         /\ \A d \in Collectors : pc'[d] \in {"upsert", "rules"} => batch'[d] # None
         /\ todo' \in [Collectors -> SUBSET Keys]
         /\ mine' \in [Collectors -> SUBSET Ids]
         /\ chans' \in [Collectors -> SUBSET Channels]
         /\ left' \in [Collectors -> SUBSET Ids]
         /\ failed' \in [Collectors -> SUBSET Ids]
         /\ lastOk' \in [Collectors -> BOOLEAN]
  BY DEF TypeOK, Return, PCs

\* A collector that returns gives up what it held; the others are untouched.
LEMMA ReturnCore ==
  ASSUME NEW c \in Collectors, TypeOK, Core, Return(c), UNCHANGED <<rows, sends>>
  PROVE  Core'
  <1> USE DEF TypeOK, Return, Core, CurrentChannel, IsFirst
  <1>1. OwnerInv'
    BY DEF OwnerInv
  <1>2. OneKeyPerDim'
    BY DEF OneKeyPerDim
  <1>3. SendInv'
    BY DEF SendInv, SendAt, Unsent
  <1>4. OpenInv'
    BY DEF OpenInv
  <1>5. NotifiedAtMostOnce'
    BY DEF NotifiedAtMostOnce
  <1> QED
    BY <1>1, <1>2, <1>3, <1>4, <1>5

\* The clock, vnstat, the administrators and the history cleanup.
LEMMA EnvironmentIInv == ASSUME IInv, Environment PROVE IInv'
  <1> USE PipelineAssumption DEF IInv, PipelineAssumption
  <1>1. CASE AdvanceClock
    <2>1. Core'
      BY <1>1, CoreFrame DEF AdvanceClock, dbVars, localVars, Core
    <2>2. TypeOK'
      BY <1>1 DEF AdvanceClock, TypeOK, dbVars, localVars
    <2> QED
      BY <2>1, <2>2 DEF Core
  <1>2. ASSUME NEW p \in Periods, VnstatWrites(p) PROVE IInv'
    <2>1. Core'
      BY <1>2, CoreFrame DEF VnstatWrites, dbVars, localVars, Core
    <2>2. latest' \in Batches
      <3>1. HostStart(p, now) \in Buckets
        BY HostStartBucket DEF TypeOK
      <3>2. PICK a \in Amounts :
              latest' = [latest EXCEPT ![p] = [bucket |-> HostStart(p, now), amount |-> a]]
        BY <1>2 DEF VnstatWrites
      <3> QED
        BY <3>1, <3>2 DEF TypeOK, Batches, Entries
    <2>3. TypeOK'
      BY <1>2, <2>2 DEF VnstatWrites, TypeOK, dbVars, localVars
    <2> QED
      BY <2>1, <2>3 DEF Core
  <1>3. CASE ChangeRules
    <2>1. Core'
      BY <1>3, CoreFrame DEF ChangeRules, dbVars, localVars, Core
    <2>2. TypeOK'
      BY <1>3 DEF ChangeRules, TypeOK, dbVars, localVars
    <2> QED
      BY <2>1, <2>2 DEF Core
  <1>4. ASSUME NEW ch \in Channels, ToggleChannel(ch) PROVE IInv'
    <2>1. Core'
      BY <1>4, CoreFrame DEF ToggleChannel, dbVars, localVars, Core
    <2>2. TypeOK'
      BY <1>4 DEF ToggleChannel, TypeOK, dbVars, localVars
    <2> QED
      BY <2>1, <2>2 DEF Core
  <1>5. CASE DeleteExpired
    <2>1. PICK S \in SUBSET { id \in Ids : rows[id] \in Live } :
            rows' = [id \in Ids |-> IF id \in S THEN "gone" ELSE rows[id]]
      BY <1>5 DEF DeleteExpired
    <2>2. UNCHANGED <<sends, pc, todo, mine, chans, left>>
      BY <1>5 DEF DeleteExpired, localVars
    <2>3. TypeOK'
      BY <1>5, <2>1 DEF DeleteExpired, TypeOK, RowStates, envVars, localVars
    <2>4. \A id \in Ids : /\ rows[id] # "none" => rows'[id] # "none"
                          /\ rows'[id] = "none" => rows[id] = "none"
                          /\ rows[id] \in {"pending", "gone"} => rows'[id] \in {"pending", "gone"}
      BY <2>1 DEF TypeOK, Live
    <2>5. OwnerInv' /\ OpenInv'
      BY <2>2, <2>4 DEF OwnerInv, OpenInv, TypeOK
    <2>6. OneKeyPerDim' /\ NotifiedAtMostOnce'
      BY <2>2 DEF OneKeyPerDim, NotifiedAtMostOnce
    <2>7. SendInv'
      BY <2>2, <2>4 DEF SendInv, SendAt, Unsent, IsFirst, CurrentChannel, TypeOK
    <2> QED
      BY <2>3, <2>5, <2>6, <2>7
  <1> QED
    BY <1>1, <1>2, <1>3, <1>4, <1>5 DEF Environment

-----------------------------------------------------------------------------
(* The steps of a collection, one lemma per step that does more than read. *)

\* Reading vnstat and writing samples: the collector holds no alert yet.
LEMMA ReadAndUpsertIInv ==
  ASSUME IInv, NEW c \in Collectors, ReadVnstat(c) \/ UpsertSamples(c)
  PROVE  IInv'
  <1> USE DEF IInv, Core
  <1>1. CASE ReadVnstat(c)
    <2>1. TypeOK'
      BY <1>1, NoneAssumption DEF NoneAssumption, ReadVnstat, TypeOK, PCs, envVars, dbVars
    <2>2. OwnerInv' /\ OneKeyPerDim' /\ OpenInv' /\ NotifiedAtMostOnce'
      BY <1>1 DEF ReadVnstat, TypeOK, OwnerInv, OneKeyPerDim, OpenInv,
                  NotifiedAtMostOnce, dbVars
    <2>3. SendInv'
      BY <1>1 DEF ReadVnstat, TypeOK, OwnerInv, SendInv, SendAt, Unsent, IsFirst,
                  CurrentChannel, dbVars
    <2> QED
      BY <2>1, <2>2, <2>3
  <1>2. CASE UpsertSamples(c)
    <2>1. TypeOK'
      <3>1. stored' \in [Periods -> [Buckets -> Amounts \cup {None}]]
        <4> SUFFICES ASSUME NEW p \in Periods, NEW b \in Buckets,
                            b = batch[c][p].bucket
                     PROVE  batch[c][p].amount \in Amounts \cup {None}
          BY <1>2 DEF UpsertSamples, TypeOK
        <4> QED
          BY <1>2 DEF UpsertSamples, TypeOK, Batches, Entries
      <3> QED
        BY <1>2, <3>1 DEF UpsertSamples, TypeOK, PCs, envVars
    <2>2. OwnerInv' /\ OneKeyPerDim' /\ OpenInv' /\ NotifiedAtMostOnce'
      BY <1>2 DEF UpsertSamples, TypeOK, OwnerInv, OneKeyPerDim, OpenInv,
                  NotifiedAtMostOnce
    <2>3. SendInv'
      BY <1>2 DEF UpsertSamples, TypeOK, OwnerInv, SendInv, SendAt, Unsent, IsFirst,
                  CurrentChannel
    <2> QED
      BY <2>1, <2>2, <2>3
  <1> QED
    BY <1>1, <1>2

\* Reading the rules fixes at most one key per dimension.
LEMMA ListRulesIInv ==
  ASSUME IInv, NEW c \in Collectors, ListRules(c)
  PROVE  IInv'
  <1> USE DEF IInv
  <1> DEFINE over == OverLimit(batch[c], rules, now)
  <1>1. CASE over = {} /\ Return(c)
    <2>1. TypeOK'
      BY <1>1, ReturnType DEF ListRules, TypeOK, envVars, dbVars
    <2>2. Core'
      BY <1>1, ReturnCore DEF ListRules, Core, dbVars
    <2> QED
      BY <2>1, <2>2 DEF Core
  <1>2. CASE over # {}
    <2>1. /\ pc[c] = "rules"
          /\ todo' = [todo EXCEPT ![c] = over]
          /\ pc' = [pc EXCEPT ![c] = "create"]
          /\ batch' = [batch EXCEPT ![c] = None]
          /\ UNCHANGED <<mine, chans, left, failed, lastOk, envVars, dbVars, sends>>
      BY <1>2 DEF ListRules
    <2>2. /\ over \subseteq Keys
          /\ \A k, l \in over : k[1] = l[1] /\ k[2] = l[2] => k = l
      BY OverLimitKeys
    <2> HIDE DEF over
    <2>3. TypeOK'
      BY <2>1, <2>2 DEF TypeOK, PCs, envVars, dbVars
    <2>4. mine[c] = {}
      BY <2>1 DEF OwnerInv
    <2>5. OwnerInv' /\ OneKeyPerDim' /\ OpenInv' /\ NotifiedAtMostOnce'
      BY <2>1, <2>2, <2>4 DEF TypeOK, OwnerInv, OneKeyPerDim, OpenInv,
                              NotifiedAtMostOnce, dbVars
    <2>6. SendInv'
      BY <2>1, <2>4 DEF TypeOK, SendInv, SendAt, Unsent, IsFirst, CurrentChannel, dbVars
    <2> QED
      BY <2>3, <2>5, <2>6
  <1> QED
    BY <1>1, <1>2 DEF ListRules

\* The insert: a new row belongs to nobody and nothing was sent for it.
LEMMA CreateIfAbsentIInv ==
  ASSUME IInv, NEW c \in Collectors, CreateIfAbsent(c)
  PROVE  IInv'
  <1> USE DEF IInv
  <1>1. PICK k \in todo[c] :
          /\ todo' = [todo EXCEPT ![c] = @ \ {k}]
          /\ \/ /\ AfterCreate(c, k, mine[c])
                /\ UNCHANGED <<rows, mine>>
             \/ \E id \in Ids :
                  /\ KeyOf(id) = k /\ NextRow(id)
                  /\ rows' = [rows EXCEPT ![id] = "pending"]
                  /\ mine' = [mine EXCEPT ![c] = @ \cup {id}]
                  /\ AfterCreate(c, k, mine[c] \cup {id})
    BY DEF CreateIfAbsent
  <1>2. /\ pc[c] = "create"
        /\ UNCHANGED <<envVars, stored, deliveries, sends, batch, chans, left, failed, lastOk>>
    BY DEF CreateIfAbsent
  <1>3. CASE AfterCreate(c, k, mine[c]) /\ UNCHANGED <<rows, mine>>
    <2>1. TypeOK'
      BY <1>1, <1>2, <1>3 DEF AfterCreate, TypeOK, PCs, envVars
    <2>2. OwnerInv' /\ OneKeyPerDim' /\ OpenInv' /\ NotifiedAtMostOnce'
      BY <1>1, <1>2, <1>3 DEF AfterCreate, TypeOK, OwnerInv, OneKeyPerDim,
                              OpenInv, NotifiedAtMostOnce
    <2>3. SendInv'
      BY <1>1, <1>2, <1>3 DEF AfterCreate, TypeOK, SendInv, SendAt, Unsent, IsFirst,
                              CurrentChannel
    <2> QED
      BY <2>1, <2>2, <2>3
  <1>4. ASSUME NEW id \in Ids,
               KeyOf(id) = k, NextRow(id),
               rows' = [rows EXCEPT ![id] = "pending"],
               mine' = [mine EXCEPT ![c] = @ \cup {id}],
               AfterCreate(c, k, mine[c] \cup {id})
        PROVE  IInv'
    <2>1. pc' = [pc EXCEPT ![c] = IF todo[c] # {k} THEN "create" ELSE "channels"]
      BY <1>4 DEF AfterCreate
    <2>2. rows[id] = "none" /\ id[1] = k[1] /\ id[2] = k[2]
      BY <1>4 DEF NextRow, KeyOf
    <2>3. TypeOK'
      BY <1>1, <1>2, <1>4, <2>1 DEF TypeOK, PCs, RowStates, Live, envVars
    <2>4. \A d \in Collectors : id \notin mine[d]
      BY <2>2 DEF OwnerInv
    <2>5. OwnerInv'
      BY <1>1, <1>2, <1>4, <2>1, <2>4 DEF TypeOK, OwnerInv
    <2>6. OneKeyPerDim'
      BY <1>1, <1>2, <1>4, <2>1, <2>2 DEF TypeOK, OneKeyPerDim
    <2>7. OpenInv' /\ NotifiedAtMostOnce'
      BY <1>1, <1>2, <1>4, <2>1 DEF TypeOK, OpenInv, NotifiedAtMostOnce
    <2>8. SendInv'
      BY <1>1, <1>2, <1>4, <2>1, <2>2, <2>4 DEF TypeOK, SendInv, SendAt, Unsent, IsFirst,
                                            CurrentChannel
    <2> QED
      BY <2>3, <2>5, <2>6, <2>7, <2>8
  <1> QED
    BY <1>1, <1>3, <1>4

\* Reading the channels opens the first pass over all held alerts.
LEMMA ListChannelsIInv ==
  ASSUME IInv, NEW c \in Collectors, ListChannels(c)
  PROVE  IInv'
  <1> USE DEF IInv
  <1>1. TypeOK'
    BY DEF ListChannels, TypeOK, PCs, envVars, dbVars
  <1>2. OwnerInv' /\ OneKeyPerDim' /\ OpenInv' /\ NotifiedAtMostOnce'
    BY DEF ListChannels, TypeOK, OwnerInv, OneKeyPerDim, OpenInv,
           NotifiedAtMostOnce, dbVars
  <1>3. SendInv'
    BY DEF ListChannels, TypeOK, SendInv, SendAt, Unsent, IsFirst, CurrentChannel,
           Channels, dbVars
  <1> QED
    BY <1>1, <1>2, <1>3

\* The request: whoever it addresses has not been addressed on this channel.
LEMMA SendIInv ==
  ASSUME IInv, NEW c \in Collectors, Send(c)
  PROVE  IInv'
  <1> USE DEF IInv
  <1> DEFINE ch == CurrentChannel(chans[c])
             addressed == IF ch = "telegram" THEN mine[c]
                          ELSE { id \in left[c] : IsFirst(id, left[c]) }
  <1>1. /\ pc[c] = "send"
        /\ sends' = [id \in Ids |-> IF id \in addressed
                                    THEN [sends[id] EXCEPT ![ch] = @ + 1]
                                    ELSE sends[id]]
        /\ pc' = [pc EXCEPT ![c] = "record"]
        /\ UNCHANGED <<envVars, dbVars, batch, todo, mine, chans, left, failed>>
    BY DEF Send
  <1>2. addressed \subseteq mine[c] /\ ch \in Channels
    BY DEF OwnerInv, CurrentChannel, Channels
  <1>3. \A id \in addressed : sends[id][ch] = 0
    BY <1>1, <1>2 DEF SendInv, SendAt, Unsent
  <1>4. ch # "telegram" => \A id \in left[c] : IsFirst(id, left[c]) <=> id \in addressed
    OBVIOUS
  <1>5. CurrentChannel(chans'[c]) = ch
    BY <1>1
  <1> HIDE DEF ch, addressed
  <1>6. \A id \in Ids, h \in Channels :
          sends'[id][h] = IF id \in addressed /\ h = ch THEN 1 ELSE sends[id][h]
    BY <1>1, <1>2, <1>3 DEF TypeOK
  <1>7. TypeOK'
    <2>1. sends' \in [Ids -> [Channels -> Nat]]
      BY <1>1, <1>2 DEF TypeOK
    <2>2. lastOk' \in [Collectors -> BOOLEAN]
      BY DEF Send, TypeOK
    <2> QED
      BY <1>1, <2>1, <2>2 DEF TypeOK, PCs, envVars, dbVars
  <1>8. OwnerInv' /\ OneKeyPerDim' /\ OpenInv'
    BY <1>1 DEF TypeOK, OwnerInv, OneKeyPerDim, OpenInv, dbVars
  <1>9. NotifiedAtMostOnce'
    BY <1>6 DEF NotifiedAtMostOnce, TypeOK
  <1>10. SendInv'
    <2>1. \A id \in Ids, h \in Channels : rows'[id] = "none" => Unsent(id, h)'
      BY <1>1, <1>2, <1>6 DEF SendInv, OwnerInv, Unsent, dbVars
    <2>2. ASSUME NEW d \in Collectors, d # c
          PROVE  SendAt(d)'
      <3>1. /\ pc'[d] = pc[d] /\ mine'[d] = mine[d] /\ chans'[d] = chans[d]
            /\ left'[d] = left[d]
        BY <1>1, <2>2 DEF TypeOK
      <3>2. \A id \in mine[d] : id \in Ids /\ id \notin addressed
        BY <1>2, <2>2 DEF OwnerInv, TypeOK
      <3>3. \A id \in mine[d], h \in Channels : Unsent(id, h)' = Unsent(id, h)
        BY <1>6, <3>2 DEF Unsent
      <3>4. SendAt(d) /\ chans[d] \subseteq Channels /\ CurrentChannel(chans[d]) \in Channels
        BY DEF SendInv, TypeOK, CurrentChannel, Channels
      <3> QED
        BY <3>1, <3>3, <3>4 DEF SendAt, IsFirst, CurrentChannel
    <2>3. SendAt(c)'
      <3>1. /\ pc'[c] = "record" /\ mine'[c] = mine[c] /\ chans'[c] = chans[c]
            /\ left'[c] = left[c]
        BY <1>1 DEF TypeOK
      <3>2. ASSUME NEW id \in mine[c]
            PROVE  /\ ch \in chans[c]
                   /\ \A h \in chans[c] \ {ch} : Unsent(id, h)
                   /\ ch # "telegram" /\ id \in left[c] => Unsent(id, ch)
        BY <1>1 DEF SendInv, SendAt, ch
      <3>3. ASSUME NEW id \in mine[c], NEW h \in chans[c] \ {ch}
            PROVE  sends'[id][h] = 0
        BY <1>6, <3>2 DEF Unsent, TypeOK
      <3>4. ASSUME NEW id \in mine[c], ch # "telegram", id \in left[c],
                   ~IsFirst(id, left[c])
            PROVE  sends'[id][ch] = 0
        <4>1. id \notin addressed /\ id \in Ids
          BY <1>4, <3>4 DEF TypeOK
        <4>2. sends[id][ch] = 0
          BY <3>2, <3>4 DEF Unsent
        <4> QED
          BY <1>2, <1>6, <4>1, <4>2
      <3> QED
        BY <1>5, <3>1, <3>2, <3>3, <3>4 DEF SendAt, IsFirst, Unsent
    <2> QED
      BY <2>1, <2>2, <2>3 DEF SendInv
  <1> QED
    BY <1>7, <1>8, <1>9, <1>10

\* Among the alerts one collection holds, exactly one comes first.
LEMMA FirstIsUnique ==
  ASSUME TypeOK, OwnerInv, OneKeyPerDim, NEW c \in Collectors,
         NEW i \in left[c], NEW j \in left[c],
         IsFirst(i, left[c]), IsFirst(j, left[c])
  PROVE  i = j
  <1>1. i \in mine[c] /\ j \in mine[c]
    BY DEF OwnerInv
  <1>2. i \in Ids /\ j \in Ids
    BY DEF TypeOK
  <1>3. /\ i[1] \in Periods /\ i[2] \in Metrics
        /\ j[1] \in Periods /\ j[2] \in Metrics
    BY <1>2 DEF Ids
  <1>4. Rank(i[1], i[2]) <= Rank(j[1], j[2]) /\ Rank(j[1], j[2]) <= Rank(i[1], i[2])
    BY DEF IsFirst
  <1>5. Rank(i[1], i[2]) \in Nat /\ Rank(j[1], j[2]) \in Nat
    BY <1>3, PipelineAssumption DEF PipelineAssumption, Rank
  <1>6. Rank(i[1], i[2]) = Rank(j[1], j[2])
    BY <1>4, <1>5
  <1>7. i[1] = j[1] /\ i[2] = j[2]
    BY <1>3, <1>6, RankInjective
  <1> QED
    BY <1>1, <1>7 DEF OneKeyPerDim

\* The delivery record, and the move to the next alert or channel.
LEMMA CreateDeliveryIInv ==
  ASSUME IInv, NEW c \in Collectors, CreateDelivery(c)
  PROVE  IInv'
  <1> USE DEF IInv
  <1> DEFINE ch == CurrentChannel(chans[c])
  <1>1. PICK id \in left[c] :
          /\ IsFirst(id, left[c])
          /\ deliveries' = deliveries \cup {<<id, ch, lastOk[c]>>}
          /\ failed' = [failed EXCEPT ![c] = IF lastOk[c] THEN @ ELSE @ \cup {id}]
          /\ left' = [left EXCEPT ![c] = IF left[c] = {id} THEN mine[c] ELSE @ \ {id}]
          /\ chans' = [chans EXCEPT ![c] = IF left[c] = {id} THEN @ \ {ch} ELSE @]
          /\ pc' = [pc EXCEPT ![c] =
                      IF left[c] = {id} THEN (IF chans[c] = {ch} THEN "status" ELSE "send")
                      ELSE IF ch = "telegram" THEN "record" ELSE "send"]
    BY DEF CreateDelivery
  <1>2. /\ pc[c] = "record"
        /\ UNCHANGED <<envVars, stored, rows, sends, batch, todo, mine, lastOk>>
    BY DEF CreateDelivery
  <1>3. ch \in Channels /\ id \in mine[c] /\ id \in Ids
    BY <1>1 DEF CurrentChannel, Channels, OwnerInv, TypeOK
  <1>4. ch \in chans[c] /\ \A j \in mine[c], h \in chans[c] \ {ch} : sends[j][h] = 0
    BY <1>2, <1>3 DEF SendInv, SendAt, Unsent
  <1>5. ch # "telegram" => \A j \in left[c] \ {id} : sends[j][ch] = 0
    <2> SUFFICES ASSUME ch # "telegram", NEW j \in left[c] \ {id}
                 PROVE  sends[j][ch] = 0
      OBVIOUS
    <2>1. ~IsFirst(j, left[c])
      BY <1>1, FirstIsUnique
    <2>2. j \in mine[c]
      BY DEF OwnerInv
    <2> QED
      BY <1>2, <2>1, <2>2 DEF SendInv, SendAt, Unsent
  <1>6. \A S \in SUBSET Channels : S # {} => CurrentChannel(S) \in S
    BY DEF CurrentChannel, Channels
  <1>7. TypeOK'
    <2>1. deliveries' \subseteq Ids \X Channels \X BOOLEAN
      <3>1. lastOk[c] \in BOOLEAN
        BY DEF TypeOK
      <3> HIDE DEF ch
      <3> QED
        BY <1>1, <1>3, <3>1 DEF TypeOK
    <2>2. failed' \in [Collectors -> SUBSET Ids] /\ left' \in [Collectors -> SUBSET Ids]
      BY <1>1, <1>3 DEF TypeOK
    <2>3. chans' \in [Collectors -> SUBSET Channels] /\ pc' \in [Collectors -> PCs]
      BY <1>1 DEF TypeOK, PCs
    <2>4. \A d \in Collectors : pc'[d] \in {"upsert", "rules"} => batch'[d] # None
      BY <1>1, <1>2 DEF TypeOK
    <2> QED
      BY <1>2, <2>1, <2>2, <2>3, <2>4 DEF TypeOK, envVars
  <1>8. OwnerInv' /\ OneKeyPerDim'
    BY <1>1, <1>2 DEF TypeOK, OwnerInv, OneKeyPerDim
  <1>9. OpenInv' /\ NotifiedAtMostOnce'
    BY <1>1, <1>2 DEF TypeOK, OpenInv, NotifiedAtMostOnce
  <1> HIDE DEF ch
  <1>10. SendInv'
    <2>1. \A i \in Ids, h \in Channels : rows'[i] = "none" => Unsent(i, h)'
      BY <1>2 DEF SendInv, Unsent
    <2>2. ASSUME NEW d \in Collectors, d # c
          PROVE  SendAt(d)'
      <3>1. /\ pc'[d] = pc[d] /\ mine'[d] = mine[d] /\ chans'[d] = chans[d]
            /\ left'[d] = left[d] /\ sends' = sends
        BY <1>1, <1>2, <2>2 DEF TypeOK
      <3> QED
        BY <3>1 DEF SendInv, SendAt, Unsent, IsFirst, CurrentChannel
    <2>3. SendAt(c)'
      <3>1. CASE left[c] = {id} /\ chans[c] = {ch}
        BY <1>1, <1>2, <3>1 DEF SendAt, TypeOK
      <3>2. CASE left[c] = {id} /\ chans[c] # {ch}
        <4>1. /\ pc'[c] = "send" /\ chans'[c] = chans[c] \ {ch}
              /\ mine'[c] = mine[c] /\ sends' = sends
          BY <1>1, <1>2, <3>2 DEF TypeOK
        <4>2. chans'[c] # {} /\ chans'[c] \in SUBSET Channels
          BY <1>4, <3>2, <4>1 DEF TypeOK
        <4>3. CurrentChannel(chans'[c]) \in chans'[c]
          BY <1>6, <4>2
        <4> QED
          BY <1>4, <4>1, <4>3 DEF SendAt, Unsent
      <3>3. CASE left[c] # {id}
        <4>1. /\ pc'[c] = IF ch = "telegram" THEN "record" ELSE "send"
              /\ chans'[c] = chans[c] /\ left'[c] = left[c] \ {id}
              /\ mine'[c] = mine[c] /\ sends' = sends
          BY <1>1, <1>2, <3>3 DEF TypeOK
        <4>2. CurrentChannel(chans'[c]) = ch
          BY <4>1 DEF ch
        <4> QED
          BY <1>4, <1>5, <4>1, <4>2 DEF SendAt, Unsent
      <3> QED
        BY <3>1, <3>2, <3>3
    <2> QED
      BY <2>1, <2>2, <2>3 DEF SendInv
  <1> QED
    BY <1>7, <1>8, <1>9, <1>10

\* The status update concerns an alert this collector holds and has not
\* settled; nobody else holds it.
LEMMA UpdateNotifyStatusFrame ==
  ASSUME IInv, NEW c \in Collectors, UpdateNotifyStatus(c)
  PROVE  \E id \in left[c] :
           /\ id \in mine[c] /\ id \in Ids
           /\ rows[id] \in {"pending", "gone"}
           /\ \E st \in {"gone", "skipped", "failed", "sent"} :
                /\ rows' = [rows EXCEPT ![id] = st]
                /\ rows[id] = "gone" => st = "gone"
           /\ UNCHANGED sends
           /\ \/ /\ left' = [left EXCEPT ![c] = @ \ {id}]
                 /\ UNCHANGED <<pc, batch, todo, mine, chans, failed, lastOk>>
              \/ Return(c)
  <1>1. PICK id \in left[c] :
          /\ rows' = [rows EXCEPT ![id] =
                     IF @ = "gone" THEN "gone"
                     ELSE IF pc[c] = "skip" THEN "skipped"
                     ELSE IF id \in failed[c] THEN "failed" ELSE "sent"]
          /\ \/ /\ left' = [left EXCEPT ![c] = @ \ {id}]
                /\ UNCHANGED <<pc, batch, todo, mine, chans, failed, lastOk>>
             \/ Return(c)
    BY DEF UpdateNotifyStatus
  <1>2. id \in mine[c] /\ id \in Ids
    BY DEF IInv, OwnerInv, TypeOK
  <1>3. rows[id] \in {"pending", "gone"}
    BY <1>2 DEF IInv, OpenInv
  <1>4. UNCHANGED sends
    BY DEF UpdateNotifyStatus
  <1> DEFINE st == IF rows[id] = "gone" THEN "gone"
                   ELSE IF pc[c] = "skip" THEN "skipped"
                   ELSE IF id \in failed[c] THEN "failed" ELSE "sent"
  <1>5. /\ st \in {"gone", "skipped", "failed", "sent"}
        /\ rows' = [rows EXCEPT ![id] = st]
        /\ rows[id] = "gone" => st = "gone"
    BY <1>1, <1>2 DEF IInv, TypeOK
  <1> QED
    BY <1>1, <1>2, <1>3, <1>4, <1>5

\* Settling an alert keeps the invariant: it leaves the set of open ones.
LEMMA UpdateNotifyStatusIInv ==
  ASSUME IInv, NEW c \in Collectors, UpdateNotifyStatus(c)
  PROVE  IInv'
  <1> USE DEF IInv
  <1>1. PICK id \in left[c], st \in {"gone", "skipped", "failed", "sent"} :
           /\ id \in mine[c] /\ id \in Ids
           /\ rows' = [rows EXCEPT ![id] = st]
           /\ rows[id] \in {"pending", "gone"}
           /\ \/ /\ left' = [left EXCEPT ![c] = @ \ {id}]
                 /\ UNCHANGED <<pc, batch, todo, mine, chans, failed, lastOk>>
              \/ Return(c)
    BY UpdateNotifyStatusFrame
  <1>2. pc[c] \in {"status", "skip"} /\ UNCHANGED <<envVars, stored, deliveries, sends>>
    BY DEF UpdateNotifyStatus
  <1>3. rows' \in [Ids -> RowStates]
    BY <1>1 DEF TypeOK, RowStates, Live
  <1>4. /\ \A i \in Ids : rows'[i] = "none" <=> rows[i] = "none"
        /\ \A i \in Ids \ {id} : rows'[i] = rows[i]
    BY <1>1 DEF TypeOK
  <1>5. \A d \in Collectors \ {c} : id \notin mine[d]
    BY <1>1 DEF OwnerInv
  <1>6. CASE Return(c)
    <2>1. TypeOK'
      BY <1>2, <1>3, <1>6, ReturnType DEF TypeOK, envVars
    <2>2. OwnerInv' /\ OneKeyPerDim'
      BY <1>4, <1>6 DEF Return, TypeOK, OwnerInv, OneKeyPerDim
    <2>3. SendInv' /\ NotifiedAtMostOnce'
      BY <1>2, <1>4, <1>6 DEF Return, TypeOK, SendInv, SendAt, Unsent, IsFirst,
                              CurrentChannel, NotifiedAtMostOnce
    <2>4. OpenInv'
      BY <1>4, <1>5, <1>6 DEF Return, TypeOK, OpenInv
    <2> QED
      BY <2>1, <2>2, <2>3, <2>4
  <1>7. CASE /\ left' = [left EXCEPT ![c] = @ \ {id}]
             /\ UNCHANGED <<pc, batch, todo, mine, chans, failed, lastOk>>
    <2>1. TypeOK'
      BY <1>2, <1>3, <1>7 DEF TypeOK, envVars
    <2>2. OwnerInv' /\ OneKeyPerDim'
      BY <1>4, <1>7 DEF TypeOK, OwnerInv, OneKeyPerDim
    <2>3. SendInv' /\ NotifiedAtMostOnce'
      BY <1>2, <1>4, <1>7 DEF TypeOK, SendInv, SendAt, Unsent, IsFirst,
                              CurrentChannel, NotifiedAtMostOnce
    <2>4. OpenInv'
      BY <1>2, <1>4, <1>5, <1>7 DEF TypeOK, OpenInv
    <2> QED
      BY <2>1, <2>2, <2>3, <2>4
  <1> QED
    BY <1>1, <1>6, <1>7

\* A failed statement or a crash only drops what collectors held in memory.
LEMMA FaultIInv ==
  ASSUME IInv, Crash \/ \E c \in Collectors : Abort(c)
  PROVE  IInv'
  <1> USE DEF IInv
  <1>1. ASSUME NEW c \in Collectors, Abort(c) PROVE IInv'
    <2>1. TypeOK'
      BY <1>1, ReturnType DEF Abort, TypeOK, envVars, dbVars
    <2>2. Core'
      BY <1>1, ReturnCore DEF Abort, Core, dbVars
    <2> QED
      BY <2>1, <2>2 DEF Core
  <1>2. CASE Crash
    <2>1. TypeOK'
      <3>1. lastOk' \in [Collectors -> BOOLEAN]
        BY <1>2 DEF Crash
      <3>2. /\ pc' \in [Collectors -> PCs]
            /\ batch' \in [Collectors -> Batches \cup {None}]
            /\ \A d \in Collectors : pc'[d] \in {"upsert", "rules"} => batch'[d] # None
            /\ todo' \in [Collectors -> SUBSET Keys]
            /\ mine' \in [Collectors -> SUBSET Ids]
            /\ chans' \in [Collectors -> SUBSET Channels]
            /\ left' \in [Collectors -> SUBSET Ids]
            /\ failed' \in [Collectors -> SUBSET Ids]
        BY <1>2 DEF Crash, PCs
      <3> QED
        BY <1>2, <3>1, <3>2 DEF Crash, TypeOK, envVars, dbVars
    <2>2. OwnerInv' /\ OneKeyPerDim' /\ OpenInv'
      BY <1>2 DEF Crash, OwnerInv, OneKeyPerDim, OpenInv
    <2>3. SendInv' /\ NotifiedAtMostOnce'
      BY <1>2 DEF Crash, SendInv, SendAt, Unsent, NotifiedAtMostOnce, dbVars
    <2> QED
      BY <2>1, <2>2, <2>3
  <1> QED
    BY <1>1, <1>2

\* Every step keeps the inductive invariant.
LEMMA IInvStep == IInv /\ [Next]_vars => IInv'
  <1> SUFFICES ASSUME IInv, [Next]_vars PROVE IInv'
    OBVIOUS
  <1>1. CASE Environment
    BY <1>1, EnvironmentIInv
  <1>2. ASSUME NEW c \in Collectors, Collect(c) PROVE IInv'
    BY <1>2, ReadAndUpsertIInv, ListRulesIInv, CreateIfAbsentIInv, ListChannelsIInv,
       SendIInv, CreateDeliveryIInv, UpdateNotifyStatusIInv DEF Collect
  <1>3. CASE Crash \/ \E c \in Collectors : Abort(c)
    BY <1>3, FaultIInv
  <1>4. CASE UNCHANGED vars
    <2>1. Core'
      BY <1>4, CoreFrame DEF vars, IInv, Core
    <2>2. TypeOK'
      BY <1>4 DEF vars, IInv, TypeOK
    <2> QED
      BY <2>1, <2>2 DEF IInv, Core
  <1> QED
    BY <1>1, <1>2, <1>3, <1>4 DEF Next

\* Every reachable state satisfies the inductive invariant.
THEOREM PipelineInvariant == Spec => []IInv
  BY IInvInit, IInvStep, PTL DEF Spec

\* The pipeline's variables keep their types.
THEOREM PipelineTypeCorrect == Spec => []TypeOK
  <1>1. IInv => TypeOK
    BY DEF IInv
  <1> QED
    BY <1>1, PipelineInvariant, PTL

\* No alert row is announced twice on a channel, for any number of concurrent
\* collections, failures, crashes, rule and channel edits and cleanups.
THEOREM PipelineNotifiesAtMostOnce == Spec => []NotifiedAtMostOnce
  <1>1. IInv => NotifiedAtMostOnce
    BY DEF IInv
  <1> QED
    BY <1>1, PipelineInvariant, PTL

-----------------------------------------------------------------------------
(***************************************************************************)
(* notify_status agrees with the delivery log, and the pipeline keeps the  *)
(* promises of AlertLedger. The invariant above gives who owns an alert    *)
(* and what was not requested yet; here follows what was.                  *)
(***************************************************************************)

\* Requests in a history R, and records in a delivery log D.
Asked(R, id, ch) == R[id][ch] > 0
Recorded(D, id, ch) == \E ok \in BOOLEAN : <<id, ch, ok>> \in D
FailureIn(D, id) == \E ch \in Channels : <<id, ch, FALSE>> \in D

\* Where a collector stands in dispatchAlerts tells which of its requests have
\* been made and which of them are in the delivery log.
TruthAt(c) ==
  /\ failed[c] \subseteq mine[c]
  /\ \A id \in mine[c] :
       /\ pc[c] \in {"create", "channels", "skip"} =>
            id \notin failed[c] /\ \A ch \in Channels : ~Recorded(deliveries, id, ch)
       /\ pc[c] \in {"send", "record", "status"} =>
            (id \in failed[c] <=> FailureIn(deliveries, id))
       /\ pc[c] \in {"send", "status"} =>
            \A ch \in Channels : Asked(sends, id, ch) => Recorded(deliveries, id, ch)
       /\ pc[c] = "record" =>
            \A ch \in Channels : Asked(sends, id, ch) =>
               Recorded(deliveries, id, ch) \/ (ch = CurrentChannel(chans[c]) /\ id \in left[c])
       /\ pc[c] = "send" /\ id \notin left[c] => Asked(sends, id, CurrentChannel(chans[c]))
       /\ pc[c] = "record" /\ (CurrentChannel(chans[c]) = "telegram"
                               \/ id \notin left[c] \/ IsFirst(id, left[c]))
            => Asked(sends, id, CurrentChannel(chans[c]))
       /\ pc[c] = "status" => \E ch \in Channels : Asked(sends, id, ch)

\* What notify_status says of one alert.
Truthful(id) ==
  /\ rows[id] = "sent" => (\E ch \in Channels : Asked(sends, id, ch)) /\ ~FailureIn(deliveries, id)
  /\ rows[id] = "failed" => FailureIn(deliveries, id)
  /\ rows[id] = "skipped" => \A ch \in Channels : ~Asked(sends, id, ch)
  /\ rows[id] \in {"sent", "failed"} => \A ch \in Channels : Asked(sends, id, ch) => Recorded(deliveries, id, ch)

TruthInv ==
  /\ \A id \in Ids : rows[id] = "none" => \A ch \in Channels : ~Recorded(deliveries, id, ch)
  /\ \A c \in Collectors : TruthAt(c)
  /\ \A id \in Ids : Truthful(id)

\* A step that adds neither a request nor a record for an alert.
SameHistory(id) ==
  /\ FailureIn(deliveries', id) <=> FailureIn(deliveries, id)
  /\ \A ch \in Channels : Asked(sends', id, ch) <=> Asked(sends, id, ch)
  /\ \A ch \in Channels : Recorded(deliveries', id, ch) <=> Recorded(deliveries, id, ch)

-----------------------------------------------------------------------------
(* Lemmas that name what a step leaves alone. *)

\* Without a delivery record there is no failed one.
LEMMA NothingLogged ==
  ASSUME NEW id, \A ch \in Channels : ~Recorded(deliveries, id, ch)
  PROVE  ~FailureIn(deliveries, id)
  BY DEF Recorded, FailureIn

\* The empty tables satisfy the invariant.
LEMMA TruthInit == Init => TruthInv
  <1> SUFFICES ASSUME Init PROVE TruthInv
    OBVIOUS
  <1>1. \A id : \A ch \in Channels : ~Recorded(deliveries, id, ch)
    BY DEF Init, Recorded
  <1> QED
    BY <1>1 DEF Init, TruthInv, TruthAt, Truthful

\* What is known of a collector depends only on what it holds, on where it is
\* and on the requests and records of its alerts.
LEMMA TruthAtFrame ==
  ASSUME NEW d \in Collectors, TruthAt(d),
         pc'[d] = pc[d], mine'[d] = mine[d], chans'[d] = chans[d],
         left'[d] = left[d], failed'[d] = failed[d],
         \A id \in mine[d] : SameHistory(id)
  PROVE  TruthAt(d)'
  <1>1. CurrentChannel(chans[d]) \in Channels
    BY DEF CurrentChannel, Channels
  <1>2. CurrentChannel(chans'[d]) = CurrentChannel(chans[d])
    OBVIOUS
  <1>3. \A id : IsFirst(id, left'[d]) <=> IsFirst(id, left[d])
    OBVIOUS
  <1> DEFINE cur == CurrentChannel(chans[d])
  <1> HIDE DEF cur
  <1>4. CurrentChannel(chans'[d]) = cur /\ CurrentChannel(chans[d]) = cur /\ cur \in Channels
    BY <1>1, <1>2 DEF cur
  <1>5. failed'[d] \subseteq mine'[d]
    BY DEF TruthAt
  <1> QED
    BY <1>3, <1>4, <1>5 DEF TruthAt, SameHistory

\* A step that only moves collector c.
LEMMA TruthLocal ==
  ASSUME TruthInv, NEW c \in Collectors, UNCHANGED <<rows, sends, deliveries>>,
         \A d \in Collectors \ {c} : /\ pc'[d] = pc[d] /\ mine'[d] = mine[d]
                                     /\ chans'[d] = chans[d] /\ left'[d] = left[d]
                                     /\ failed'[d] = failed[d],
         TruthAt(c)'
  PROVE  TruthInv'
  <1>1. \A id : SameHistory(id)
    BY DEF SameHistory
  <1>2. \A d \in Collectors \ {c} : TruthAt(d)'
    BY <1>1, TruthAtFrame DEF TruthInv
  <1>3. \A id \in Ids : Truthful(id)'
    BY <1>1 DEF TruthInv, Truthful, SameHistory
  <1> QED
    BY <1>1, <1>2, <1>3 DEF TruthInv, SameHistory

\* A collector that holds nothing and has forgotten its failures.
LEMMA TruthAtEmpty ==
  ASSUME NEW c \in Collectors, mine'[c] = {}, failed'[c] = {}
  PROVE  TruthAt(c)'
  BY DEF TruthAt

\* A return of collector c.
LEMMA TruthReturn ==
  ASSUME TypeOK, TruthInv, NEW c \in Collectors, Return(c), UNCHANGED <<rows, sends, deliveries>>
  PROVE  TruthInv'
  <1>1. mine'[c] = {} /\ failed'[c] = {}
    BY DEF TypeOK, Return
  <1>2. \A d \in Collectors \ {c} : /\ pc'[d] = pc[d] /\ mine'[d] = mine[d]
                                    /\ chans'[d] = chans[d] /\ left'[d] = left[d]
                                    /\ failed'[d] = failed[d]
    BY DEF TypeOK, Return
  <1> QED
    BY <1>1, <1>2, TruthAtEmpty, TruthLocal

-----------------------------------------------------------------------------
(* The steps *)

\* The clock, vnstat and the administrators do not touch alerts; the cleanup
\* only removes rows.
LEMMA TruthEnvironment == ASSUME IInv, TruthInv, Environment PROVE TruthInv'
  <1>1. /\ UNCHANGED <<sends, deliveries, pc, mine, chans, left, failed>>
        /\ \A id \in Ids : rows'[id] = rows[id] \/ (rows'[id] = "gone" /\ rows[id] # "none")
    <2>1. CASE DeleteExpired
      <3>1. PICK S \in SUBSET { id \in Ids : rows[id] \in Live } :
              rows' = [id \in Ids |-> IF id \in S THEN "gone" ELSE rows[id]]
        BY <2>1 DEF DeleteExpired
      <3>2. UNCHANGED <<sends, deliveries, pc, mine, chans, left, failed>>
        BY <2>1 DEF DeleteExpired, localVars
      <3> QED
        BY <3>1, <3>2 DEF Live
    <2>2. CASE /\ ~DeleteExpired
               /\ UNCHANGED <<dbVars, sends, localVars>>
      BY <2>2 DEF dbVars, localVars
    <2>3. UNCHANGED <<dbVars, sends, localVars>> \/ DeleteExpired
      BY DEF Environment, AdvanceClock, VnstatWrites, ChangeRules, ToggleChannel
    <2> QED
      BY <2>1, <2>2, <2>3
  <1>2. \A id : SameHistory(id)
    BY <1>1 DEF SameHistory
  <1>3. \A d \in Collectors : TruthAt(d)'
    BY <1>1, <1>2, TruthAtFrame DEF TruthInv
  <1>4. \A id \in Ids : Truthful(id)'
    BY <1>1, <1>2 DEF TruthInv, Truthful, SameHistory
  <1> QED
    BY <1>1, <1>2, <1>3, <1>4 DEF TruthInv, SameHistory

\* Reading vnstat, writing samples and reading the rules: no alert is held.
LEMMA TruthBeforeAlerts ==
  ASSUME IInv, TruthInv, NEW c \in Collectors,
         ReadVnstat(c) \/ UpsertSamples(c) \/ ListRules(c)
  PROVE  TruthInv'
  <1>1. CASE ListRules(c) /\ Return(c)
    BY <1>1, TruthReturn DEF IInv, ListRules, dbVars
  <1>2. CASE ReadVnstat(c) \/ UpsertSamples(c) \/ (ListRules(c) /\ ~Return(c))
    <2>1. /\ UNCHANGED <<rows, sends, deliveries, mine, chans, left, failed>>
          /\ pc[c] \in {"idle", "upsert", "rules"}
          /\ \E x : pc' = [pc EXCEPT ![c] = x]
      BY <1>2 DEF ReadVnstat, UpsertSamples, ListRules, dbVars
    <2>2. mine'[c] = {} /\ failed'[c] = {}
      BY <2>1 DEF IInv, OwnerInv, TruthInv, TruthAt
    <2>3. \A d \in Collectors \ {c} : pc'[d] = pc[d]
      BY <2>1 DEF IInv, TypeOK
    <2> QED
      BY <2>1, <2>2, <2>3, TruthAtEmpty, TruthLocal
  <1> QED
    BY <1>1, <1>2

\* Reading the channels: nothing was requested and nothing recorded.
LEMMA TruthListChannels ==
  ASSUME IInv, TruthInv, NEW c \in Collectors, ListChannels(c)
  PROVE  TruthInv'
  <1>1. /\ pc[c] = "channels" /\ UNCHANGED <<rows, sends, deliveries, mine, failed>>
        /\ pc'[c] \in {"skip", "send"} /\ left'[c] = mine[c]
        /\ \A d \in Collectors \ {c} : /\ pc'[d] = pc[d] /\ chans'[d] = chans[d]
                                        /\ left'[d] = left[d]
    BY DEF ListChannels, IInv, TypeOK, dbVars
  <1>2. \A id \in mine[c] : /\ id \notin failed[c]
                            /\ \A ch \in Channels : ~Recorded(deliveries, id, ch) /\ ~Asked(sends, id, ch)
    BY <1>1 DEF TruthInv, TruthAt, IInv, SendInv, SendAt, Unsent, Asked
  <1>3. \A id \in mine[c] : ~FailureIn(deliveries, id)
    BY <1>2, NothingLogged
  <1>4. \A id \in mine[c] : /\ ~FailureIn(deliveries', id)
                            /\ \A ch \in Channels : ~Recorded(deliveries', id, ch) /\ ~Asked(sends', id, ch)
    BY <1>1, <1>2, <1>3 DEF FailureIn, Recorded, Asked
  <1>5. failed[c] \subseteq mine[c]
    BY DEF TruthInv, TruthAt
  <1>6. TruthAt(c)'
    BY <1>1, <1>2, <1>4, <1>5 DEF TruthAt
  <1> QED
    BY <1>1, <1>6, TruthLocal

\* The insert: the new row has no requests and no records.
LEMMA TruthCreateIfAbsent ==
  ASSUME IInv, TruthInv, NEW c \in Collectors, CreateIfAbsent(c)
  PROVE  TruthInv'
  <1> USE DEF IInv
  <1>1. /\ pc[c] = "create" /\ UNCHANGED <<sends, deliveries, chans, left, failed>>
        /\ pc'[c] \in {"create", "idle", "channels"}
        /\ \A d \in Collectors \ {c} : pc'[d] = pc[d]
    BY DEF CreateIfAbsent, AfterCreate, TypeOK
  <1>2. \A id : SameHistory(id)
    BY <1>1 DEF SameHistory
  <1>3. CASE UNCHANGED <<rows, mine>>
    <2>1. TruthAt(c)'
      BY <1>1, <1>3 DEF TruthInv, TruthAt
    <2> QED
      BY <1>1, <1>3, <2>1, TruthLocal
  <1>4. ASSUME NEW id \in Ids, rows[id] = "none",
               rows' = [rows EXCEPT ![id] = "pending"],
               mine' = [mine EXCEPT ![c] = @ \cup {id}]
        PROVE  TruthInv'
    <2>1. /\ mine'[c] = mine[c] \cup {id}
          /\ \A d \in Collectors \ {c} : mine'[d] = mine[d]
          /\ \A i \in Ids \ {id} : rows'[i] = rows[i]
          /\ rows'[id] = "pending"
      BY <1>4 DEF TypeOK
    <2>2. \A d \in Collectors \ {c} : TruthAt(d)'
      BY <1>1, <1>2, <2>1, TruthAtFrame DEF TruthInv
    <2>3. id \notin mine[c]
      BY <1>4 DEF OwnerInv
    <2>4. id \notin failed[c] /\ \A ch \in Channels : ~Recorded(deliveries, id, ch)
      BY <1>4, <2>3 DEF TruthInv, TruthAt
    <2>5. TruthAt(c)'
      BY <1>1, <2>1, <2>4 DEF TruthInv, TruthAt
    <2>6. \A i \in Ids : Truthful(i)'
      BY <1>2, <2>1 DEF TruthInv, Truthful, SameHistory
    <2> QED
      BY <1>1, <2>1, <2>2, <2>5, <2>6 DEF TruthInv
  <1> QED
    BY <1>3, <1>4 DEF CreateIfAbsent, NextRow

\* The request is made for alerts that are not settled.
LEMMA TruthSend ==
  ASSUME IInv, TruthInv, NEW c \in Collectors, Send(c)
  PROVE  TruthInv'
  <1> USE DEF IInv
  <1> DEFINE ch == CurrentChannel(chans[c])
             addressed == IF ch = "telegram" THEN mine[c]
                          ELSE { id \in left[c] : IsFirst(id, left[c]) }
  <1>1. /\ pc[c] = "send"
        /\ sends' = [id \in Ids |-> IF id \in addressed
                                    THEN [sends[id] EXCEPT ![ch] = @ + 1]
                                    ELSE sends[id]]
        /\ pc' = [pc EXCEPT ![c] = "record"]
        /\ UNCHANGED <<rows, deliveries, mine, chans, left, failed>>
    BY DEF Send, dbVars
  <1>2. addressed \subseteq mine[c] /\ ch \in Channels /\ mine[c] \subseteq Ids
    BY DEF OwnerInv, CurrentChannel, Channels, TypeOK
  <1>3. /\ ch = "telegram" => addressed = mine[c]
        /\ \A id \in left[c] : IsFirst(id, left[c]) => id \in addressed
        /\ \A id \in addressed : ch = "telegram" \/ id \in left[c]
    BY DEF OwnerInv
  <1>4. ch = "telegram" => left[c] = mine[c]
    <2>1. \A id \in mine[c] : ch = "telegram" /\ id \notin left[c] =>
             Asked(sends, id, ch) /\ Unsent(id, ch)
      BY <1>1 DEF TruthInv, TruthAt, SendInv, SendAt
    <2>2. \A id \in mine[c] : ~(Asked(sends, id, ch) /\ Unsent(id, ch))
      BY <1>2 DEF Asked, Unsent
    <2> QED
      BY <2>1, <2>2 DEF OwnerInv
  <1>5. ch = CurrentChannel(chans[c]) /\ ch = CurrentChannel(chans'[c])
    BY <1>1
  <1> HIDE DEF ch, addressed
  <1>6. \A id \in Ids, h \in Channels :
          Asked(sends', id, h) <=> Asked(sends, id, h) \/ (id \in addressed /\ h = ch)
    BY <1>1, <1>2 DEF TypeOK, Asked
  <1>7. \A id \in Ids \ addressed : SameHistory(id)
    BY <1>1, <1>6 DEF SameHistory
  <1>8. \A d \in Collectors \ {c} : TruthAt(d)'
    <2> TAKE d \in Collectors \ {c}
    <2>1. /\ pc'[d] = pc[d] /\ mine'[d] = mine[d] /\ chans'[d] = chans[d]
          /\ left'[d] = left[d] /\ failed'[d] = failed[d] /\ TruthAt(d)
      BY <1>1 DEF TypeOK, TruthInv
    <2>2. \A id \in mine[d] : id \in Ids \ addressed
      BY <1>2 DEF OwnerInv, TypeOK
    <2> QED
      BY <1>7, <2>1, <2>2, TruthAtFrame
  <1>9. TruthAt(c)'
    <2>1. /\ pc'[c] = "record" /\ mine'[c] = mine[c] /\ left'[c] = left[c]
          /\ failed'[c] = failed[c] /\ deliveries' = deliveries
      BY <1>1 DEF TypeOK
    <2>2. TruthAt(c)
      BY DEF TruthInv
    <2> QED
      BY <1>1, <1>2, <1>3, <1>4, <1>5, <1>6, <2>1, <2>2 DEF TruthAt
  <1>10. \A id \in Ids : Truthful(id)'
    <2> TAKE id \in Ids
    <2>1. CASE id \in addressed
      <3>1. rows'[id] \in {"pending", "gone"}
        BY <1>1, <1>2, <2>1 DEF OpenInv
      <3> QED
        BY <3>1 DEF Truthful
    <2>2. CASE id \notin addressed
      BY <1>1, <1>7, <2>2 DEF TruthInv, Truthful, SameHistory
    <2> QED
      BY <2>1, <2>2
  <1> QED
    BY <1>1, <1>8, <1>9, <1>10 DEF TruthInv

\* The delivery record of the alert that comes next in the pass.
LEMMA TruthCreateDelivery ==
  ASSUME IInv, TruthInv, NEW c \in Collectors, CreateDelivery(c)
  PROVE  TruthInv'
  <1> USE DEF IInv
  <1> DEFINE ch == CurrentChannel(chans[c])
  <1>1. PICK id \in left[c] :
          /\ IsFirst(id, left[c])
          /\ deliveries' = deliveries \cup {<<id, ch, lastOk[c]>>}
          /\ failed' = [failed EXCEPT ![c] = IF lastOk[c] THEN @ ELSE @ \cup {id}]
          /\ left' = [left EXCEPT ![c] = IF left[c] = {id} THEN mine[c] ELSE @ \ {id}]
          /\ chans' = [chans EXCEPT ![c] = IF left[c] = {id} THEN @ \ {ch} ELSE @]
          /\ pc' = [pc EXCEPT ![c] =
                      IF left[c] = {id} THEN (IF chans[c] = {ch} THEN "status" ELSE "send")
                      ELSE IF ch = "telegram" THEN "record" ELSE "send"]
    BY DEF CreateDelivery
  <1>2. pc[c] = "record" /\ UNCHANGED <<rows, sends, mine>>
    BY DEF CreateDelivery
  <1>3. ch \in Channels /\ id \in mine[c] /\ id \in Ids /\ lastOk[c] \in BOOLEAN
    BY <1>1 DEF CurrentChannel, Channels, OwnerInv, TypeOK
  <1>4. ch = CurrentChannel(chans[c])
    OBVIOUS
  <1> HIDE DEF ch
  <1>5. \A i, h : Recorded(deliveries', i, h) <=> Recorded(deliveries, i, h) \/ (i = id /\ h = ch)
    <2>1. \A i, h, o : <<i, h, o>> = <<id, ch, lastOk[c]>> <=> i = id /\ h = ch /\ o = lastOk[c]
      OBVIOUS
    <2>2. \A i, h, o : <<i, h, o>> \in deliveries' <=>
                         <<i, h, o>> \in deliveries \/ (i = id /\ h = ch /\ o = lastOk[c])
      BY <1>1, <2>1
    <2> QED
      BY <1>3, <2>2, Zenon DEF Recorded
  <1>6. \A i : FailureIn(deliveries', i) <=> FailureIn(deliveries, i) \/ (i = id /\ ~lastOk[c])
    <2>1. \A i, h : <<i, h, FALSE>> = <<id, ch, lastOk[c]>> <=> i = id /\ h = ch /\ ~lastOk[c]
      BY <1>3
    <2>2. \A i, h : <<i, h, FALSE>> \in deliveries' <=>
                      <<i, h, FALSE>> \in deliveries \/ (i = id /\ h = ch /\ ~lastOk[c])
      BY <1>1, <2>1
    <2> QED
      BY <1>3, <2>2, Zenon DEF FailureIn
  <1>7. \A i : i # id => SameHistory(i)
    BY <1>2, <1>5, <1>6 DEF SameHistory
  <1>8. \A d \in Collectors \ {c} : TruthAt(d)'
    <2> TAKE d \in Collectors \ {c}
    <2>1. /\ pc'[d] = pc[d] /\ mine'[d] = mine[d] /\ chans'[d] = chans[d]
          /\ left'[d] = left[d] /\ failed'[d] = failed[d] /\ TruthAt(d)
      BY <1>1, <1>2 DEF TypeOK, TruthInv
    <2>2. \A i \in mine[d] : i # id
      BY <1>3 DEF OwnerInv
    <2> QED
      BY <1>7, <2>1, <2>2, TruthAtFrame
  <1>9. TruthAt(c)'
    <2>1. /\ mine'[c] = mine[c] /\ sends' = sends
          /\ failed'[c] = IF lastOk[c] THEN failed[c] ELSE failed[c] \cup {id}
      BY <1>1, <1>2 DEF TypeOK
    <2>2. TruthAt(c)
      BY DEF TruthInv
    <2>3. /\ failed'[c] \subseteq mine[c]
          /\ \A i \in mine[c] : i \in failed'[c] <=> FailureIn(deliveries', i)
      BY <1>2, <1>3, <1>6, <2>1, <2>2 DEF TruthAt
    <2>4. \A i \in mine[c] : \A h \in Channels : Asked(sends, i, h) =>
            Recorded(deliveries', i, h) \/ (h = ch /\ i \in left[c] \ {id})
      BY <1>2, <1>4, <1>5, <2>2 DEF TruthAt
    <2>5. /\ Asked(sends, id, ch)
          /\ ch = "telegram" => \A i \in mine[c] : Asked(sends, i, ch)
          /\ \A i \in mine[c] : i \notin left[c] => Asked(sends, i, ch)
      BY <1>1, <1>2, <1>3, <1>4, <2>2 DEF TruthAt
    <2>6. CASE left[c] = {id}
      <3>1. left'[c] = mine[c] /\ pc'[c] \in {"status", "send"}
        BY <1>1, <2>6 DEF TypeOK
      <3>2. \A i \in mine[c] : Asked(sends, i, ch)
        BY <2>5, <2>6
      <3> QED
        BY <1>3, <2>1, <2>3, <2>4, <2>6, <3>1, <3>2 DEF TruthAt
    <2>7. CASE left[c] # {id}
      <3>1. /\ left'[c] = left[c] \ {id} /\ CurrentChannel(chans'[c]) = ch
            /\ pc'[c] = IF ch = "telegram" THEN "record" ELSE "send"
        BY <1>1, <1>4, <2>7 DEF TypeOK
      <3>2. CASE ch = "telegram"
        BY <2>1, <2>3, <2>4, <2>5, <3>1, <3>2 DEF TruthAt
      <3>3. CASE ch # "telegram"
        <4>1. \A i \in left[c] \ {id} : ~Asked(sends, i, ch)
          <5> TAKE i \in left[c] \ {id}
          <5>1. ~IsFirst(i, left[c]) /\ i \in mine[c]
            BY <1>1, FirstIsUnique DEF OwnerInv
          <5>2. Unsent(i, ch)
            BY <1>2, <1>4, <3>3, <5>1 DEF SendInv, SendAt
          <5> QED
            BY <5>2 DEF Unsent, Asked
        <4> QED
          BY <2>1, <2>3, <2>4, <2>5, <3>1, <3>3, <4>1 DEF TruthAt
      <3> QED
        BY <3>2, <3>3
    <2> QED
      BY <2>6, <2>7
  <1>10. \A i \in Ids : Truthful(i)'
    <2> TAKE i \in Ids
    <2>1. CASE i = id
      <3>1. rows'[i] \in {"pending", "gone"}
        BY <1>2, <1>3, <2>1 DEF OpenInv
      <3> QED
        BY <3>1 DEF Truthful
    <2>2. CASE i # id
      BY <1>2, <1>7, <2>2 DEF TruthInv, Truthful, SameHistory
    <2> QED
      BY <2>1, <2>2
  <1>11. \A i \in Ids : rows'[i] = "none" => \A h \in Channels : ~Recorded(deliveries', i, h)
    BY <1>2, <1>3, <1>5 DEF TruthInv, OwnerInv
  <1> QED
    BY <1>8, <1>9, <1>10, <1>11 DEF TruthInv

\* The status that is written for a held alert is the true one.
LEMMA TruthUpdateNotifyStatus ==
  ASSUME IInv, TruthInv, NEW c \in Collectors, UpdateNotifyStatus(c)
  PROVE  TruthInv'
  <1> USE DEF IInv
  <1>1. PICK id \in left[c] :
          /\ rows' = [rows EXCEPT ![id] =
                     IF @ = "gone" THEN "gone"
                     ELSE IF pc[c] = "skip" THEN "skipped"
                     ELSE IF id \in failed[c] THEN "failed" ELSE "sent"]
          /\ \/ /\ left' = [left EXCEPT ![c] = @ \ {id}]
                /\ UNCHANGED <<pc, batch, todo, mine, chans, failed, lastOk>>
             \/ Return(c)
    BY DEF UpdateNotifyStatus
  <1>2. pc[c] \in {"status", "skip"} /\ UNCHANGED <<deliveries, sends>>
    BY DEF UpdateNotifyStatus
  <1>3. id \in mine[c] /\ id \in Ids
    BY DEF OwnerInv, TypeOK
  <1>4. \A i : SameHistory(i)
    BY <1>2 DEF SameHistory
  <1>5. /\ rows'[id] = IF rows[id] = "gone" THEN "gone"
                       ELSE IF pc[c] = "skip" THEN "skipped"
                       ELSE IF id \in failed[c] THEN "failed" ELSE "sent"
        /\ \A i \in Ids \ {id} : rows'[i] = rows[i]
    BY <1>1, <1>3 DEF TypeOK
  <1>6. Truthful(id)'
    <2>1. TruthAt(c)
      BY DEF TruthInv
    <2>2. CASE pc[c] = "skip"
      <3>1. \A ch \in Channels : ~Asked(sends, id, ch)
        BY <1>3, <2>2 DEF SendInv, SendAt, Unsent, Asked
      <3> QED
        BY <1>2, <1>5, <2>2, <3>1 DEF Truthful
    <2>3. CASE pc[c] = "status"
      <3>1. /\ id \in failed[c] <=> FailureIn(deliveries, id)
            /\ \A ch \in Channels : Asked(sends, id, ch) => Recorded(deliveries, id, ch)
            /\ \E ch \in Channels : Asked(sends, id, ch)
        BY <1>3, <2>1, <2>3 DEF TruthAt
      <3> QED
        BY <1>2, <1>5, <2>3, <3>1 DEF Truthful
    <2> QED
      BY <1>2, <2>2, <2>3
  <1>7. \A i \in Ids : Truthful(i)'
    BY <1>4, <1>5, <1>6 DEF TruthInv, Truthful, SameHistory
  <1>8. \A d \in Collectors : TruthAt(d)'
    <2>1. CASE Return(c)
      <3>1. mine'[c] = {} /\ failed'[c] = {}
        BY <2>1 DEF Return, TypeOK
      <3>2. \A d \in Collectors \ {c} : /\ pc'[d] = pc[d] /\ mine'[d] = mine[d]
                                        /\ chans'[d] = chans[d] /\ left'[d] = left[d]
                                        /\ failed'[d] = failed[d]
        BY <2>1 DEF Return, TypeOK
      <3> QED
        BY <1>4, <3>1, <3>2, TruthAtEmpty, TruthAtFrame DEF TruthInv
    <2>2. CASE /\ left' = [left EXCEPT ![c] = @ \ {id}]
               /\ UNCHANGED <<pc, batch, todo, mine, chans, failed, lastOk>>
      <3>1. \A d \in Collectors \ {c} : left'[d] = left[d]
        BY <2>2 DEF TypeOK
      <3>2. \A d \in Collectors \ {c} : TruthAt(d)'
        BY <1>4, <2>2, <3>1, TruthAtFrame DEF TruthInv
      <3>3. TruthAt(c)'
        BY <1>2, <2>2 DEF TruthInv, TruthAt
      <3> QED
        BY <3>2, <3>3
    <2> QED
      BY <1>1, <2>1, <2>2
  <1>9. \A i \in Ids : rows'[i] = "none" => rows[i] = "none"
    BY <1>3, <1>5
  <1> QED
    BY <1>2, <1>7, <1>8, <1>9 DEF TruthInv

\* A failed statement or a crash drops what collectors held, and their claims.
LEMMA TruthFault ==
  ASSUME IInv, TruthInv, Crash \/ \E c \in Collectors : Abort(c)
  PROVE  TruthInv'
  <1>1. ASSUME NEW c \in Collectors, Abort(c) PROVE TruthInv'
    BY <1>1, TruthReturn DEF IInv, Abort, dbVars
  <1>2. CASE Crash
    <2>1. UNCHANGED <<rows, sends, deliveries>>
      BY <1>2 DEF Crash, dbVars
    <2>2. \A d \in Collectors : TruthAt(d)'
      BY <1>2, TruthAtEmpty DEF Crash
    <2> QED
      BY <2>1, <2>2 DEF TruthInv, Truthful
  <1> QED
    BY <1>1, <1>2

\* Every step keeps what is known of requests and records.
LEMMA TruthStep == IInv /\ TruthInv /\ [Next]_vars => TruthInv'
  <1> SUFFICES ASSUME IInv, TruthInv, [Next]_vars PROVE TruthInv'
    OBVIOUS
  <1>1. CASE Environment
    BY <1>1, TruthEnvironment
  <1>2. ASSUME NEW c \in Collectors, Collect(c) PROVE TruthInv'
    BY <1>2, TruthBeforeAlerts, TruthCreateIfAbsent, TruthListChannels, TruthSend,
       TruthCreateDelivery, TruthUpdateNotifyStatus DEF Collect
  <1>3. CASE Crash \/ \E c \in Collectors : Abort(c)
    BY <1>3, TruthFault
  <1>4. CASE UNCHANGED vars
    BY <1>4 DEF vars, TruthInv, TruthAt, Truthful
  <1> QED
    BY <1>1, <1>2, <1>3, <1>4 DEF Next

\* Every reachable state satisfies both invariants.
THEOREM PipelineTruth == Spec => [](IInv /\ TruthInv)
  BY IInvInit, IInvStep, TruthInit, TruthStep, PTL DEF Spec

\* notify_status (UpdateNotifyStatus, alert_service.go) agrees with the requests
\* made and with the delivery log, however collections overlap, fail or crash.
THEOREM PipelineStatusTruthful == Spec => []StatusTruthful
  <1>1. IInv /\ TruthInv => StatusTruthful
    <2> SUFFICES ASSUME IInv, TruthInv, NEW id \in Ids
                 PROVE  /\ rows[id] = "sent" =>
                             /\ Requested(id) # {}
                             /\ \A ch \in Channels : <<id, ch, FALSE>> \notin deliveries
                        /\ rows[id] = "failed" => \E ch \in Channels : <<id, ch, FALSE>> \in deliveries
                        /\ rows[id] = "skipped" => Requested(id) = {}
                        /\ rows[id] \in {"sent", "failed"} => \A ch \in Requested(id) : Logged(id, ch)
      BY DEF StatusTruthful
    <2>1. Truthful(id)
      BY DEF TruthInv
    <2> QED
      BY <2>1 DEF Truthful, Requested, Logged, Recorded, FailureIn, Asked
  <1> QED
    BY <1>1, PipelineTruth, PTL

-----------------------------------------------------------------------------
(* The refinement *)

\* The empty tables are an empty ledger.
LEMMA LedgerInit == Init => Ledger!Init
  BY DEF Init, Ledger!Init

\* The history cleanup removes alerts.
LEMMA LedgerDelete ==
  ASSUME IInv, DeleteExpired
  PROVE  Ledger!Remove
  <1>1. PICK S \in SUBSET { id \in Ids : rows[id] \in Live } :
          rows' = [id \in Ids |-> IF id \in S THEN "gone" ELSE rows[id]]
    BY DEF DeleteExpired
  <1>2. UNCHANGED sends
    BY DEF DeleteExpired
  <1>3. rows' \in [Ids -> {"none", "pending", "gone"} \cup Ledger!Settled]
    BY <1>1 DEF IInv, TypeOK, RowStates, Live, Ledger!Settled
  <1>4. \A a \in Ids : rows'[a] = rows[a] \/ (rows[a] # "none" /\ rows'[a] = "gone")
    BY <1>1 DEF Live
  <1> QED
    BY <1>2, <1>3, <1>4 DEF Ledger!Remove

\* A request announces alerts that are not settled and that the channel was not
\* asked to announce before.
LEMMA LedgerSend ==
  ASSUME IInv, NEW c \in Collectors, Send(c)
  PROVE  \E ch \in Channels : Ledger!Announce(ch)
  <1> USE DEF IInv
  <1> DEFINE ch == CurrentChannel(chans[c])
             addressed == IF ch = "telegram" THEN mine[c]
                          ELSE { id \in left[c] : IsFirst(id, left[c]) }
  <1>1. /\ pc[c] = "send"
        /\ sends' = [id \in Ids |-> IF id \in addressed
                                    THEN [sends[id] EXCEPT ![ch] = @ + 1]
                                    ELSE sends[id]]
        /\ UNCHANGED rows
    BY DEF Send, dbVars
  <1>2. addressed \subseteq mine[c] /\ ch \in Channels
    BY DEF OwnerInv, CurrentChannel, Channels
  <1>3. \A id \in addressed : sends[id][ch] = 0
    BY <1>1, <1>2 DEF SendInv, SendAt, Unsent
  <1>4. \A id \in addressed : rows[id] \in {"pending", "gone"}
    BY <1>1, <1>2 DEF OpenInv
  <1> HIDE DEF ch, addressed
  <1>5. sends' \in [Ids -> [Channels -> Nat]]
    BY <1>1, <1>2 DEF TypeOK
  <1>6. \A id \in Ids : \/ sends'[id] = sends[id]
                        \/ /\ rows[id] \in {"pending", "gone"}
                           /\ sends[id][ch] = 0
                           /\ sends'[id] = [sends[id] EXCEPT ![ch] = 1]
    <2> TAKE id \in Ids
    <2>1. CASE id \in addressed
      <3>1. sends'[id] = [sends[id] EXCEPT ![ch] = sends[id][ch] + 1]
        BY <1>1, <2>1
      <3>2. sends[id][ch] = 0
        BY <1>3, <2>1
      <3>3. sends[id][ch] + 1 = 1
        BY <3>2
      <3> QED
        BY <1>4, <2>1, <3>1, <3>2, <3>3
    <2>2. CASE id \notin addressed
      BY <1>1, <2>2
    <2> QED
      BY <2>1, <2>2
  <1>7. Ledger!Announce(ch)
    BY <1>1, <1>5, <1>6 DEF Ledger!Announce
  <1> QED
    BY <1>2, <1>7

\* The status update settles a pending alert; of a removed one there is no row.
LEMMA LedgerSettle ==
  ASSUME IInv, TruthInv, NEW c \in Collectors, UpdateNotifyStatus(c)
  PROVE  UNCHANGED <<rows, sends>> \/ \E a \in Ids : Ledger!Settle(a)
  <1> USE DEF IInv
  <1>1. PICK id \in left[c] :
          rows' = [rows EXCEPT ![id] =
                     IF @ = "gone" THEN "gone"
                     ELSE IF pc[c] = "skip" THEN "skipped"
                     ELSE IF id \in failed[c] THEN "failed" ELSE "sent"]
    BY DEF UpdateNotifyStatus
  <1>2. pc[c] \in {"status", "skip"} /\ UNCHANGED sends
    BY DEF UpdateNotifyStatus
  <1>3. id \in mine[c] /\ id \in Ids
    BY DEF OwnerInv, TypeOK
  <1>4. rows[id] \in {"pending", "gone"}
    BY <1>3 DEF OpenInv
  <1>5. CASE rows[id] = "gone"
    BY <1>1, <1>2, <1>3, <1>5 DEF TypeOK
  <1>6. CASE rows[id] = "pending"
    <2> DEFINE st == IF pc[c] = "skip" THEN "skipped"
                     ELSE IF id \in failed[c] THEN "failed" ELSE "sent"
    <2>1. rows' = [rows EXCEPT ![id] = st] /\ st \in Ledger!Settled
      BY <1>1, <1>3, <1>6 DEF TypeOK, Ledger!Settled
    <2>2. st = "skipped" <=> pc[c] = "skip"
      OBVIOUS
    <2>3. pc[c] = "skip" => ~Ledger!SomebodyAsked(id)
      BY <1>3 DEF SendInv, SendAt, Unsent, Ledger!SomebodyAsked
    <2>4. pc[c] = "status" => Ledger!SomebodyAsked(id)
      BY <1>3 DEF TruthInv, TruthAt, Asked, Ledger!SomebodyAsked
    <2> HIDE DEF st
    <2>5. (st = "skipped") = ~Ledger!SomebodyAsked(id)
      BY <1>2, <2>2, <2>3, <2>4 DEF Ledger!SomebodyAsked
    <2>6. Ledger!Settle(id)
      BY <1>2, <1>6, <2>1, <2>5 DEF Ledger!Settle
    <2> QED
      BY <1>3, <2>6
  <1> QED
    BY <1>4, <1>5, <1>6

\* Every step of the pipeline is a step of the ledger or leaves it alone.
LEMMA LedgerStep ==
  IInv /\ TruthInv /\ [Next]_vars => [Ledger!Next]_(Ledger!ledger)
  <1> SUFFICES ASSUME IInv, TruthInv, [Next]_vars
               PROVE  UNCHANGED <<rows, sends>> \/ Ledger!Next
    BY DEF Ledger!ledger
  <1>1. CASE UNCHANGED vars
    BY <1>1 DEF vars
  <1>2. CASE Crash \/ \E c \in Collectors : Abort(c)
    BY <1>2 DEF Crash, Abort, dbVars
  <1>3. CASE Environment
    <2>1. CASE DeleteExpired
      BY <2>1, LedgerDelete DEF Ledger!Next
    <2>2. DeleteExpired \/ UNCHANGED <<dbVars, sends>>
      BY <1>3 DEF Environment, AdvanceClock, VnstatWrites, ChangeRules, ToggleChannel
    <2> QED
      BY <2>1, <2>2 DEF dbVars
  <1>4. ASSUME NEW c \in Collectors, Collect(c)
        PROVE  UNCHANGED <<rows, sends>> \/ Ledger!Next
    <2>1. CASE CreateIfAbsent(c)
      <3>1. UNCHANGED sends
        BY <2>1 DEF CreateIfAbsent
      <3>2. \/ UNCHANGED rows
            \/ \E id \in Ids : rows[id] = "none" /\ rows' = [rows EXCEPT ![id] = "pending"]
        BY <2>1 DEF CreateIfAbsent, NextRow
      <3> QED
        BY <3>1, <3>2 DEF Ledger!Next, Ledger!Raise
    <2>2. CASE Send(c)
      BY <2>2, LedgerSend DEF Ledger!Next
    <2>3. CASE UpdateNotifyStatus(c)
      BY <2>3, LedgerSettle DEF Ledger!Next
    <2>4. CASE ReadVnstat(c) \/ UpsertSamples(c) \/ ListRules(c) \/ ListChannels(c)
               \/ CreateDelivery(c)
      BY <2>4 DEF ReadVnstat, UpsertSamples, ListRules, ListChannels, CreateDelivery, dbVars
    <2> QED
      BY <1>4, <2>1, <2>2, <2>3, <2>4 DEF Collect
  <1> QED
    BY <1>1, <1>2, <1>3, <1>4 DEF Next

\* The pipeline implements the ledger: an alert is raised once, announced at
\* most once per channel and only before it is settled, settled once and
\* truthfully, whatever the collections, failures, crashes and cleanups.
THEOREM PipelineKeepsLedger == Spec => KeepsLedger
  BY LedgerInit, LedgerStep, PipelineTruth, PTL DEF Spec, KeepsLedger, Ledger!Spec

-----------------------------------------------------------------------------
(***************************************************************************)
(* Alerts are raised when periods are over. isCompletedAlertPeriod compares *)
(* a bucket of the machine's calendar with the server's UTC calendar, so   *)
(* the days of a machine ahead of UTC end later than the server believes.  *)
(***************************************************************************)

\* How many hours before the end of a machine's day the server may take it for
\* completed: none on UTC.
Lead(p) == IF p = "hourly" \/ Offset = 0 THEN 0 ELSE HoursPerDay - Offset

\* The period of an alert key, or of an alert, is over, or nearly.
Over(k, t) == k[3] + HoursIn(k[1]) <= t + Lead(k[1])

\* A reading holds starts of its own periods: a daily bucket is a midnight.
Aligned(p, b) == \E t \in HoursPerDay..MaxTime : b = HostStart(p, t)
AlignedReading(r) == \A p \in Periods : Aligned(p, r[p].bucket)

PeriodInv ==
  /\ AlignedReading(latest)
  /\ \A c \in Collectors : batch[c] # None => AlignedReading(batch[c])
  /\ \A c \in Collectors : \A k \in todo[c] : Over(k, now)
  /\ \A id \in Ids : rows[id] \in Live => Over(id, now)

\* Hours of a day, counted in whole days from the machine's midnight or UTC's.
LEMMA DayStart ==
  ASSUME NEW s \in Nat, NEW h \in Nat \ {0}
  PROVE  \E q \in Nat : s - (s % h) = h * q /\ h * q <= s
  <1>1. s \div h \in Nat /\ s = h * (s \div h) + (s % h) /\ s % h \in 0..(h - 1)
    BY Z3
  <1>2. h * (s \div h) \in Nat
    BY <1>1
  <1>3. PICK q \in Nat : q = s \div h
    BY <1>1
  <1>4. s - (s % h) = h * q /\ h * q <= s
    BY <1>1, <1>2, <1>3
  <1> QED
    BY <1>4

\* Whole multiples keep the order of their factors.
LEMMA Multiples ==
  ASSUME NEW h \in Nat \ {0}, NEW q \in Nat, NEW k \in Nat
  PROVE  /\ h * q \in Nat /\ h * k \in Nat
         /\ h * q < h * k => h * q + h <= h * k
         /\ h * q < h * k + h => h * q <= h * k
  <1>1. h * q \in Nat /\ h * k \in Nat
    OBVIOUS
  <1>2. ASSUME q <= k PROVE h * q <= h * k
    BY <1>2, Z3
  <1>3. ASSUME q + 1 <= k PROVE h * q + h <= h * k
    <2>1. h * (q + 1) <= h * k
      BY <1>3, Z3
    <2>2. h * (q + 1) = h * q + h
      BY Z3
    <2> QED
      BY <2>1, <2>2
  <1>4. ASSUME k + 1 <= q PROVE h * k + h <= h * q
    <2>1. h * (k + 1) <= h * q
      BY <1>4, Z3
    <2>2. h * (k + 1) = h * k + h
      BY Z3
    <2> QED
      BY <2>1, <2>2
  <1>5. q + 1 <= k \/ k <= q
    OBVIOUS
  <1>6. k <= q => h * k <= h * q
    BY Z3
  <1>7. q <= k \/ k + 1 <= q
    OBVIOUS
  <1> QED
    BY <1>1, <1>2, <1>3, <1>4, <1>5, <1>6, <1>7

\* What isCompletedAlertPeriod accepts is over on the machine, but for the
\* lead of its calendar.
LEMMA CompletedIsOver ==
  ASSUME NEW p \in Periods, NEW b, NEW t \in Nat,
         Aligned(p, b), isCompletedAlertPeriod(p, b, t)
  PROVE  b + HoursIn(p) <= t + Lead(p)
  <1> USE PipelineAssumption DEF PipelineAssumption
  <1>1. PICK s \in HoursPerDay..MaxTime : b = HostStart(p, s)
    BY DEF Aligned
  <1>2. CASE p = "hourly"
    <2>1. \A x \in Nat : x % 1 = 0
      BY Z3
    <2>2. s \in Nat /\ s + Offset \in Nat
      OBVIOUS
    <2>3. b = s /\ b < t
      BY <1>1, <1>2, <2>1, <2>2 DEF HostStart, HoursIn, isCompletedAlertPeriod, UTCStart
    <2> QED
      BY <1>2, <2>2, <2>3 DEF HoursIn, Lead
  <1>3. CASE p = "daily"
    <2> DEFINE h == HoursPerDay
    <2>1. h \in Nat \ {0} /\ Offset \in 0..(h - 1) /\ s \in Nat /\ HoursIn(p) = h
      BY <1>3 DEF HoursIn
    <2> HIDE DEF h
    <2>2. PICK q \in Nat : (s + Offset) - ((s + Offset) % h) = h * q
      <3>1. PICK u \in Nat : u = s + Offset
        BY <2>1
      <3>2. \E q \in Nat : u - (u % h) = h * q
        BY <2>1, DayStart
      <3> QED
        BY <3>1, <3>2
    <2>3. PICK k \in Nat : t - (t % h) = h * k /\ h * k <= t
      BY <2>1, DayStart
    <2>4. h * q \in Nat /\ h * k \in Nat
      BY <2>1, Multiples
    <2>5. b = h * q - Offset
      <3>1. (s + Offset) % h \in Nat
        BY <2>1
      <3> QED
        BY <1>1, <2>1, <2>2, <2>4, <3>1 DEF HostStart
    <2>6. h * q - Offset < h * k
      BY <2>1, <2>3, <2>5 DEF isCompletedAlertPeriod, UTCStart
    <2>7. CASE Offset = 0
      <3>1. h * q + h <= h * k
        BY <2>1, <2>4, <2>6, <2>7, Multiples
      <3> QED
        BY <2>1, <2>3, <2>4, <2>5, <2>7, <3>1 DEF Lead
    <2>8. CASE Offset # 0
      <3>1. h * q <= h * k
        <4>1. h * q < h * k + h
          BY <2>1, <2>4, <2>6
        <4> QED
          BY <2>1, <4>1, Multiples
      <3>2. Lead(p) = h - Offset
        BY <1>3, <2>8 DEF Lead, h
      <3> QED
        BY <2>1, <2>3, <2>4, <2>5, <3>1, <3>2
    <2> QED
      BY <2>7, <2>8
  <1> QED
    BY <1>2, <1>3

\* No reading yet, no alert yet.
LEMMA PeriodInit == Init => PeriodInv
  <1> SUFFICES ASSUME Init PROVE PeriodInv
    OBVIOUS
  <1> USE PipelineAssumption DEF PipelineAssumption
  <1>1. now \in HoursPerDay..MaxTime /\ AlignedReading(latest)
    BY DEF Init, AlignedReading, Aligned
  <1> QED
    BY <1>1 DEF Init, PeriodInv, Live

\* The clock only makes more periods finished.
LEMMA OverLater ==
  ASSUME NEW k \in Keys \cup Ids, NEW t \in Nat, NEW u \in Nat, t <= u, Over(k, t)
  PROVE  Over(k, u)
  <1> USE PipelineAssumption DEF PipelineAssumption
  <1>1. k[3] \in Buckets
    BY DEF Keys, Ids
  <1>2. k[3] \in Nat
    <2>1. PICK p \in Periods, s \in HoursPerDay..MaxTime : k[3] = HostStart(p, s)
      BY <1>1 DEF Buckets
    <2>2. HoursIn(p) \in Nat \ {0} /\ s \in Nat /\ s + Offset \in Nat
      BY DEF HoursIn
    <2>3. (s + Offset) % HoursIn(p) \in 0..(HoursIn(p) - 1) /\ HoursIn(p) <= s
      BY <2>2 DEF HoursIn
    <2> QED
      BY <2>1, <2>2, <2>3 DEF HostStart
  <1>3. HoursIn(k[1]) \in Nat /\ Lead(k[1]) \in Nat
    BY DEF HoursIn, Lead
  <1> QED
    BY <1>2, <1>3 DEF Over

\* A step that lets time pass or not, reads nothing and inserts no alert.
LEMMA PeriodFrame ==
  ASSUME TypeOK, PeriodInv, now' \in Nat, now <= now', AlignedReading(latest'),
         \A c \in Collectors : batch'[c] # None => AlignedReading(batch'[c]),
         \A c \in Collectors : todo'[c] \subseteq todo[c],
         \A id \in Ids : rows'[id] \in Live => rows[id] \in Live
  PROVE  PeriodInv'
  <1>1. now \in Nat
    BY PipelineAssumption DEF TypeOK, PipelineAssumption
  <1>2. ASSUME NEW c \in Collectors, NEW k \in todo'[c] PROVE Over(k, now')
    BY <1>1, <1>2, OverLater DEF PeriodInv, TypeOK
  <1>3. ASSUME NEW id \in Ids, rows'[id] \in Live PROVE Over(id, now')
    BY <1>1, <1>3, OverLater DEF PeriodInv
  <1> QED
    BY <1>2, <1>3 DEF PeriodInv, AlignedReading, Aligned, Over

\* The environment: the clock, vnstat, the administrators and the cleanup.
LEMMA PeriodEnvironment == ASSUME TypeOK, PeriodInv, Environment PROVE PeriodInv'
  <1> USE PipelineAssumption DEF PipelineAssumption
  <1>1. now \in Nat /\ now' \in Nat /\ now <= now'
    BY DEF TypeOK, Environment, AdvanceClock, VnstatWrites, ChangeRules, ToggleChannel,
           DeleteExpired, envVars
  <1>2. UNCHANGED <<batch, todo>>
    BY DEF Environment, AdvanceClock, VnstatWrites, ChangeRules, ToggleChannel,
           DeleteExpired, localVars
  <1>3. AlignedReading(latest')
    <2>1. CASE \E p \in Periods : VnstatWrites(p)
      <3>1. PICK p \in Periods, a \in Amounts :
              latest' = [latest EXCEPT ![p] = [bucket |-> HostStart(p, now), amount |-> a]]
        BY <2>1 DEF VnstatWrites
      <3>2. ASSUME NEW q \in Periods PROVE Aligned(q, latest'[q].bucket)
        <4>1. CASE q = p
          <5>1. latest'[q].bucket = HostStart(p, now)
            BY <3>1, <4>1 DEF TypeOK, Batches
          <5> QED
            BY <4>1, <5>1 DEF TypeOK, Aligned
        <4>2. CASE q # p
          BY <3>1, <4>2 DEF TypeOK, Batches, PeriodInv, AlignedReading
        <4> QED
          BY <4>1, <4>2
      <3> QED
        BY <3>2 DEF AlignedReading
    <2>2. CASE ~\E p \in Periods : VnstatWrites(p)
      BY <2>2 DEF Environment, AdvanceClock, ChangeRules, ToggleChannel, DeleteExpired,
                  envVars, PeriodInv
    <2> QED
      BY <2>1, <2>2
  <1>4. ASSUME NEW id \in Ids, rows'[id] \in Live PROVE rows[id] \in Live
    <2>1. CASE DeleteExpired
      BY <1>4, <2>1 DEF DeleteExpired, Live
    <2>2. CASE ~DeleteExpired
      BY <1>4, <2>2 DEF Environment, AdvanceClock, VnstatWrites, ChangeRules, ToggleChannel, dbVars
    <2> QED
      BY <2>1, <2>2
  <1> QED
    BY <1>1, <1>2, <1>3, <1>4, PeriodFrame DEF PeriodInv

\* A collection that ends, in whichever way, holds nothing.
LEMMA PeriodReturn ==
  ASSUME TypeOK, PeriodInv, NEW c \in Collectors, Return(c), UNCHANGED envVars,
         \A id \in Ids : rows'[id] \in Live => rows[id] \in Live
  PROVE  PeriodInv'
  <1>1. now' \in Nat /\ now <= now' /\ AlignedReading(latest')
    BY PipelineAssumption DEF TypeOK, PeriodInv, envVars, PipelineAssumption
  <1>2. \A d \in Collectors : batch'[d] # None => AlignedReading(batch'[d])
    BY DEF Return, TypeOK, PeriodInv
  <1>3. \A d \in Collectors : todo'[d] \subseteq todo[d]
    BY DEF Return, TypeOK
  <1> QED
    BY <1>1, <1>2, <1>3, PeriodFrame

\* ListRules lets through only completed periods.
LEMMA PeriodListRules ==
  ASSUME TypeOK, PeriodInv, NEW c \in Collectors, ListRules(c)
  PROVE  PeriodInv'
  <1> DEFINE over == OverLimit(batch[c], rules, now)
  <1>1. UNCHANGED <<envVars, rows>> /\ now \in Nat
    BY PipelineAssumption DEF ListRules, dbVars, TypeOK, PipelineAssumption
  <1>2. CASE Return(c)
    BY <1>1, <1>2, PeriodReturn
  <1>3. CASE /\ todo' = [todo EXCEPT ![c] = over]
             /\ batch' = [batch EXCEPT ![c] = None]
    <2>1. AlignedReading(batch[c])
      BY DEF TypeOK, PeriodInv, ListRules
    <2>2. ASSUME NEW k \in over PROVE Over(k, now)
      <3>1. /\ k[1] \in Periods /\ k[3] = batch[c][k[1]].bucket
            /\ isCompletedAlertPeriod(k[1], k[3], now)
        BY DEF OverLimit, Keys
      <3>2. Aligned(k[1], k[3])
        BY <2>1, <3>1 DEF AlignedReading
      <3> QED
        BY <1>1, <3>1, <3>2, CompletedIsOver DEF Over
    <2> HIDE DEF over
    <2>3. \A d \in Collectors : \A k \in todo'[d] : Over(k, now)
      BY <1>3, <2>2 DEF TypeOK, PeriodInv
    <2>4. \A d \in Collectors : batch'[d] # None => AlignedReading(batch'[d])
      BY <1>3 DEF TypeOK, PeriodInv
    <2> QED
      BY <1>1, <2>3, <2>4 DEF PeriodInv, envVars, AlignedReading, Aligned, Over
  <1> QED
    BY <1>2, <1>3 DEF ListRules

\* CreateIfAbsent inserts an alert for a key that ListRules let through.
LEMMA PeriodCreate ==
  ASSUME TypeOK, PeriodInv, NEW c \in Collectors, CreateIfAbsent(c)
  PROVE  PeriodInv'
  <1>1. PICK k \in todo[c] :
          /\ todo' = [todo EXCEPT ![c] = @ \ {k}]
          /\ \/ UNCHANGED rows
             \/ \E id \in Ids : KeyOf(id) = k /\ rows' = [rows EXCEPT ![id] = "pending"]
    BY DEF CreateIfAbsent
  <1>2. UNCHANGED <<envVars, batch>>
    BY DEF CreateIfAbsent
  <1>3. \A d \in Collectors : \A l \in todo'[d] : Over(l, now)
    BY <1>1 DEF PeriodInv, TypeOK
  <1>4. ASSUME NEW id \in Ids, KeyOf(id) = k PROVE Over(id, now)
    BY <1>4, Zenon DEF PeriodInv, KeyOf, Over
  <1>5. \A id \in Ids : rows'[id] \in Live => Over(id, now)
    BY <1>1, <1>4 DEF PeriodInv, TypeOK
  <1> QED
    BY <1>2, <1>3, <1>5 DEF PeriodInv, envVars, AlignedReading, Aligned, Over

\* Every step.
LEMMA PeriodStep == IInv /\ PeriodInv /\ [Next]_vars => PeriodInv'
  <1> SUFFICES ASSUME TypeOK, IInv, PeriodInv, [Next]_vars PROVE PeriodInv'
    BY DEF IInv
  <1>1. CASE Environment
    BY <1>1, PeriodEnvironment
  <1>2. ASSUME NEW c \in Collectors, Collect(c) PROVE PeriodInv'
    <2>1. CASE ReadVnstat(c)
      <3>1. \A d \in Collectors : batch'[d] # None => AlignedReading(batch'[d])
        BY <2>1 DEF ReadVnstat, TypeOK, PeriodInv
      <3> QED
        BY <2>1, <3>1 DEF ReadVnstat, PeriodInv, envVars, dbVars, AlignedReading, Aligned, Over
    <2>2. CASE UpsertSamples(c) \/ ListChannels(c) \/ Send(c) \/ CreateDelivery(c)
      BY <2>2 DEF UpsertSamples, ListChannels, Send, CreateDelivery, PeriodInv, envVars,
                  dbVars, AlignedReading, Aligned, Over
    <2>3. CASE ListRules(c)
      BY <2>3, PeriodListRules
    <2>4. CASE CreateIfAbsent(c)
      BY <2>4, PeriodCreate
    <2>5. CASE UpdateNotifyStatus(c)
      <3>1. PICK id \in left[c] :
              /\ rows[id] \in {"pending", "gone"}
              /\ \E st \in RowStates : rows' = [rows EXCEPT ![id] = st] /\ (rows[id] = "gone" => st = "gone")
        BY <2>5, UpdateNotifyStatusFrame DEF IInv, UpdateNotifyStatus, RowStates, Live
      <3>2. \A j \in Ids : rows'[j] \in Live => rows[j] \in Live
        BY <3>1 DEF TypeOK, Live
      <3>3. UNCHANGED envVars
        BY <2>5 DEF UpdateNotifyStatus
      <3>4. CASE Return(c)
        BY <3>2, <3>3, <3>4, PeriodReturn
      <3>5. CASE UNCHANGED <<batch, todo>>
        BY <3>2, <3>3, <3>5 DEF PeriodInv, envVars, AlignedReading, Aligned, Over
      <3> QED
        BY <2>5, <3>4, <3>5 DEF UpdateNotifyStatus
    <2> QED
      BY <1>2, <2>1, <2>2, <2>3, <2>4, <2>5 DEF Collect
  <1>3. ASSUME NEW c \in Collectors, Abort(c) PROVE PeriodInv'
    BY <1>3, PeriodReturn DEF Abort, dbVars
  <1>4. CASE Crash
    BY <1>4 DEF Crash, PeriodInv, envVars, dbVars, AlignedReading, Aligned, Over
  <1>5. CASE UNCHANGED vars
    BY <1>5 DEF vars, PeriodInv, AlignedReading, Aligned, Over
  <1> QED
    BY <1>1, <1>2, <1>3, <1>4, <1>5 DEF Next

\* On a machine whose zone is a whole number of hours from UTC and whose vnstat
\* entries carry a timestamp, evaluateSample raises no alert earlier than
\* HoursPerDay - Offset hours before the end of the machine's day, and none
\* before the end of its hour (alert_service.go:899).
THEOREM PipelineAlertsWithinLead ==
  Spec => [](\A id \in Ids : rows[id] \in Live => Over(id, now))
  <1>1. PeriodInv => \A id \in Ids : rows[id] \in Live => Over(id, now)
    BY DEF PeriodInv
  <1> QED
    BY <1>1, PeriodInit, PeriodStep, PipelineInvariant, PTL DEF Spec

\* For a machine whose days are UTC days, alerts are raised for finished
\* periods only: isCompletedAlertPeriod keeps the running one out.
THEOREM PipelineFinishedPeriodsOnly ==
  ASSUME Offset = 0
  PROVE  Spec => []AlertsOnlyForFinishedPeriods
  <1>1. TypeOK /\ PeriodInv => AlertsOnlyForFinishedPeriods
    <2> SUFFICES ASSUME TypeOK, PeriodInv, NEW id \in Ids, rows[id] \in Live
                 PROVE  BucketOf(id) + HoursIn(id[1]) <= now
      BY DEF AlertsOnlyForFinishedPeriods
    <2>1. Over(id, now)
      BY DEF PeriodInv
    <2>2. Lead(id[1]) = 0 /\ now \in Nat
      BY PipelineAssumption DEF Lead, TypeOK, PipelineAssumption
    <2> QED
      BY <2>1, <2>2 DEF Over, BucketOf
  <1>2. IInv => TypeOK
    BY DEF IInv
  <1> QED
    BY <1>1, <1>2, PeriodInit, PeriodStep, PipelineInvariant, PTL DEF Spec

=============================================================================
