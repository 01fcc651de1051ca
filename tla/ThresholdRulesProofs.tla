------------------------- MODULE ThresholdRulesProofs -------------------------
(***************************************************************************)
(* Proofs about ThresholdRules for any rules, requests, machines, loads    *)
(* and unit size. One layer of invariants rests on the next: types, what a *)
(* read has seen, what the form shows, what a save has written.            *)
(***************************************************************************)
EXTENDS ThresholdRules, TLAPS

-----------------------------------------------------------------------------
(* The invariants *)

\* What the write transaction gets has passed buildMachineRules.
PutValid == \A w \in Writers : put[w].pc = "replace" => ValidMachine(put[w].req)

Typed == TypeOK /\ PutValid

\* Only ids that were given out have rules or are about to get some.
GivenIds ==
  /\ NewMachineInherits
  /\ \A w \in Writers : put[w].pc = "replace" => put[w].id < nextId

\* Statements of a read that are still to be made.
Active == {"machine", "global", "own"}
Effect(g, m) == [d \in Dims |-> InForce(g, m, d)]

\* What a read has seen: the rules in force now are among those it held, and
\* between its two statements at most one write mixes nothing up.
Seen(l) ==
  /\ read[l].pc \in Active => Effect(global, own[read[l].id]) \in read[l].held
  /\ read[l].pc = "own" /\ read[l].writes = 0 => read[l].global = global
  /\ read[l].pc = "own" /\ read[l].writes <= 1 =>
       Effect(read[l].global, own[read[l].id]) \in read[l].held
  /\ read[l].pc = "answer" =>
       /\ read[l].answer = mergeEffectiveRules(read[l].global, read[l].own)
       /\ read[l].writes <= 1 => Effect(read[l].global, read[l].own) \in read[l].held
SeenInv == \A l \in Loads : Seen(l)

\* Rows that were not edited show a machine's rules merged with some global ones.
Shown == \E g \in Tables : \A d \in Dims \ edited : form[d] = mergeEffectiveRules(g, basis.own)[d]

\* The request of the console holds rows that are in the form, but for edits.
Holds(rows) ==
  /\ put["console"].req = Submitted(rows)
  /\ \A d \in Dims \ edited : rows[d] = form[d]

\* As long as the administrator waits for answers: what is awaited is for the
\* selected machine, nothing is awaited while a save is under way, and the
\* form and the save are those of the selected machine.
Patient ==
  /\ \A l \in Awaited : read[l].pc \in Active \cup {"answer"} => read[l].id = sel
  /\ sel # Absent /\ Awaited = {} => basis.id = sel
  /\ put["console"].pc \in {"check", "replace", "refused", "done"} => Awaited = {}
  /\ put["console"].pc # "idle" => put["console"].id = sel
  /\ put["console"].pc \in {"check", "replace"} => \E rows \in [Dims -> FormRows] : Holds(rows)

FormInv == Shown /\ (~hasty => Patient)

\* The row a payload asks for.
RowOf(p) ==
  IF p.strategy = "inherit" THEN Absent
  ELSE [mb |-> normalizeThresholdMB(p.value, p.unit), enabled |-> p.strategy = "override"]
Written(req, rules) ==
  \A p \in req : rules[p.dim] = RowOf(p) /\ (p.strategy # "inherit" => RowOf(p) \in Rules)

\* What the console has sent are rows of a form.
Sent == put["console"].pc # "idle" =>
          \E rows \in [Dims -> FormRows] : put["console"].req = Submitted(rows)

\* Unless the tables were written again they hold what a save has written.
Kept == put["console"].pc \in {"done", "reload"} =>
          /\ put["console"].at <= saves
          /\ saves = put["console"].at => Written(put["console"].req, own[put["console"].id])

\* A load after a save is for the machine that was saved.
Follows(l) == read[l].by = "save" =>
  /\ put["console"].pc = "reload"
  /\ read[l].pc \in Active \cup {"answer"} => read[l].id = put["console"].id
  /\ read[l].pc = "answer" /\ saves = put["console"].at => read[l].own = own[put["console"].id]
OneSave == \A l, m \in Loads : read[l].by = "save" /\ read[m].by = "save" => l = m

SaveInv == Sent /\ Kept /\ (\A l \in Loads : Follows(l)) /\ OneSave

-----------------------------------------------------------------------------
(* Thresholds and rows *)

\* normalizeThresholdMB yields megabytes.
LEMMA NormType ==
  ASSUME NEW v \in Nat, NEW u
  PROVE  normalizeThresholdMB(v, u) \in Nat
  BY ThresholdAssumption DEF normalizeThresholdMB

\* displayThresholdValue and normalizeThresholdMB are inverse: what is shown of
\* a threshold, sent back, is the threshold.
LEMMA DisplayRoundTrip ==
  ASSUME NEW mb \in Nat
  PROVE  /\ DisplayValue(mb) \in Nat /\ DisplayUnit(mb) \in Units
         /\ normalizeThresholdMB(DisplayValue(mb), DisplayUnit(mb)) = mb
  <1>1. GB \in Nat \ {0}
    BY ThresholdAssumption
  <1>2. mb \div GB \in Nat /\ (mb % GB = 0 => (mb \div GB) * GB = mb)
    BY <1>1, Z3
  <1>3. CASE mb % GB = 0
    BY <1>2, <1>3 DEF DisplayValue, DisplayUnit, Units, normalizeThresholdMB
  <1>4. CASE mb % GB # 0
    BY <1>4 DEF DisplayValue, DisplayUnit, Units, normalizeThresholdMB
  <1> QED
    BY <1>3, <1>4

\* A row of a table.
LEMMA TableRow ==
  ASSUME NEW t \in Tables, NEW d \in Dims
  PROVE  /\ t[d] \in Rules \cup {Absent}
         /\ t[d] # Absent => t[d].mb \in Nat /\ t[d].mb > 0 /\ t[d].enabled \in BOOLEAN
  BY DEF Tables, Rules

\* A row of the answer carries the rule's threshold.
LEMMA RowFacts ==
  ASSUME NEW rule \in Rules, NEW s \in Strategies
  PROVE  LET row == ThresholdRow(rule, s)
         IN /\ row \in FormRows
            /\ row.enabled = rule.enabled /\ row.strategy = s
            /\ normalizeThresholdMB(row.value, row.unit) = rule.mb
  <1>1. rule.mb \in Nat /\ rule.enabled \in BOOLEAN
    BY DEF Rules
  <1> QED
    BY <1>1, DisplayRoundTrip DEF ThresholdRow, FormRows

\* mergeEffectiveRules yields rows of the form.
LEMMA MergeType ==
  ASSUME NEW g \in Tables, NEW m \in Tables
  PROVE  mergeEffectiveRules(g, m) \in [Dims -> FormRows]
  <1>1. ASSUME NEW d \in Dims PROVE mergeEffectiveRules(g, m)[d] \in FormRows
    <2>1. g[d] \in Rules \cup {Absent} /\ m[d] \in Rules \cup {Absent}
      BY TableRow
    <2>2. CASE m[d] # Absent
      <3>1. PICK s \in Strategies : mergeEffectiveRules(g, m)[d] = ThresholdRow(m[d], s)
        BY <2>2 DEF mergeEffectiveRules, Strategies
      <3> QED
        BY <2>1, <2>2, <3>1, RowFacts
    <2>3. CASE m[d] = Absent /\ g[d] # Absent
      <3>1. mergeEffectiveRules(g, m)[d] = ThresholdRow(g[d], "inherit")
        BY <2>3 DEF mergeEffectiveRules
      <3> QED
        BY <2>1, <2>3, <3>1, RowFacts DEF Strategies
    <2>4. CASE m[d] = Absent /\ g[d] = Absent
      BY <2>4 DEF mergeEffectiveRules, EmptyRows, FormRows, Units, Strategies
    <2> QED
      BY <2>2, <2>3, <2>4
  <1> QED
    BY <1>1 DEF mergeEffectiveRules

\* The answer of ListEffectiveMachineRules makes the evaluation compare with
\* the thresholds in force, disabled rows and missing ones included.
LEMMA MergeWatches ==
  ASSUME NEW g \in Tables, NEW m \in Tables, NEW d \in Dims
  PROVE  /\ InForce(g, m, d) \in Nat \cup {Absent}
         /\ Watched(mergeEffectiveRules(g, m)[d]) = InForce(g, m, d)
  <1>1. /\ g[d] \in Rules \cup {Absent} /\ m[d] \in Rules \cup {Absent}
        /\ g[d] # Absent => g[d].mb \in Nat
        /\ m[d] # Absent => m[d].mb \in Nat
    BY TableRow
  <1>2. InForce(g, m, d) \in Nat \cup {Absent}
    BY <1>1 DEF InForce
  <1>3. CASE m[d] # Absent
    <2>1. PICK s \in Strategies : mergeEffectiveRules(g, m)[d] = ThresholdRow(m[d], s)
      BY <1>3 DEF mergeEffectiveRules, Strategies
    <2>2. Watched(ThresholdRow(m[d], s)) = IF m[d].enabled THEN m[d].mb ELSE Absent
      BY <1>1, <1>3, RowFacts DEF Watched
    <2> QED
      BY <1>2, <1>3, <2>1, <2>2 DEF InForce
  <1>4. CASE m[d] = Absent /\ g[d] # Absent
    <2>1. mergeEffectiveRules(g, m)[d] = ThresholdRow(g[d], "inherit")
      BY <1>4 DEF mergeEffectiveRules
    <2>2. Watched(ThresholdRow(g[d], "inherit")) = IF g[d].enabled THEN g[d].mb ELSE Absent
      BY <1>1, <1>4, RowFacts DEF Watched, Strategies
    <2> QED
      BY <1>2, <1>4, <2>1, <2>2 DEF InForce
  <1>5. CASE m[d] = Absent /\ g[d] = Absent
    BY <1>2, <1>5 DEF mergeEffectiveRules, EmptyRows, Watched, InForce
  <1> QED
    BY <1>3, <1>4, <1>5

LEMMA EffectType ==
  ASSUME NEW g \in Tables, NEW m \in Tables
  PROVE  Effect(g, m) \in [Dims -> Nat \cup {Absent}]
  BY MergeWatches DEF Effect

\* The rows a valid request writes.
LEMMA AfterType ==
  ASSUME NEW req \in SUBSET Payloads, NEW d \in Dims, NEW old \in Rules \cup {Absent}
  PROVE  /\ ValidGlobal(req) => GlobalAfter(d, req, old) \in Rules \cup {Absent}
         /\ ValidMachine(req) => OwnAfter(d, req, old) \in Rules \cup {Absent}
  <1>1. ASSUME NEW p \in req
        PROVE  normalizeThresholdMB(p.value, p.unit) \in Nat /\ p.enabled \in BOOLEAN
    BY <1>1, NormType DEF Payloads
  <1>2. ASSUME ValidGlobal(req) PROVE GlobalAfter(d, req, old) \in Rules \cup {Absent}
    <2> DEFINE S == { p \in req : p.dim = d }
               q == CHOOSE p \in S : TRUE
    <2>1. CASE S = {}
      BY <2>1 DEF GlobalAfter
    <2>2. CASE S # {}
      <3>1. q \in S
        BY <2>2
      <3> HIDE DEF q
      <3>2. normalizeThresholdMB(q.value, q.unit) \in Nat \ {0} /\ q.enabled \in BOOLEAN
        BY <1>1, <1>2, <3>1 DEF ValidGlobal
      <3>3. GlobalAfter(d, req, old) =
              [mb |-> normalizeThresholdMB(q.value, q.unit), enabled |-> q.enabled]
        BY <2>2 DEF GlobalAfter, q
      <3> QED
        BY <3>2, <3>3 DEF Rules
    <2> QED
      BY <2>1, <2>2
  <1>3. ASSUME ValidMachine(req) PROVE OwnAfter(d, req, old) \in Rules \cup {Absent}
    <2> DEFINE S == { p \in Explicit(req) : p.dim = d }
               q == CHOOSE p \in S : TRUE
    <2>1. CASE S = {}
      BY <2>1 DEF OwnAfter
    <2>2. CASE S # {}
      <3>1. q \in S
        BY <2>2
      <3> HIDE DEF q
      <3>2. normalizeThresholdMB(q.value, q.unit) \in Nat \ {0}
        BY <1>1, <1>3, <3>1 DEF ValidMachine, Explicit
      <3>3. OwnAfter(d, req, old) =
              [mb |-> normalizeThresholdMB(q.value, q.unit),
               enabled |-> normalizeMachineThresholdStrategy(q) = "override"]
        BY <2>2 DEF OwnAfter, q
      <3> QED
        BY <3>2, <3>3 DEF Rules
    <2> QED
      BY <2>1, <2>2
  <1> QED
    BY <1>2, <1>3

-----------------------------------------------------------------------------
(* What a step does to the reads *)

Started(who, i) ==
  [NoRead EXCEPT !.by = who, !.pc = "machine", !.id = i,
     !.held = { [d \in Dims |-> InForce(global, own[i], d)] }]

\* A read begins, ends, fails, or makes its next statement.
ReadMove(l, r) ==
  \/ r = NoRead
  \/ read[l].pc \in Active /\ r = Failed(l)
  \/ read[l].pc = "idle" /\ \E who \in Readers, i \in Ids : r = Started(who, i)
  \/ read[l].pc = "machine" /\ r = [read[l] EXCEPT !.pc = "global"]
  \/ read[l].pc = "global" /\ r = [read[l] EXCEPT !.pc = "own", !.global = global]
  \/ /\ read[l].pc = "own"
     /\ r = [read[l] EXCEPT !.pc = "answer", !.own = own[read[l].id],
                            !.answer = mergeEffectiveRules(read[l].global, own[read[l].id])]

TablesTyped(g, o) == g \in Tables /\ o \in [Ids -> Tables]

\* A step leaves tables and reads alone, writes one of the tables, or moves a read.
Still == UNCHANGED <<global, own, saves, read>>
Writes ==
  /\ TablesTyped(global', own') /\ (global' = global \/ own' = own)
  /\ saves' = saves + 1
  /\ read' = Noted(global', own')
Moves ==
  /\ UNCHANGED <<global, own, saves>>
  /\ \E l \in Loads : \E r : ReadMove(l, r) /\ read' = [read EXCEPT ![l] = r]

LEMMA GlobalWrites ==
  ASSUME Typed, UpsertGlobalRules \/ ImportGlobalRules
  PROVE  Writes
  <1>1. PICK req \in Requests :
          /\ ValidGlobal(req)
          /\ \/ global' = [d \in Dims |-> GlobalAfter(d, req, global[d])]
             \/ global' = [d \in Dims |-> IF global[d] # Absent THEN global[d]
                                          ELSE GlobalAfter(d, req, Absent)]
    BY DEF UpsertGlobalRules, ImportGlobalRules
  <1>2. req \in SUBSET Payloads /\ global \in Tables
    BY ThresholdAssumption DEF Typed, TypeOK
  <1>3. ASSUME NEW d \in Dims, NEW old \in Rules \cup {Absent}
        PROVE  GlobalAfter(d, req, old) \in Rules \cup {Absent}
    BY <1>1, <1>2, AfterType
  <1>4. \A d \in Dims : global[d] \in Rules \cup {Absent}
    BY <1>2 DEF Tables
  <1>5. global' \in Tables
    BY <1>1, <1>3, <1>4 DEF Tables
  <1>6. own' = own /\ saves' = saves + 1 /\ read' = Noted(global', own')
    BY DEF UpsertGlobalRules, ImportGlobalRules
  <1> QED
    BY <1>5, <1>6 DEF Writes, TablesTyped, Typed, TypeOK

\* Rows of machine i after a valid request.
LEMMA OwnWriteType ==
  ASSUME TypeOK, NEW req \in SUBSET Payloads, ValidMachine(req), NEW i \in Ids, NEW new,
         \/ new = [d \in Dims |-> OwnAfter(d, req, own[i][d])]
         \/ new = [d \in Dims |-> IF own[i][d] # Absent THEN own[i][d] ELSE OwnAfter(d, req, Absent)]
  PROVE  new \in Tables
  <1>1. ASSUME NEW d \in Dims, NEW old \in Rules \cup {Absent}
        PROVE  OwnAfter(d, req, old) \in Rules \cup {Absent}
    BY <1>1, AfterType
  <1>2. \A d \in Dims : own[i][d] \in Rules \cup {Absent}
    BY DEF TypeOK, Tables
  <1> QED
    BY <1>1, <1>2 DEF Tables

LEMMA ImportWrites ==
  ASSUME Typed, ImportMachineRules
  PROVE  Writes
  <1>1. PICK req \in Requests, i \in 1..(nextId - 1) :
          /\ ValidMachine(req)
          /\ own' = [own EXCEPT ![i] = [d \in Dims |->
                       IF own[i][d] # Absent THEN own[i][d] ELSE OwnAfter(d, req, Absent)]]
    BY DEF ImportMachineRules
  <1>2. req \in SUBSET Payloads /\ i \in Ids
    BY ThresholdAssumption DEF Typed, TypeOK, Ids
  <1> DEFINE new == [d \in Dims |-> IF own[i][d] # Absent THEN own[i][d] ELSE OwnAfter(d, req, Absent)]
  <1>3. new \in Tables
    BY <1>1, <1>2, OwnWriteType DEF Typed
  <1> HIDE DEF new
  <1>4. own' \in [Ids -> Tables]
    <2>1. own' = [own EXCEPT ![i] = new]
      BY <1>1 DEF new
    <2> QED
      BY <1>3, <2>1 DEF Typed, TypeOK
  <1>5. global' = global /\ saves' = saves + 1 /\ read' = Noted(global', own')
    BY DEF ImportMachineRules
  <1> QED
    BY <1>4, <1>5 DEF Writes, TablesTyped, Typed, TypeOK

\* ReplaceMachineRules commits.
Commits(w) ==
  LET i == put[w].id IN
    /\ put[w].pc = "replace"
    /\ OncePerDim(Explicit(put[w].req))
    /\ own' = [own EXCEPT ![i] = [d \in Dims |-> OwnAfter(d, put[w].req, @[d])]]
    /\ saves' = saves + 1
    /\ read' = Noted(global, own')
    /\ put' = [put EXCEPT ![w] = [Answered(w, "done") EXCEPT !.at = saves + 1]]
    /\ UNCHANGED <<exists, nextId, global, acts, formVars>>

LEMMA CommitWrites ==
  ASSUME Typed, NEW w \in Writers, Commits(w)
  PROVE  Writes
  <1> DEFINE i == put[w].id
             req == put[w].req
             new == [d \in Dims |-> OwnAfter(d, req, own[i][d])]
  <1>1. i \in Ids /\ req \in SUBSET Payloads /\ ValidMachine(req)
    BY DEF Typed, TypeOK, Puts, PutValid, Commits
  <1>2. new \in Tables
    BY <1>1, OwnWriteType DEF Typed
  <1> HIDE DEF new
  <1>3. own' \in [Ids -> Tables]
    <2>1. own' = [own EXCEPT ![i] = new]
      BY <1>1 DEF Commits, new
    <2> QED
      BY <1>1, <1>2, <2>1 DEF Typed, TypeOK
  <1> QED
    BY <1>3 DEF Commits, Writes, TablesTyped, Typed, TypeOK

LEMMA StartMoves ==
  ASSUME NEW l \in Loads, NEW who \in Readers, NEW i \in Ids, StartLoad(l, who, i),
         UNCHANGED <<global, own, saves>>
  PROVE  Moves
  <1>1. ReadMove(l, Started(who, i)) /\ read' = [read EXCEPT ![l] = Started(who, i)]
    BY DEF StartLoad, ReadMove, Started
  <1> QED
    BY <1>1 DEF Moves

\* Steps of one read.
LEMMA LoadMoves ==
  ASSUME Typed, NEW l \in Loads,
         \/ GetMachine(l) \/ ListGlobalRules(l) \/ ListMachineRules(l)
         \/ FailLoad(l) \/ RulesEvaluated(l) \/ LoadArrives(l)
  PROVE  Moves
  <1>1. UNCHANGED <<global, own, saves>>
    BY DEF GetMachine, ListGlobalRules, ListMachineRules, FailLoad, RulesEvaluated,
           LoadArrives, dbVars
  <1>2. \E r : ReadMove(l, r) /\ read' = [read EXCEPT ![l] = r]
    <2>1. CASE GetMachine(l)
      <3>1. ReadMove(l, Failed(l)) /\ ReadMove(l, [read[l] EXCEPT !.pc = "global"])
        BY <2>1 DEF GetMachine, ReadMove, Active
      <3> QED
        BY <2>1, <3>1 DEF GetMachine
    <2>2. CASE ListGlobalRules(l)
      <3>1. ReadMove(l, [read[l] EXCEPT !.pc = "own", !.global = global])
        BY <2>2 DEF ListGlobalRules, ReadMove
      <3> QED
        BY <2>2, <3>1 DEF ListGlobalRules
    <2>3. CASE ListMachineRules(l)
      <3>1. ReadMove(l, [read[l] EXCEPT !.pc = "answer", !.own = own[read[l].id],
                            !.answer = mergeEffectiveRules(read[l].global, own[read[l].id])])
        BY <2>3 DEF ListMachineRules, ReadMove
      <3> QED
        BY <2>3, <3>1 DEF ListMachineRules
    <2>4. CASE FailLoad(l)
      <3>1. ReadMove(l, Failed(l))
        BY <2>4 DEF FailLoad, ReadMove, Active
      <3> QED
        BY <2>4, <3>1 DEF FailLoad
    <2>5. CASE RulesEvaluated(l) \/ LoadArrives(l)
      BY <2>5 DEF RulesEvaluated, LoadArrives, ReadMove
    <2> QED
      BY <2>1, <2>2, <2>3, <2>4, <2>5
  <1> QED
    BY <1>1, <1>2 DEF Moves

\* The three kinds of steps.
LEMMA StepKinds ==
  ASSUME Typed, [Next]_vars
  PROVE  Still \/ Writes \/ Moves
  <1>1. CASE CreateMachine \/ SelectGlobal \/ SubmitForm \/ UNCHANGED vars
    BY <1>1 DEF CreateMachine, SelectGlobal, SubmitForm, dbVars, vars, Still
  <1>2. CASE UpsertGlobalRules \/ ImportGlobalRules
    BY <1>2, GlobalWrites
  <1>3. CASE ImportMachineRules
    BY <1>3, ImportWrites
  <1>4. ASSUME NEW i \in Ids,
               DeleteMachine(i) \/ OtherPuts(i) \/ EvaluateSamples(i) \/ SelectMachine(i)
        PROVE  Still \/ Writes \/ Moves
    <2>1. CASE DeleteMachine(i) \/ OtherPuts(i)
      BY <2>1 DEF DeleteMachine, OtherPuts, dbVars, Still
    <2>2. CASE EvaluateSamples(i)
      BY <2>2, StartMoves DEF EvaluateSamples, dbVars, Readers
    <2>3. CASE SelectMachine(i)
      BY <2>3, StartMoves DEF SelectMachine, dbVars, Readers
    <2> QED
      BY <1>4, <2>1, <2>2, <2>3
  <1>5. ASSUME NEW w \in Writers, CheckMachine(w) \/ ReplaceMachineRules(w)
        PROVE  Still \/ Writes \/ Moves
    <2>1. CASE CheckMachine(w)
      BY <2>1 DEF CheckMachine, dbVars, Still
    <2>2. CASE Commits(w)
      BY <2>2, CommitWrites
    <2>3. CASE ReplaceMachineRules(w) /\ ~Commits(w)
      BY <2>3 DEF ReplaceMachineRules, Commits, Still
    <2> QED
      BY <1>5, <2>1, <2>2, <2>3
  <1>6. ASSUME NEW l \in Loads,
               \/ GetMachine(l) \/ ListGlobalRules(l) \/ ListMachineRules(l)
               \/ FailLoad(l) \/ RulesEvaluated(l) \/ LoadArrives(l)
        PROVE  Moves
    BY <1>6, LoadMoves
  <1>7. ASSUME NEW d \in Dims, EditRow(d) PROVE Still
    BY <1>7 DEF EditRow, dbVars, Still
  <1>8. CASE SaveAnswered
    <2>1. CASE UNCHANGED read
      BY <1>8, <2>1 DEF SaveAnswered, dbVars, Still
    <2>2. CASE put["console"].pc = "done" /\ \E l \in Loads : StartLoad(l, "save", put["console"].id)
      <3>1. put["console"].id \in Ids
        BY <2>2 DEF Typed, TypeOK, Writers
      <3>2. UNCHANGED <<global, own, saves>>
        BY <1>8 DEF SaveAnswered, dbVars
      <3> QED
        BY <2>2, <3>1, <3>2, StartMoves DEF Readers
    <2> QED
      BY <1>8, <2>1, <2>2 DEF SaveAnswered
  <1> QED
    BY <1>1, <1>2, <1>3, <1>4, <1>5, <1>6, <1>7, <1>8 DEF Next

-----------------------------------------------------------------------------
(* What a read has seen *)

\* The read of a load, with its fields.
LEMMA ReadParts ==
  ASSUME TypeOK, NEW l \in Loads
  PROVE  /\ read[l] \in Reads
         /\ read[l].held \in SUBSET [Dims -> Nat \cup {Absent}] /\ read[l].writes \in Nat
         /\ read[l].global \in Tables /\ read[l].own \in Tables
         /\ read[l].pc \in Active \cup {"answer"} => read[l].id \in Ids
  BY DEF TypeOK, Reads, Active

\* A write is noted by the reads under way and changes nothing else of them.
LEMMA NotedFacts ==
  ASSUME TypeOK, NEW g \in Tables, NEW o \in [Ids -> Tables], NEW l \in Loads
  PROVE  LET r == Noted(g, o)[l] IN
           /\ r \in Reads
           /\ r.by = read[l].by /\ r.pc = read[l].pc /\ r.id = read[l].id
           /\ r.global = read[l].global /\ r.own = read[l].own /\ r.answer = read[l].answer
           /\ read[l].pc \in Active =>
                /\ r.held = read[l].held \cup {Effect(g, o[read[l].id])}
                /\ r.writes = read[l].writes + 1
           /\ read[l].pc \notin Active => r = read[l]
  <1> DEFINE new == Effect(g, o[read[l].id])
  <1>1. read[l] \in Reads /\ read[l].held \in SUBSET [Dims -> Nat \cup {Absent}] /\ read[l].writes \in Nat
    BY ReadParts
  <1>2. CASE read[l].pc \in Active
    <2>1. new \in [Dims -> Nat \cup {Absent}]
      BY <1>2, ReadParts, EffectType
    <2>2. Noted(g, o)[l] = [read[l] EXCEPT !.held = @ \cup {new}, !.writes = @ + 1]
      BY <1>2 DEF Noted, Active, Effect
    <2> HIDE DEF new
    <2>3. read[l].held \cup {new} \in SUBSET [Dims -> Nat \cup {Absent}] /\ read[l].writes + 1 \in Nat
      BY <1>1, <2>1
    <2>4. Noted(g, o)[l] \in Reads
      BY <1>1, <2>2, <2>3 DEF Reads
    <2>5. /\ Noted(g, o)[l].held = read[l].held \cup {new}
          /\ Noted(g, o)[l].writes = read[l].writes + 1
      BY <1>1, <2>2 DEF Reads
    <2>6. LET r == Noted(g, o)[l] IN
            /\ r.by = read[l].by /\ r.pc = read[l].pc /\ r.id = read[l].id
            /\ r.global = read[l].global /\ r.own = read[l].own /\ r.answer = read[l].answer
      BY <1>1, <2>2 DEF Reads
    <2> QED
      BY <1>2, <2>4, <2>5, <2>6 DEF new
  <1>3. CASE read[l].pc \notin Active
    <2>1. Noted(g, o)[l] = read[l]
      BY <1>3 DEF Noted, Active
    <2> QED
      BY <1>1, <1>3, <2>1
  <1> QED
    BY <1>2, <1>3

\* The empty read.
LEMMA NoReadType == NoRead \in Reads
  <1>1. NoRules \in Tables
    BY DEF NoRules, Tables
  <1>2. EmptyRows \in [Dims -> FormRows]
    BY DEF EmptyRows, FormRows, Units, Strategies
  <1> QED
    BY <1>1, <1>2 DEF NoRead, Reads

\* A new read, by its fields.
LEMMA StartedFacts ==
  ASSUME TypeOK, NEW who \in Readers, NEW i \in Ids
  PROVE  LET r == Started(who, i) IN
           /\ r \in Reads
           /\ r.by = who /\ r.pc = "machine" /\ r.id = i
           /\ r.held = {Effect(global, own[i])}
  <1>1. Effect(global, own[i]) \in [Dims -> Nat \cup {Absent}]
    BY EffectType DEF TypeOK
  <1> DEFINE h == {Effect(global, own[i])}
  <1>2. h \in SUBSET [Dims -> Nat \cup {Absent}]
    BY <1>1
  <1>3. Started(who, i) = [NoRead EXCEPT !.by = who, !.pc = "machine", !.id = i, !.held = h]
    BY DEF Started, Effect
  <1> HIDE DEF h
  <1>4. Started(who, i) \in Reads
    BY <1>2, <1>3, NoReadType DEF Reads
  <1>5. LET r == Started(who, i) IN r.by = who /\ r.pc = "machine" /\ r.id = i /\ r.held = h
    BY <1>3 DEF NoRead
  <1> QED
    BY <1>4, <1>5 DEF h

LEMMA FailedFacts ==
  ASSUME TypeOK, NEW l \in Loads
  PROVE  Failed(l) \in Reads /\ Failed(l).by = read[l].by /\ Failed(l).pc = "error"
  <1>1. read[l].by \in Readers \cup {Absent}
    BY DEF TypeOK, Reads
  <1>2. Failed(l) \in Reads
    BY <1>1, NoReadType DEF Failed, Reads
  <1>3. Failed(l).by = read[l].by /\ Failed(l).pc = "error"
    BY DEF Failed, NoRead
  <1> QED
    BY <1>2, <1>3

\* The answer of a read, by its fields.
LEMMA AnswerFacts ==
  ASSUME TypeOK, NEW l \in Loads, read[l].pc = "own",
         NEW r, r = [read[l] EXCEPT !.pc = "answer", !.own = own[read[l].id],
                       !.answer = mergeEffectiveRules(read[l].global, own[read[l].id])]
  PROVE  /\ r \in Reads
         /\ r.pc = "answer" /\ r.by = read[l].by /\ r.id = read[l].id /\ r.held = read[l].held
         /\ r.writes = read[l].writes /\ r.global = read[l].global /\ r.own = own[read[l].id]
         /\ r.answer = mergeEffectiveRules(read[l].global, own[read[l].id])
  <1> DEFINE m == own[read[l].id]
             a == mergeEffectiveRules(read[l].global, own[read[l].id])
  <1>1. read[l] \in Reads /\ m \in Tables /\ a \in [Dims -> FormRows]
    BY ReadParts, MergeType DEF TypeOK, Active
  <1>2. r = [read[l] EXCEPT !.pc = "answer", !.own = m, !.answer = a]
    OBVIOUS
  <1> HIDE DEF m, a
  <1>3. r \in Reads
    BY <1>1, <1>2 DEF Reads
  <1>4. /\ r.pc = "answer" /\ r.by = read[l].by /\ r.id = read[l].id /\ r.held = read[l].held
        /\ r.writes = read[l].writes /\ r.global = read[l].global /\ r.own = m /\ r.answer = a
    BY <1>1, <1>2 DEF Reads
  <1> QED
    BY <1>3, <1>4 DEF m, a

\* A move of a read gives a read.
LEMMA MoveType ==
  ASSUME TypeOK, NEW l \in Loads, NEW r, ReadMove(l, r)
  PROVE  r \in Reads /\ (r.pc \in Active \cup {"answer"} => r.id \in Ids)
  <1>1. read[l] \in Reads
    BY ReadParts
  <1>2. CASE r = NoRead
    BY <1>2, NoReadType DEF NoRead, Active
  <1>3. CASE r = Failed(l)
    BY <1>3, FailedFacts DEF Active
  <1>4. CASE \E who \in Readers, i \in Ids : r = Started(who, i)
    BY <1>4, StartedFacts
  <1>5. CASE read[l].pc = "machine" /\ r = [read[l] EXCEPT !.pc = "global"]
    <2>1. r \in Reads /\ r.id = read[l].id
      BY <1>1, <1>5 DEF Reads
    <2> QED
      BY <1>5, <2>1, ReadParts DEF Active
  <1>6. CASE read[l].pc = "global" /\ r = [read[l] EXCEPT !.pc = "own", !.global = global]
    <2>1. r \in Reads /\ r.id = read[l].id
      BY <1>1, <1>6 DEF Reads, TypeOK
    <2> QED
      BY <1>6, <2>1, ReadParts DEF Active
  <1>7. CASE read[l].pc = "own" /\ r = [read[l] EXCEPT !.pc = "answer", !.own = own[read[l].id],
                            !.answer = mergeEffectiveRules(read[l].global, own[read[l].id])]
    BY <1>7, AnswerFacts, ReadParts DEF Active
  <1> QED
    BY <1>2, <1>3, <1>4, <1>5, <1>6, <1>7 DEF ReadMove

\* The reads keep their type.
LEMMA ReadTypeStep ==
  ASSUME Typed, [Next]_vars
  PROVE  /\ global' \in Tables /\ own' \in [Ids -> Tables] /\ saves' \in Nat
         /\ read' \in [Loads -> Reads]
         /\ \A l \in Loads : read'[l].pc \in Active \cup {"answer"} => read'[l].id \in Ids
  <1>0. TypeOK
    BY DEF Typed
  <1>1. CASE Still
    BY <1>0, <1>1 DEF Still, TypeOK, Active
  <1>2. CASE Writes
    <2>1. global' \in Tables /\ own' \in [Ids -> Tables] /\ saves' \in Nat
      BY <1>0, <1>2 DEF Writes, TablesTyped, TypeOK
    <2>2. \A l \in Loads : read'[l] \in Reads /\ read'[l].pc = read[l].pc /\ read'[l].id = read[l].id
      BY <1>0, <1>2, <2>1, NotedFacts DEF Writes
    <2>3. read' \in [Loads -> Reads]
      BY <1>2, <2>2 DEF Writes, Noted
    <2> QED
      BY <1>0, <2>1, <2>2, <2>3, ReadParts
  <1>3. CASE Moves
    <2>1. PICK l \in Loads : \E r : ReadMove(l, r) /\ read' = [read EXCEPT ![l] = r]
      BY <1>3 DEF Moves
    <2>2. PICK r : ReadMove(l, r) /\ read' = [read EXCEPT ![l] = r]
      BY <2>1
    <2>3. r \in Reads /\ (r.pc \in Active \cup {"answer"} => r.id \in Ids)
      BY <1>0, <2>2, MoveType
    <2>4. read' \in [Loads -> Reads]
      BY <1>0, <2>2, <2>3 DEF TypeOK
    <2>5. \A m \in Loads : read'[m] = IF m = l THEN r ELSE read[m]
      BY <1>0, <2>2 DEF TypeOK
    <2> QED
      BY <1>0, <1>3, <2>3, <2>4, <2>5, ReadParts DEF Moves, TypeOK
  <1> QED
    BY <1>1, <1>2, <1>3, StepKinds

\* One load's part of SeenInv after a write.
LEMMA SeenWrites ==
  ASSUME Typed, SeenInv, Writes, NEW l \in Loads
  PROVE  Seen(l)'
  <1> DEFINE i == read[l].id
  <1>0. TypeOK /\ Seen(l) /\ read[l].writes \in Nat
    BY ReadParts DEF Typed, SeenInv
  <1>1. /\ read'[l].pc = read[l].pc /\ read'[l].id = i
        /\ read'[l].global = read[l].global /\ read'[l].own = read[l].own
        /\ read'[l].answer = read[l].answer
        /\ read[l].pc \in Active =>
             /\ read'[l].held = read[l].held \cup {Effect(global', own'[i])}
             /\ read'[l].writes = read[l].writes + 1
        /\ read[l].pc \notin Active => read'[l] = read[l]
    BY <1>0, NotedFacts DEF Writes, TablesTyped
  <1>2. read[l].pc \in Active => Effect(global', own'[i]) \in read'[l].held
    BY <1>1
  <1>3. read[l].pc = "own" => read'[l].writes # 0
    BY <1>0, <1>1 DEF Active
  <1>4. ASSUME read[l].pc = "own", read'[l].writes <= 1
        PROVE  Effect(read[l].global, own'[i]) \in read'[l].held
    <2>1. read[l].writes = 0
      BY <1>0, <1>1, <1>4 DEF Active
    <2>2. read[l].global = global
      BY <1>0, <1>4, <2>1 DEF Seen
    <2>3. CASE global' = global
      BY <1>2, <1>4, <2>2, <2>3 DEF Active
    <2>4. CASE own' = own
      BY <1>0, <1>1, <1>4, <2>1, <2>4 DEF Seen, Active
    <2> QED
      BY <2>3, <2>4 DEF Writes
  <1>5. read[l].pc = "answer" =>
          /\ read'[l].answer = mergeEffectiveRules(read'[l].global, read'[l].own)
          /\ read'[l].writes <= 1 => Effect(read'[l].global, read'[l].own) \in read'[l].held
    BY <1>0, <1>1 DEF Seen, Active
  <1> QED
    BY <1>1, <1>2, <1>3, <1>4, <1>5 DEF Seen

\* And after the move of a read.
LEMMA SeenMove ==
  ASSUME TypeOK, SeenInv, NEW l \in Loads, NEW r, ReadMove(l, r),
         read' = [read EXCEPT ![l] = r], UNCHANGED <<global, own>>
  PROVE  Seen(l)'
  <1>0. read'[l] = r /\ Seen(l) /\ read[l] \in Reads
    BY ReadParts DEF TypeOK, SeenInv
  <1>2. CASE r = NoRead \/ r = Failed(l)
    <2>1. r.pc \in {"idle", "error"}
      BY <1>2, FailedFacts DEF NoRead
    <2> QED
      BY <1>0, <2>1 DEF Seen, Active
  <1>4. CASE \E who \in Readers, i \in Ids : r = Started(who, i)
    <2>1. r.pc = "machine" /\ r.held = {Effect(global, own[r.id])}
      BY <1>4, StartedFacts
    <2> QED
      BY <1>0, <2>1 DEF Seen, Active
  <1>5. CASE read[l].pc = "machine" /\ r = [read[l] EXCEPT !.pc = "global"]
    <2>1. r.pc = "global" /\ r.held = read[l].held /\ r.id = read[l].id
      BY <1>0, <1>5 DEF Reads
    <2> QED
      BY <1>0, <1>5, <2>1 DEF Seen, Active
  <1>6. CASE read[l].pc = "global" /\ r = [read[l] EXCEPT !.pc = "own", !.global = global]
    <2>1. r.pc = "own" /\ r.held = read[l].held /\ r.id = read[l].id /\ r.global = global
      BY <1>0, <1>6 DEF Reads
    <2> QED
      BY <1>0, <1>6, <2>1 DEF Seen, Active
  <1>7. CASE read[l].pc = "own" /\ r = [read[l] EXCEPT !.pc = "answer", !.own = own[read[l].id],
                            !.answer = mergeEffectiveRules(read[l].global, own[read[l].id])]
    <2>1. /\ r.pc = "answer" /\ r.held = read[l].held /\ r.writes = read[l].writes
          /\ r.global = read[l].global /\ r.own = own[read[l].id]
          /\ r.answer = mergeEffectiveRules(read[l].global, own[read[l].id])
      BY <1>7, AnswerFacts
    <2>2. r.answer = mergeEffectiveRules(r.global, r.own)
      BY <2>1
    <2> QED
      BY <1>0, <1>7, <2>1, <2>2 DEF Seen, Active
  <1> QED
    BY <1>2, <1>4, <1>5, <1>6, <1>7 DEF ReadMove

LEMMA SeenStep ==
  ASSUME Typed, SeenInv, [Next]_vars
  PROVE  SeenInv'
  <1>0. TypeOK
    BY DEF Typed
  <1>1. CASE Still
    BY <1>1 DEF Still, SeenInv, Seen, Effect
  <1>2. CASE Writes
    BY <1>2, SeenWrites DEF SeenInv
  <1>3. CASE Moves
    <2>1. PICK l \in Loads : \E r : ReadMove(l, r) /\ read' = [read EXCEPT ![l] = r]
      BY <1>3 DEF Moves
    <2>2. PICK r : ReadMove(l, r) /\ read' = [read EXCEPT ![l] = r]
      BY <2>1
    <2>3. Seen(l)'
      BY <1>0, <1>3, <2>2, SeenMove DEF Moves
    <2>4. ASSUME NEW m \in Loads, m # l PROVE Seen(m)'
      <3>1. read'[m] = read[m]
        BY <1>0, <2>2, <2>4 DEF TypeOK
      <3> QED
        BY <1>3, <3>1 DEF Moves, SeenInv, Seen
    <2> QED
      BY <2>3, <2>4 DEF SeenInv
  <1> QED
    BY <1>1, <1>2, <1>3, StepKinds

-----------------------------------------------------------------------------
(* What a step does to the saves *)

\* A PUT arrives, passes the check, is committed, is refused, has its rules
\* loaded again, or is over.
PutMove(w, q) ==
  \/ q = NoPut \/ q = [NoPut EXCEPT !.at = saves + 1]
  \/ \E i \in Ids, req \in SUBSET Payloads :
       q = [NoPut EXCEPT !.pc = "check", !.id = i, !.req = req]
  \/ put[w].pc \in {"check", "replace"} /\ q = [put[w] EXCEPT !.pc = "refused"]
  \/ put[w].pc = "done" /\ q = [put[w] EXCEPT !.pc = "reload"]
  \/ /\ put[w].pc = "check" /\ put[w].id \in exists /\ ValidMachine(put[w].req)
     /\ q = [put[w] EXCEPT !.pc = "replace"]
  \/ put[w].pc = "replace" /\ q = [put[w] EXCEPT !.pc = "done", !.at = saves + 1]

LEMMA PutParts ==
  ASSUME TypeOK, NEW w \in Writers
  PROVE  /\ put[w] \in Puts /\ put[w].req \in SUBSET Payloads /\ put[w].at \in Nat
         /\ put[w].pc # "idle" => put[w].id \in Ids
  BY DEF TypeOK, Puts

\* The rows of the form make a request.
LEMMA SubmittedType ==
  ASSUME NEW rows \in [Dims -> FormRows]
  PROVE  Submitted(rows) \in SUBSET Payloads
  <1>1. ASSUME NEW d \in Dims PROVE ToPayload(d, rows[d]) \in Payloads
    BY DEF ToPayload, Payloads, FormRows, Units, Strategies
  <1> QED
    BY <1>1 DEF Submitted

\* A request begun.
LEMMA NewPut ==
  ASSUME NEW i \in Ids, NEW req \in SUBSET Payloads
  PROVE  LET q == [NoPut EXCEPT !.pc = "check", !.id = i, !.req = req]
         IN q \in Puts /\ q.pc = "check" /\ q.id = i /\ q.req = req
  BY DEF NoPut, Puts

LEMMA PutMoveType ==
  ASSUME TypeOK, NEW w \in Writers, NEW q, PutMove(w, q)
  PROVE  /\ q \in Puts
         /\ q.pc # "idle" => q.id \in Ids
         /\ q.pc = "replace" =>
              ValidMachine(q.req) /\ put[w].pc = "check" /\ q.id = put[w].id /\ q.id \in exists
  <1>0. put[w] \in Puts /\ saves \in Nat /\ (put[w].pc # "idle" => put[w].id \in Ids)
    BY PutParts DEF TypeOK
  <1>1. CASE q = NoPut \/ q = [NoPut EXCEPT !.at = saves + 1]
    BY <1>0, <1>1 DEF NoPut, Puts
  <1>2. CASE \E i \in Ids, req \in SUBSET Payloads :
               q = [NoPut EXCEPT !.pc = "check", !.id = i, !.req = req]
    <2>1. PICK i \in Ids, req \in SUBSET Payloads :
            q = [NoPut EXCEPT !.pc = "check", !.id = i, !.req = req]
      BY <1>2
    <2>2. q \in Puts /\ q.pc = "check" /\ q.id = i
      BY <2>1, NewPut
    <2> QED
      BY <2>2
  <1>3. CASE put[w].pc \in {"check", "replace"} /\ q = [put[w] EXCEPT !.pc = "refused"]
    BY <1>0, <1>3 DEF Puts
  <1>4. CASE put[w].pc = "done" /\ q = [put[w] EXCEPT !.pc = "reload"]
    BY <1>0, <1>4 DEF Puts
  <1>5. CASE /\ put[w].pc = "check" /\ put[w].id \in exists /\ ValidMachine(put[w].req)
             /\ q = [put[w] EXCEPT !.pc = "replace"]
    <2>1. q \in Puts /\ q.id = put[w].id /\ q.req = put[w].req
      BY <1>0, <1>5 DEF Puts
    <2> QED
      BY <1>0, <1>5, <2>1
  <1>6. CASE put[w].pc = "replace" /\ q = [put[w] EXCEPT !.pc = "done", !.at = saves + 1]
    <2>1. saves + 1 \in Nat
      BY <1>0
    <2>2. q \in Puts /\ q.id = put[w].id
      BY <1>0, <1>6, <2>1 DEF Puts
    <2>3. q.pc = "done"
      BY <1>0, <1>6 DEF Puts
    <2> QED
      BY <1>0, <1>6, <2>2, <2>3
  <1> QED
    BY <1>1, <1>2, <1>3, <1>4, <1>5, <1>6 DEF PutMove

PutMoves == \E w \in Writers : \E q : PutMove(w, q) /\ put' = [put EXCEPT ![w] = q]

LEMMA CheckMoves ==
  ASSUME Typed, NEW w \in Writers, CheckMachine(w)
  PROVE  PutMoves
  <1> DEFINE q == IF put[w].id \in exists /\ ValidMachine(put[w].req)
                  THEN [put[w] EXCEPT !.pc = "replace"] ELSE Answered(w, "refused")
  <1>1. put' = [put EXCEPT ![w] = q] /\ put[w].pc = "check"
    BY DEF CheckMachine
  <1>2. PutMove(w, q)
    BY <1>1 DEF PutMove, Answered
  <1> QED
    BY <1>1, <1>2 DEF PutMoves

LEMMA ReplaceMoves ==
  ASSUME Typed, NEW w \in Writers, ReplaceMachineRules(w)
  PROVE  PutMoves
  <1>0. put[w] \in Puts
    BY PutParts DEF Typed
  <1>1. PutMove(w, Answered(w, "refused"))
    BY DEF PutMove, Answered, ReplaceMachineRules
  <1>2. PutMove(w, [Answered(w, "done") EXCEPT !.at = saves + 1])
    <2>1. CASE w = "console"
      <3>1. [Answered(w, "done") EXCEPT !.at = saves + 1] = [put[w] EXCEPT !.pc = "done", !.at = saves + 1]
        BY <1>0, <2>1 DEF Answered, Puts
      <3> QED
        BY <3>1 DEF PutMove, ReplaceMachineRules
    <2>2. CASE w # "console"
      BY <2>2 DEF PutMove, Answered
    <2> QED
      BY <2>1, <2>2
  <1>3. \/ put' = [put EXCEPT ![w] = [Answered(w, "done") EXCEPT !.at = saves + 1]]
        \/ put' = [put EXCEPT ![w] = Answered(w, "refused")]
    BY DEF ReplaceMachineRules
  <1> QED
    BY <1>1, <1>2, <1>3 DEF PutMoves

\* What any step does to the saves.
LEMMA PutKinds ==
  ASSUME Typed, [Next]_vars
  PROVE  put' = put \/ PutMoves
  <1>1. CASE CreateMachine \/ SelectGlobal \/ UNCHANGED vars
    BY <1>1 DEF CreateMachine, SelectGlobal, vars
  <1>2. CASE UpsertGlobalRules \/ ImportGlobalRules \/ ImportMachineRules
    BY <1>2 DEF UpsertGlobalRules, ImportGlobalRules, ImportMachineRules
  <1>3. ASSUME NEW i \in Ids,
               DeleteMachine(i) \/ OtherPuts(i) \/ EvaluateSamples(i) \/ SelectMachine(i)
        PROVE  put' = put \/ PutMoves
    <2>1. CASE OtherPuts(i)
      <3>1. PICK req \in Requests :
              put' = [put EXCEPT !["other"] = [NoPut EXCEPT !.pc = "check", !.id = i, !.req = req]]
        BY <2>1 DEF OtherPuts
      <3>2. req \in SUBSET Payloads
        BY ThresholdAssumption
      <3>3. PutMove("other", [NoPut EXCEPT !.pc = "check", !.id = i, !.req = req])
        BY <1>3, <3>2 DEF PutMove
      <3> QED
        BY <3>1, <3>3 DEF PutMoves, Writers
    <2> QED
      BY <1>3, <2>1 DEF DeleteMachine, EvaluateSamples, SelectMachine
  <1>4. ASSUME NEW w \in Writers, CheckMachine(w) \/ ReplaceMachineRules(w)
        PROVE  PutMoves
    BY <1>4, CheckMoves, ReplaceMoves
  <1>5. ASSUME NEW l \in Loads,
               \/ GetMachine(l) \/ ListGlobalRules(l) \/ ListMachineRules(l)
               \/ FailLoad(l) \/ RulesEvaluated(l) \/ LoadArrives(l)
        PROVE  put' = put \/ PutMoves
    <2>1. PutMove("console", NoPut)
      BY DEF PutMove
    <2> QED
      BY <1>5, <2>1 DEF GetMachine, ListGlobalRules, ListMachineRules, FailLoad, RulesEvaluated,
                        LoadArrives, PutMoves, Writers
  <1>6. ASSUME NEW d \in Dims, EditRow(d) PROVE put' = put
    BY <1>6 DEF EditRow
  <1>7. CASE SubmitForm
    <2>1. sel \in Ids /\ Submitted(form) \in SUBSET Payloads
      BY <1>7, SubmittedType DEF SubmitForm, Typed, TypeOK
    <2>2. PutMove("console", [NoPut EXCEPT !.pc = "check", !.id = sel, !.req = Submitted(form)])
      BY <2>1 DEF PutMove
    <2> QED
      BY <1>7, <2>2 DEF SubmitForm, PutMoves, Writers
  <1>8. CASE SaveAnswered
    <2>1. PutMove("console", NoPut)
      BY DEF PutMove
    <2>2. put["console"].pc = "done" => PutMove("console", [put["console"] EXCEPT !.pc = "reload"])
      BY DEF PutMove
    <2> QED
      BY <1>8, <2>1, <2>2 DEF SaveAnswered, PutMoves, Writers
  <1> QED
    BY <1>1, <1>2, <1>3, <1>4, <1>5, <1>6, <1>7, <1>8 DEF Next

\* The saves keep their type, and what is written has passed the check.
LEMMA PutTypeStep ==
  ASSUME Typed, [Next]_vars
  PROVE  /\ put' \in [Writers -> Puts]
         /\ \A w \in Writers : put'[w].pc # "idle" => put'[w].id \in Ids
         /\ PutValid'
  <1>0. TypeOK /\ PutValid
    BY DEF Typed
  <1>1. CASE put' = put
    BY <1>0, <1>1 DEF TypeOK, PutValid
  <1>2. CASE PutMoves
    <2>1. PICK w \in Writers : \E q : PutMove(w, q) /\ put' = [put EXCEPT ![w] = q]
      BY <1>2 DEF PutMoves
    <2>2. PICK q : PutMove(w, q) /\ put' = [put EXCEPT ![w] = q]
      BY <2>1
    <2>3. /\ q \in Puts /\ (q.pc # "idle" => q.id \in Ids)
          /\ q.pc = "replace" => ValidMachine(q.req)
      BY <1>0, <2>2, PutMoveType
    <2>4. \A v \in Writers : put'[v] = IF v = w THEN q ELSE put[v]
      BY <1>0, <2>2 DEF TypeOK
    <2>5. put' \in [Writers -> Puts]
      BY <1>0, <2>2, <2>3 DEF TypeOK
    <2> QED
      BY <1>0, <2>3, <2>4, <2>5, PutParts DEF PutValid
  <1> QED
    BY <1>1, <1>2, PutKinds

\* Machines, the console's form and the bound keep their type.
OtherTypes ==
  /\ exists \subseteq Ids
  /\ nextId \in 1..(MaxMachines + 1)
  /\ sel \in Ids \cup {Absent}
  /\ form \in [Dims -> FormRows]
  /\ basis \in [id : Ids \cup {Absent}, own : Tables]
  /\ acts \in 0..MaxActs
  /\ clean \in BOOLEAN /\ hasty \in BOOLEAN
  /\ edited \subseteq Dims

\* An edited row is a row.
LEMMA EditType ==
  ASSUME TypeOK, NEW d \in Dims, EditRow(d)
  PROVE  /\ form' \in [Dims -> FormRows]
         /\ \A e \in Dims \ {d} : form'[e] = form[e]
  <1>0. form \in [Dims -> FormRows] /\ Values \subseteq Nat
    BY ThresholdAssumption DEF TypeOK
  <1>1. PICK row : row \in FormRows /\ form' = [form EXCEPT ![d] = row]
    <2>1. ASSUME NEW s \in Strategies, form' = [form EXCEPT ![d].strategy = s]
          PROVE  \E row \in FormRows : form' = [form EXCEPT ![d] = row]
      <3>1. [form[d] EXCEPT !.strategy = s] \in FormRows
        BY <1>0, <2>1 DEF FormRows
      <3>2. form' = [form EXCEPT ![d] = [form[d] EXCEPT !.strategy = s]]
        BY <2>1
      <3> QED
        BY <3>1, <3>2
    <2>2. ASSUME NEW v \in Values, form' = [form EXCEPT ![d].value = v]
          PROVE  \E row \in FormRows : form' = [form EXCEPT ![d] = row]
      <3>1. [form[d] EXCEPT !.value = v] \in FormRows
        BY <1>0, <2>2 DEF FormRows
      <3>2. form' = [form EXCEPT ![d] = [form[d] EXCEPT !.value = v]]
        BY <2>2
      <3> QED
        BY <3>1, <3>2
    <2>3. ASSUME NEW u \in Units, form' = [form EXCEPT ![d].unit = u]
          PROVE  \E row \in FormRows : form' = [form EXCEPT ![d] = row]
      <3>1. [form[d] EXCEPT !.unit = u] \in FormRows
        BY <1>0, <2>3 DEF FormRows
      <3>2. form' = [form EXCEPT ![d] = [form[d] EXCEPT !.unit = u]]
        BY <2>3
      <3> QED
        BY <3>1, <3>2
    <2> QED
      BY <2>1, <2>2, <2>3 DEF EditRow
  <1> QED
    BY <1>0, <1>1

LEMMA EmptyType == NoRules \in Tables /\ EmptyRows \in [Dims -> FormRows]
  <1>1. NoRules \in Tables
    BY DEF NoRules, Tables
  <1>2. EmptyRows \in [Dims -> FormRows]
    BY DEF EmptyRows, FormRows, Units, Strategies
  <1> QED
    BY <1>1, <1>2

LEMMA OtherTypeStep ==
  ASSUME TypeOK, [Next]_vars
  PROVE  OtherTypes'
  <1>0. OtherTypes /\ MaxMachines \in Nat /\ MaxActs \in Nat
    BY ThresholdAssumption DEF TypeOK, OtherTypes
  <1>a. Acts => acts' \in 0..MaxActs
    BY <1>0 DEF Acts, OtherTypes
  <1>1. CASE CreateMachine
    <2>1. nextId \in Ids /\ nextId' \in 1..(MaxMachines + 1)
      BY <1>0, <1>1 DEF CreateMachine, OtherTypes, Ids
    <2>2. exists' \subseteq Ids
      BY <1>0, <1>1, <2>1 DEF CreateMachine, OtherTypes
    <2> QED
      BY <1>0, <1>a, <1>1, <2>1, <2>2 DEF CreateMachine, OtherTypes, formVars
  <1>2. CASE UpsertGlobalRules \/ ImportGlobalRules \/ ImportMachineRules
    <2>1. acts' \in 0..MaxActs /\ UNCHANGED <<exists, nextId, formVars>>
      BY <1>a, <1>2 DEF UpsertGlobalRules, ImportGlobalRules, ImportMachineRules
    <2> QED
      BY <1>0, <2>1 DEF OtherTypes, formVars
  <1>3. ASSUME NEW i \in Ids, DeleteMachine(i) \/ OtherPuts(i) \/ EvaluateSamples(i)
        PROVE  OtherTypes'
    <2>1. acts' \in 0..MaxActs /\ UNCHANGED <<nextId, formVars>> /\ exists' \subseteq exists
      BY <1>a, <1>3 DEF DeleteMachine, OtherPuts, EvaluateSamples, dbVars
    <2> QED
      BY <1>0, <2>1 DEF OtherTypes, formVars
  <1>4. ASSUME NEW i \in Ids, SelectMachine(i) PROVE OtherTypes'
    BY <1>0, <1>a, <1>4 DEF SelectMachine, OtherTypes, dbVars
  <1>5. ASSUME NEW w \in Writers, CheckMachine(w) \/ ReplaceMachineRules(w)
        PROVE  OtherTypes'
    BY <1>0, <1>5 DEF CheckMachine, ReplaceMachineRules, OtherTypes, dbVars, formVars
  <1>6. ASSUME NEW l \in Loads, \/ GetMachine(l) \/ ListGlobalRules(l) \/ ListMachineRules(l)
                                \/ FailLoad(l) \/ RulesEvaluated(l)
        PROVE  OtherTypes'
    <2>1. UNCHANGED <<exists, nextId, acts, formVars>>
      BY <1>6 DEF GetMachine, ListGlobalRules, ListMachineRules, FailLoad, RulesEvaluated, dbVars
    <2> QED
      BY <1>0, <2>1 DEF OtherTypes, formVars
  <1>7. ASSUME NEW l \in Loads, LoadArrives(l) PROVE OtherTypes'
    <2>1. UNCHANGED <<exists, nextId, acts, sel>> /\ clean' \in BOOLEAN
      BY <1>0, <1>7 DEF LoadArrives, OtherTypes, dbVars
    <2>2. CASE read[l].pc = "answer"
      <3>1. read[l].answer \in [Dims -> FormRows] /\ read[l].own \in Tables /\ read[l].id \in Ids
        BY <2>2 DEF TypeOK, Reads
      <3>2. form' = read[l].answer /\ basis' = [id |-> read[l].id, own |-> read[l].own]
            /\ edited' = {} /\ UNCHANGED hasty
        BY <1>7, <2>2 DEF LoadArrives
      <3> QED
        BY <1>0, <2>1, <3>1, <3>2 DEF OtherTypes
    <2>3. CASE read[l].pc # "answer"
      BY <1>0, <1>7, <2>1, <2>3 DEF LoadArrives, OtherTypes
    <2> QED
      BY <2>2, <2>3
  <1>8. CASE SelectGlobal
    BY <1>0, <1>a, <1>8, EmptyType DEF SelectGlobal, OtherTypes, dbVars, NoBasis
  <1>9. ASSUME NEW d \in Dims, EditRow(d) PROVE OtherTypes'
    BY <1>0, <1>a, <1>9, EditType DEF EditRow, OtherTypes, dbVars
  <1>10. CASE SubmitForm
    BY <1>0, <1>a, <1>10 DEF SubmitForm, OtherTypes, dbVars
  <1>11. CASE SaveAnswered \/ UNCHANGED vars
    BY <1>0, <1>11 DEF SaveAnswered, OtherTypes, dbVars, formVars, vars
  <1> QED
    BY <1>1, <1>2, <1>3, <1>4, <1>5, <1>6, <1>7, <1>8, <1>9, <1>10, <1>11 DEF Next

LEMMA TypedInit == ASSUME Init PROVE Typed
  <1>1. 1 \in Ids /\ 2 \in 1..(MaxMachines + 1) /\ 0 \in 0..MaxActs
    BY ThresholdAssumption DEF Ids
  <1>2. NoPut \in Puts /\ NoPut.pc = "idle" /\ NoRead.pc = "idle"
    BY DEF NoPut, Puts, NoRead
  <1>3. OtherTypes
    BY <1>1, EmptyType DEF Init, OtherTypes, NoBasis
  <1>4. /\ global \in Tables /\ own \in [Ids -> Tables] /\ saves \in Nat
        /\ read \in [Loads -> Reads] /\ \A l \in Loads : read[l].pc = "idle"
        /\ put \in [Writers -> Puts] /\ \A w \in Writers : put[w].pc = "idle"
    BY <1>2, EmptyType, NoReadType DEF Init
  <1> QED
    BY <1>3, <1>4 DEF Typed, TypeOK, PutValid, OtherTypes

LEMMA TypedStep == ASSUME Typed, [Next]_vars PROVE Typed'
  <1>1. TypeOK
    BY DEF Typed
  <1> QED
    BY <1>1, ReadTypeStep, PutTypeStep, OtherTypeStep DEF Typed, TypeOK, OtherTypes, Active

-----------------------------------------------------------------------------
(* The first results *)

\* Every state of the threshold tables, reads, saves and form is of its type;
\* a read and a save under way have a machine, and what ReplaceMachineRules
\* writes has passed buildMachineRules.
THEOREM ThresholdTypes == Spec => [](TypeOK /\ PutValid)
  <1>1. Spec => []Typed
    BY TypedInit, TypedStep, PTL DEF Spec
  <1> QED
    BY <1>1, PTL DEF Typed

LEMMA GivenInit == ASSUME Init PROVE GivenIds
  <1>1. \A i \in Ids : i >= nextId => i # 1
    BY DEF Init, Ids
  <1> QED
    BY <1>1 DEF Init, GivenIds, NewMachineInherits, NoPut

\* Who writes to a machine's rules, and that the machine was there.
LEMMA OwnKinds ==
  ASSUME Typed, GivenIds, [Next]_vars
  PROVE  own' = own \/ \E i \in Ids : i < nextId /\ \A j \in Ids \ {i} : own'[j] = own[j]
  <1>0. own \in [Ids -> Tables] /\ nextId \in 1..(MaxMachines + 1) /\ MaxMachines \in Nat
    BY ThresholdAssumption DEF Typed, TypeOK
  <1>1. CASE ImportMachineRules
    <2>1. PICK i \in 1..(nextId - 1) : \E new : own' = [own EXCEPT ![i] = new]
      BY <1>1 DEF ImportMachineRules
    <2>2. i \in Ids /\ i < nextId
      BY <1>0 DEF Ids
    <2> QED
      BY <1>0, <2>1, <2>2
  <1>2. ASSUME NEW w \in Writers, ReplaceMachineRules(w)
        PROVE  own' = own \/ \E i \in Ids : i < nextId /\ \A j \in Ids \ {i} : own'[j] = own[j]
    <2>1. put[w].id \in Ids /\ put[w].id < nextId
      BY <1>2 DEF ReplaceMachineRules, GivenIds, Typed, TypeOK
    <2>2. own' = own \/ \E new : own' = [own EXCEPT ![put[w].id] = new]
      BY <1>2 DEF ReplaceMachineRules
    <2> QED
      BY <1>0, <2>1, <2>2
  <1>3. CASE ~ImportMachineRules /\ ~(\E w \in Writers : ReplaceMachineRules(w))
    BY <1>3 DEF Next, CreateMachine, UpsertGlobalRules, ImportGlobalRules, DeleteMachine, OtherPuts,
         EvaluateSamples, SelectMachine, CheckMachine, GetMachine, ListGlobalRules,
         ListMachineRules, FailLoad, RulesEvaluated, LoadArrives, SelectGlobal, EditRow,
         SubmitForm, SaveAnswered, dbVars, vars
  <1> QED
    BY <1>1, <1>2, <1>3

\* Ids are given once.
LEMMA IdKinds ==
  ASSUME Typed, [Next]_vars
  PROVE  \/ nextId' = nextId /\ exists' \subseteq exists
         \/ nextId' = nextId + 1 /\ exists' = exists \cup {nextId}
  BY DEF Next, CreateMachine, UpsertGlobalRules, ImportGlobalRules, ImportMachineRules,
         DeleteMachine, OtherPuts, EvaluateSamples, SelectMachine, CheckMachine,
         ReplaceMachineRules, GetMachine, ListGlobalRules, ListMachineRules, FailLoad,
         RulesEvaluated, LoadArrives, SelectGlobal, EditRow, SubmitForm, SaveAnswered, dbVars, vars

LEMMA GivenStep == ASSUME Typed, GivenIds, [Next]_vars PROVE GivenIds'
  <1>0. /\ TypeOK /\ NewMachineInherits /\ nextId \in Nat /\ exists \subseteq Ids
        /\ \A i \in Ids : i \in Nat
    BY DEF Typed, TypeOK, GivenIds, Ids
  <1>1. nextId' \in Nat /\ nextId <= nextId'
    BY <1>0, IdKinds
  <1>2. ASSUME NEW i \in Ids, i >= nextId' PROVE i \notin exists' /\ own'[i] = NoRules
    <2>1. i >= nextId
      BY <1>0, <1>1, <1>2
    <2>2. i \notin exists'
      BY <1>0, <1>2, <2>1, IdKinds DEF NewMachineInherits
    <2>3. own'[i] = own[i]
      BY <1>0, <2>1, OwnKinds
    <2> QED
      BY <1>0, <2>1, <2>2, <2>3 DEF NewMachineInherits
  <1>3. ASSUME NEW w \in Writers, put'[w].pc = "replace" PROVE put'[w].id < nextId'
    <2>0. put \in [Writers -> Puts] /\ \A v \in Writers : put[v].pc # "idle" => put[v].id \in Ids
      BY <1>0 DEF TypeOK
    <2>1. CASE put'[w] = put[w]
      BY <1>0, <1>1, <1>3, <2>0, <2>1 DEF GivenIds
    <2>2. CASE put'[w] # put[w]
      <3>1. PICK v \in Writers : \E q : PutMove(v, q) /\ put' = [put EXCEPT ![v] = q]
        BY <2>2, PutKinds DEF PutMoves
      <3>2. PICK q : PutMove(v, q) /\ put' = [put EXCEPT ![v] = q]
        BY <3>1
      <3>3. v = w /\ put'[w] = q
        BY <2>0, <2>2, <3>2
      <3>4. q.id \in exists
        BY <1>0, <1>3, <3>2, <3>3, PutMoveType
      <3>5. q.id < nextId
        BY <1>0, <3>4 DEF NewMachineInherits
      <3>6. q.id \in Nat
        BY <1>0, <3>4
      <3> QED
        BY <1>0, <1>1, <3>3, <3>5, <3>6
    <2> QED
      BY <2>1, <2>2
  <1> QED
    BY <1>2, <1>3 DEF GivenIds, NewMachineInherits

\* No request, however late, writes rules under an id that is not given yet,
\* and no id is given twice (CreateMachine, UpsertMachineRules' check before
\* ReplaceMachineRules' transaction): a new machine inherits every global rule.
THEOREM ThresholdNewMachineInherits == Spec => []NewMachineInherits
  <1>1. Init => Typed /\ GivenIds
    BY TypedInit, GivenInit
  <1>2. Typed /\ GivenIds /\ [Next]_vars => (Typed /\ GivenIds)'
    BY TypedStep, GivenStep
  <1>3. GivenIds => NewMachineInherits
    BY DEF GivenIds
  <1> QED
    BY <1>1, <1>2, <1>3, PTL DEF Spec

LEMMA SeenInit == ASSUME Init PROVE SeenInv
  BY DEF Init, SeenInv, Seen, NoRead, Active

\* The thresholds an alert evaluation compares with were in force together at
\* some moment of ListEffectiveMachineRules' two statements, unless rules were
\* written twice or more meanwhile.
THEOREM ThresholdRulesOfOneMoment == Spec => []RulesOfOneMoment
  <1>1. Init => Typed /\ SeenInv
    BY TypedInit, SeenInit
  <1>2. Typed /\ SeenInv /\ [Next]_vars => (Typed /\ SeenInv)'
    BY TypedStep, SeenStep
  <1>3. ASSUME Typed, SeenInv PROVE RulesOfOneMoment
    <2>1. SUFFICES ASSUME NEW l \in Loads, read[l].pc = "answer", read[l].writes <= 1
                   PROVE  \E h \in read[l].held : \A d \in Dims : Watched(read[l].answer[d]) = h[d]
      BY DEF RulesOfOneMoment
    <2> DEFINE g == read[l].global
               m == read[l].own
    <2>2. g \in Tables /\ m \in Tables
      BY <1>3, ReadParts DEF Typed
    <2>3. Effect(g, m) \in read[l].held /\ read[l].answer = mergeEffectiveRules(g, m)
      BY <1>3, <2>1 DEF SeenInv, Seen
    <2> HIDE DEF g, m
    <2>4. \A d \in Dims : Effect(g, m)[d] = InForce(g, m, d)
      BY DEF Effect
    <2>5. \A d \in Dims : Watched(read[l].answer[d]) = Effect(g, m)[d]
      BY <2>2, <2>3, <2>4, MergeWatches
    <2> QED
      BY <2>3, <2>5
  <1> QED
    BY <1>1, <1>2, <1>3, PTL DEF Spec

-----------------------------------------------------------------------------
(* What the form shows *)

\* Nobody waits for a read that is not under way.
IdleReads == \A l \in Loads : read[l].pc = "idle" => read[l].by = Absent

LEMMA IdleInit == ASSUME Init PROVE IdleReads
  BY DEF Init, IdleReads, NoRead

LEMMA IdleStep == ASSUME Typed, IdleReads, [Next]_vars PROVE IdleReads'
  <1>0. TypeOK
    BY DEF Typed
  <1>1. CASE Still
    BY <1>1 DEF Still, IdleReads
  <1>2. CASE Writes
    <2>1. \A l \in Loads : read'[l].pc = read[l].pc /\ read'[l].by = read[l].by
      BY <1>0, <1>2, NotedFacts DEF Writes, TablesTyped
    <2> QED
      BY <2>1 DEF IdleReads
  <1>3. CASE Moves
    <2>1. PICK l \in Loads : \E r : ReadMove(l, r) /\ read' = [read EXCEPT ![l] = r]
      BY <1>3 DEF Moves
    <2>2. PICK r : ReadMove(l, r) /\ read' = [read EXCEPT ![l] = r]
      BY <2>1
    <2>3. r.pc = "idle" => r.by = Absent
      <3>0. read[l] \in Reads
        BY <1>0, ReadParts
      <3>1. CASE r = NoRead
        BY <3>1 DEF NoRead
      <3>2. CASE r = Failed(l)
        BY <1>0, <3>2, FailedFacts
      <3>3. CASE \E who \in Readers, i \in Ids : r = Started(who, i)
        BY <1>0, <3>3, StartedFacts
      <3>4. CASE r = [read[l] EXCEPT !.pc = "global"]
        BY <3>0, <3>4 DEF Reads
      <3>5. CASE r = [read[l] EXCEPT !.pc = "own", !.global = global]
        BY <3>0, <3>5 DEF Reads
      <3>6. CASE read[l].pc = "own" /\ r = [read[l] EXCEPT !.pc = "answer", !.own = own[read[l].id],
                            !.answer = mergeEffectiveRules(read[l].global, own[read[l].id])]
        BY <1>0, <3>6, AnswerFacts
      <3> QED
        BY <2>2, <3>1, <3>2, <3>3, <3>4, <3>5, <3>6 DEF ReadMove
    <2>4. \A m \in Loads : read'[m] = IF m = l THEN r ELSE read[m]
      BY <1>0, <2>2 DEF TypeOK
    <2> QED
      BY <2>3, <2>4 DEF IdleReads
  <1> QED
    BY <1>1, <1>2, <1>3, StepKinds

\* What the console is waiting for is as it was.
SameAwaited ==
  \A l \in Loads :
    /\ l \in Awaited' <=> l \in Awaited
    /\ l \in Awaited /\ read'[l].pc \in Active \cup {"answer"} =>
         read[l].pc \in Active \cup {"answer"} /\ read'[l].id = read[l].id

LEMMA AwaitedSame == ASSUME SameAwaited PROVE Awaited' = Awaited
  BY DEF SameAwaited, Awaited

LEMMA WritesAwaited == ASSUME TypeOK, Writes PROVE SameAwaited
  <1>1. \A l \in Loads : /\ read'[l].by = read[l].by /\ read'[l].pc = read[l].pc
                         /\ read'[l].id = read[l].id
    BY NotedFacts DEF Writes, TablesTyped
  <1> QED
    BY <1>1 DEF SameAwaited, Awaited

\* One read changes: it is awaited as before, for the same machine or not at all.
LEMMA OneAwaited ==
  ASSUME TypeOK, NEW l \in Loads, NEW r, read' = [read EXCEPT ![l] = r],
         r.by \in {"select", "save"} <=> read[l].by \in {"select", "save"},
         read[l].by \in {"select", "save"} /\ r.pc \in Active \cup {"answer"} =>
           read[l].pc \in Active \cup {"answer"} /\ r.id = read[l].id
  PROVE  SameAwaited
  <1>1. \A m \in Loads : read'[m] = IF m = l THEN r ELSE read[m]
    BY DEF TypeOK
  <1> QED
    BY <1>1 DEF SameAwaited, Awaited

\* One statement of a read, its failure, and the reads of alert evaluations.
LEMMA EvaluateAwaited ==
  ASSUME Typed, IdleReads, NEW i \in Ids, EvaluateSamples(i)
  PROVE  SameAwaited
  <1>0. TypeOK
    BY DEF Typed
  <1>1. PICK l \in Loads : StartLoad(l, "alerts", i)
    BY DEF EvaluateSamples
  <1>2. read' = [read EXCEPT ![l] = Started("alerts", i)] /\ read[l].by = Absent
    BY <1>1 DEF StartLoad, Started, IdleReads
  <1>3. Started("alerts", i).by = "alerts"
    BY <1>0, StartedFacts DEF Readers
  <1>4. Absent \notin {"select", "save"}
    BY ThresholdAssumption DEF Readers
  <1> QED
    BY <1>0, <1>2, <1>3, <1>4, OneAwaited

LEMMA StatementAwaited ==
  ASSUME Typed, NEW l \in Loads,
         \/ GetMachine(l) \/ ListGlobalRules(l) \/ ListMachineRules(l)
         \/ FailLoad(l) \/ RulesEvaluated(l)
  PROVE  SameAwaited
  <1>0. TypeOK /\ read[l] \in Reads
    BY ReadParts DEF Typed
  <1>1. CASE read' = [read EXCEPT ![l] = Failed(l)]
    BY <1>0, <1>1, FailedFacts, OneAwaited DEF Active
  <1>2. CASE RulesEvaluated(l)
    <2>1. read[l].by = "alerts" /\ read' = [read EXCEPT ![l] = NoRead]
      BY <1>2 DEF RulesEvaluated
    <2>2. NoRead.by \notin {"select", "save"}
      BY ThresholdAssumption DEF NoRead, Readers
    <2> QED
      BY <1>0, <2>1, <2>2, OneAwaited
  <1>3. CASE GetMachine(l) /\ read' # [read EXCEPT ![l] = Failed(l)]
    <2>1. read[l].pc = "machine" /\ read' = [read EXCEPT ![l] = [read[l] EXCEPT !.pc = "global"]]
      BY <1>3 DEF GetMachine
    <2>2. LET r == [read[l] EXCEPT !.pc = "global"] IN r.by = read[l].by /\ r.id = read[l].id
      BY <1>0 DEF Reads
    <2> QED
      BY <1>0, <2>1, <2>2, OneAwaited DEF Active
  <1>4. CASE ListGlobalRules(l)
    <2>1. read[l].pc = "global" /\ read' = [read EXCEPT ![l] = [read[l] EXCEPT !.pc = "own", !.global = global]]
      BY <1>4 DEF ListGlobalRules
    <2>2. LET r == [read[l] EXCEPT !.pc = "own", !.global = global] IN r.by = read[l].by /\ r.id = read[l].id
      BY <1>0 DEF Reads
    <2> QED
      BY <1>0, <2>1, <2>2, OneAwaited DEF Active
  <1>5. CASE ListMachineRules(l)
    <2> DEFINE r == [read[l] EXCEPT !.pc = "answer", !.own = own[read[l].id],
                       !.answer = mergeEffectiveRules(read[l].global, own[read[l].id])]
    <2>1. read[l].pc = "own" /\ read' = [read EXCEPT ![l] = r]
      BY <1>5 DEF ListMachineRules
    <2>2. r.by = read[l].by /\ r.id = read[l].id
      BY <1>0, <2>1, AnswerFacts
    <2> HIDE DEF r
    <2> QED
      BY <1>0, <2>1, <2>2, OneAwaited DEF Active
  <1> QED
    BY <1>1, <1>2, <1>3, <1>4, <1>5 DEF FailLoad

\* What the form shows stays, if the form stays.
LEMMA ShownFrame ==
  ASSUME Shown, UNCHANGED <<form, basis, edited>>
  PROVE  Shown'
  BY DEF Shown

LEMMA PatientFrame ==
  ASSUME TypeOK, Patient, SameAwaited, UNCHANGED <<form, basis, edited, sel>>,
         \/ put'["console"] = put["console"]
         \/ /\ put'["console"].pc \in {"replace", "refused", "done"}
            /\ put["console"].pc \in {"check", "replace"}
            /\ put'["console"].id = put["console"].id /\ put'["console"].req = put["console"].req
         \/ put'["console"].pc = "idle"
  PROVE  Patient'
  <1>1. Awaited' = Awaited
    BY AwaitedSame
  <1>2. \A l \in Awaited' : read'[l].pc \in Active \cup {"answer"} => read'[l].id = sel'
    BY <1>1 DEF SameAwaited, Patient, Awaited
  <1>3. sel' # Absent /\ Awaited' = {} => basis'.id = sel'
    BY <1>1 DEF Patient
  <1>4. put'["console"].pc \in {"check", "replace", "refused", "done"} => Awaited' = {}
    BY <1>1 DEF Patient
  <1>5. put'["console"].pc # "idle" => put'["console"].id = sel'
    BY DEF Patient
  <1>6. ASSUME put'["console"].pc \in {"check", "replace"}
        PROVE  \E rows \in [Dims -> FormRows] : Holds(rows)'
    <2>1. put'["console"].req = put["console"].req /\ put["console"].pc \in {"check", "replace"}
      BY <1>6
    <2>2. PICK rows \in [Dims -> FormRows] : Holds(rows)
      BY <2>1 DEF Patient
    <2>3. Holds(rows)'
      BY <2>1, <2>2 DEF Holds
    <2> QED
      BY <2>3
  <1> QED
    BY <1>2, <1>3, <1>4, <1>5, <1>6 DEF Patient

LEMMA FormInit == ASSUME Init PROVE FormInv
  <1>1. Shown
    <2>1. \A d \in Dims : EmptyRows[d] = mergeEffectiveRules(NoRules, NoRules)[d]
      BY DEF mergeEffectiveRules, NoRules
    <2> QED
      BY <2>1, EmptyType DEF Init, Shown, NoBasis
  <1>2. Awaited = {}
    BY ThresholdAssumption DEF Init, Awaited, NoRead, Readers
  <1>3. Patient
    BY <1>2 DEF Init, Patient, NoPut, Writers
  <1> QED
    BY <1>1, <1>3 DEF FormInv

\* Steps outside the console, and those of the service with a save.
LEMMA FormQuiet ==
  ASSUME Typed, FormInv, UNCHANGED formVars, SameAwaited,
         \/ put'["console"] = put["console"]
         \/ /\ put'["console"].pc \in {"replace", "refused", "done"}
            /\ put["console"].pc \in {"check", "replace"}
            /\ put'["console"].id = put["console"].id /\ put'["console"].req = put["console"].req
         \/ put'["console"].pc = "idle"
  PROVE  FormInv'
  <1>1. TypeOK /\ UNCHANGED <<form, basis, edited, sel, hasty>>
    BY DEF Typed, formVars
  <1>2. Shown'
    BY <1>1, ShownFrame DEF FormInv
  <1>3. ~hasty' => Patient'
    BY <1>1, PatientFrame DEF FormInv
  <1> QED
    BY <1>2, <1>3 DEF FormInv

LEMMA UnreadAwaited == ASSUME UNCHANGED read PROVE SameAwaited
  BY DEF SameAwaited, Awaited

LEMMA FormReplace ==
  ASSUME Typed, FormInv, NEW w \in Writers, CheckMachine(w) \/ ReplaceMachineRules(w)
  PROVE  FormInv'
  <1>0. TypeOK /\ put \in [Writers -> Puts] /\ "console" \in Writers
    BY DEF Typed, TypeOK, Writers
  <1>1. SameAwaited
    <2>1. CASE Commits(w)
      BY <1>0, <2>1, CommitWrites, WritesAwaited
    <2>2. CASE ~Commits(w)
      BY <2>2, UnreadAwaited DEF CheckMachine, ReplaceMachineRules, Commits
    <2> QED
      BY <2>1, <2>2
  <1>2. UNCHANGED formVars
    BY DEF CheckMachine, ReplaceMachineRules
  <1>3. CASE w # "console"
    <2>1. put'["console"] = put["console"]
      BY <1>0, <1>3 DEF CheckMachine, ReplaceMachineRules
    <2> QED
      BY <1>1, <1>2, <2>1, FormQuiet
  <1>4. CASE w = "console"
    <2> DEFINE c == put["console"]
    <2>0. c \in Puts
      BY <1>0
    <2>1. /\ c.pc \in {"check", "replace"}
          /\ \/ put'["console"] = [c EXCEPT !.pc = "replace"]
             \/ put'["console"] = [c EXCEPT !.pc = "refused"]
             \/ put'["console"] = [[c EXCEPT !.pc = "done"] EXCEPT !.at = saves + 1]
      BY <1>0, <1>4 DEF CheckMachine, ReplaceMachineRules, Answered
    <2>2. /\ put'["console"].pc \in {"replace", "refused", "done"}
          /\ put'["console"].id = c.id /\ put'["console"].req = c.req
      BY <2>0, <2>1 DEF Puts
    <2> QED
      BY <1>1, <1>2, <2>1, <2>2, FormQuiet
  <1> QED
    BY <1>3, <1>4

LEMMA FormSelect ==
  ASSUME Typed, IdleReads, FormInv, NEW i \in Ids, SelectMachine(i)
  PROVE  FormInv'
  <1>0. TypeOK
    BY DEF Typed
  <1>1. Shown'
    BY ShownFrame DEF FormInv, SelectMachine
  <1>2. ASSUME ~hasty' PROVE Patient'
    <2>1. Awaited = {} /\ put'["console"].pc = "idle" /\ sel' = i
      BY <1>2 DEF SelectMachine
    <2>2. PICK l \in Loads : read' = [read EXCEPT ![l] = Started("select", i)]
      BY DEF SelectMachine, StartLoad, Started
    <2>3. Started("select", i).by = "select" /\ Started("select", i).id = i
      BY <1>0, StartedFacts DEF Readers
    <2>4. \A m \in Loads : read'[m] = IF m = l THEN Started("select", i) ELSE read[m]
      BY <1>0, <2>2 DEF TypeOK
    <2>5. Awaited' = {l}
      BY <2>1, <2>3, <2>4 DEF Awaited
    <2> QED
      BY <2>1, <2>3, <2>4, <2>5 DEF Patient
  <1> QED
    BY <1>1, <1>2 DEF FormInv

LEMMA FormGlobal ==
  ASSUME Typed, SelectGlobal
  PROVE  FormInv'
  <1>1. Shown'
    <2>1. \A d \in Dims : EmptyRows[d] = mergeEffectiveRules(NoRules, NoRules)[d]
      BY DEF mergeEffectiveRules, NoRules
    <2>2. form' = EmptyRows /\ basis'.own = NoRules
      BY DEF SelectGlobal, NoBasis
    <2> QED
      BY <2>1, <2>2, EmptyType DEF Shown
  <1>2. ASSUME ~hasty' PROVE Patient'
    <2>1. Awaited = {} /\ put'["console"].pc = "idle" /\ sel' = Absent /\ UNCHANGED read
      BY <1>2 DEF SelectGlobal
    <2>2. Awaited' = {}
      BY <2>1 DEF Awaited
    <2> QED
      BY <2>1, <2>2 DEF Patient
  <1> QED
    BY <1>1, <1>2 DEF FormInv

LEMMA FormArrives ==
  ASSUME Typed, SeenInv, FormInv, NEW l \in Loads, LoadArrives(l)
  PROVE  FormInv'
  <1>0. TypeOK /\ put \in [Writers -> Puts] /\ "console" \in Writers
    BY DEF Typed, TypeOK, Writers
  <1>1. CASE read[l].pc = "answer"
    <2>1. /\ form' = read[l].answer /\ basis'.own = read[l].own /\ basis'.id = read[l].id
          /\ sel' = sel /\ hasty' = hasty
      BY <1>1 DEF LoadArrives
    <2>2. read[l].answer = mergeEffectiveRules(read[l].global, read[l].own) /\ read[l].global \in Tables
      BY <1>0, <1>1, ReadParts DEF SeenInv, Seen
    <2>3. Shown'
      BY <2>1, <2>2 DEF Shown
    <2>4. ASSUME ~hasty' PROVE Patient'
      <3>1. Patient /\ l \in Awaited
        BY <2>1, <2>4 DEF FormInv, LoadArrives, Awaited
      <3>2. read[l].id = sel
        BY <1>1, <3>1 DEF Patient
      <3>3. \A m \in Loads : read'[m] = IF m = l THEN NoRead ELSE read[m]
        BY <1>0 DEF LoadArrives, TypeOK
      <3>4. NoRead.by \notin {"select", "save"}
        BY ThresholdAssumption DEF NoRead, Readers
      <3>5. Awaited' \subseteq Awaited /\ \A m \in Awaited' : read'[m] = read[m]
        BY <3>3, <3>4 DEF Awaited
      <3>6. put'["console"] = NoPut \/ put'["console"] = put["console"]
        BY <1>0 DEF LoadArrives
      <3>7. put["console"].pc \notin {"check", "replace", "refused", "done"}
        BY <3>1 DEF Patient
      <3>8. put'["console"].pc \notin {"check", "replace", "refused", "done"}
            /\ (put'["console"].pc # "idle" => put'["console"] = put["console"])
        BY <3>6, <3>7 DEF NoPut
      <3> QED
        BY <2>1, <3>1, <3>2, <3>5, <3>8 DEF Patient
    <2> QED
      BY <2>3, <2>4 DEF FormInv
  <1>2. CASE read[l].pc # "answer"
    BY <1>2, ShownFrame DEF LoadArrives, FormInv
  <1> QED
    BY <1>1, <1>2

LEMMA FormEdit ==
  ASSUME Typed, FormInv, NEW d \in Dims, EditRow(d)
  PROVE  FormInv'
  <1>0. TypeOK /\ \A e \in Dims \ {d} : form'[e] = form[e]
    BY EditType DEF Typed
  <1>1. UNCHANGED <<read, put, sel, basis, hasty>> /\ edited' = edited \cup {d}
    BY DEF EditRow
  <1>2. Shown'
    <2>1. PICK g \in Tables : \A e \in Dims \ edited : form[e] = mergeEffectiveRules(g, basis.own)[e]
      BY DEF FormInv, Shown
    <2>2. \A e \in Dims \ edited' : form'[e] = mergeEffectiveRules(g, basis'.own)[e]
      BY <1>0, <1>1, <2>1
    <2> QED
      BY <2>2 DEF Shown
  <1>3. ASSUME ~hasty' PROVE Patient'
    <2>1. Patient
      BY <1>1, <1>3 DEF FormInv
    <2>2. Awaited' = Awaited
      BY <1>1 DEF Awaited
    <2>3. ASSUME NEW rows \in [Dims -> FormRows], Holds(rows) PROVE Holds(rows)'
      BY <1>0, <1>1, <2>3 DEF Holds
    <2> QED
      BY <1>1, <2>1, <2>2, <2>3 DEF Patient
  <1> QED
    BY <1>2, <1>3 DEF FormInv

LEMMA FormSubmit ==
  ASSUME Typed, FormInv, SubmitForm
  PROVE  FormInv'
  <1>0. TypeOK /\ put \in [Writers -> Puts] /\ "console" \in Writers /\ form \in [Dims -> FormRows]
    BY DEF Typed, TypeOK, Writers
  <1>1. UNCHANGED <<read, sel, form, basis, edited>>
    BY DEF SubmitForm
  <1>2. Shown'
    BY <1>1, ShownFrame DEF FormInv
  <1>3. ASSUME ~hasty' PROVE Patient'
    <2>1. Patient /\ Awaited = {}
      BY <1>3 DEF FormInv, SubmitForm
    <2>2. Awaited' = Awaited
      BY <1>1 DEF Awaited
    <2>3. put'["console"].pc = "check" /\ put'["console"].id = sel /\ put'["console"].req = Submitted(form)
      BY <1>0 DEF SubmitForm, NoPut
    <2>4. Holds(form)'
      BY <1>1, <2>3 DEF Holds
    <2>5. \E rows \in [Dims -> FormRows] : Holds(rows)'
      BY <1>0, <1>1, <2>3 DEF Holds
    <2> QED
      BY <1>1, <2>1, <2>2, <2>3, <2>5 DEF Patient
  <1> QED
    BY <1>2, <1>3 DEF FormInv

LEMMA FormAnswered ==
  ASSUME Typed, IdleReads, FormInv, SaveAnswered
  PROVE  FormInv'
  <1>0. TypeOK /\ put \in [Writers -> Puts] /\ "console" \in Writers
    BY DEF Typed, TypeOK, Writers
  <1>1. UNCHANGED formVars
    BY DEF SaveAnswered
  <1>2. CASE put["console"].pc = "refused"
    <2>1. put'["console"].pc = "idle" /\ UNCHANGED read
      BY <1>0, <1>2 DEF SaveAnswered, NoPut
    <2> QED
      BY <1>1, <2>1, FormQuiet, UnreadAwaited
  <1>3. CASE put["console"].pc # "refused"
    <2> DEFINE i == put["console"].id
    <2>0. put["console"].pc = "done" /\ i \in Ids
      BY <1>0, <1>3 DEF SaveAnswered, TypeOK
    <2>1. put'["console"].pc = "reload" /\ put'["console"].id = i
      BY <1>0, <1>3 DEF SaveAnswered, Puts
    <2>2. PICK l \in Loads : read' = [read EXCEPT ![l] = Started("save", i)]
      BY <1>3 DEF SaveAnswered, StartLoad, Started
    <2>3. Started("save", i).by = "save" /\ Started("save", i).id = i
      BY <1>0, <2>0, StartedFacts DEF Readers
    <2>4. \A m \in Loads : read'[m] = IF m = l THEN Started("save", i) ELSE read[m]
      BY <1>0, <2>2 DEF TypeOK
    <2>5. Shown'
      BY <1>1, ShownFrame DEF FormInv, formVars
    <2>6. ASSUME ~hasty' PROVE Patient'
      <3>1. Patient /\ sel' = sel
        BY <1>1, <2>6 DEF FormInv, formVars
      <3>2. Awaited = {} /\ i = sel
        BY <2>0, <3>1 DEF Patient
      <3>3. Awaited' = {l}
        BY <2>3, <2>4, <3>2 DEF Awaited
      <3> HIDE DEF i
      <3> QED
        BY <2>1, <2>3, <2>4, <3>1, <3>2, <3>3 DEF Patient
    <2> QED
      BY <2>5, <2>6 DEF FormInv
  <1> QED
    BY <1>2, <1>3

LEMMA FormStep ==
  ASSUME Typed, IdleReads, SeenInv, FormInv, [Next]_vars
  PROVE  FormInv'
  <1>0. TypeOK /\ put \in [Writers -> Puts] /\ "console" \in Writers
    BY DEF Typed, TypeOK, Writers
  <1>1. CASE CreateMachine \/ UNCHANGED vars
    BY <1>1, FormQuiet, UnreadAwaited DEF CreateMachine, vars, formVars
  <1>2. CASE UpsertGlobalRules \/ ImportGlobalRules \/ ImportMachineRules
    <2>1. SameAwaited
      BY <1>0, <1>2, GlobalWrites, ImportWrites, WritesAwaited
    <2> QED
      BY <1>2, <2>1, FormQuiet DEF UpsertGlobalRules, ImportGlobalRules, ImportMachineRules
  <1>3. ASSUME NEW i \in Ids, DeleteMachine(i) \/ OtherPuts(i) PROVE FormInv'
    <2>1. put'["console"] = put["console"]
      BY <1>0, <1>3 DEF DeleteMachine, OtherPuts
    <2> QED
      BY <1>3, <2>1, FormQuiet, UnreadAwaited DEF DeleteMachine, OtherPuts
  <1>4. ASSUME NEW i \in Ids, EvaluateSamples(i) PROVE FormInv'
    BY <1>4, EvaluateAwaited, FormQuiet DEF EvaluateSamples
  <1>5. ASSUME NEW i \in Ids, SelectMachine(i) PROVE FormInv'
    BY <1>5, FormSelect
  <1>6. ASSUME NEW w \in Writers, CheckMachine(w) \/ ReplaceMachineRules(w) PROVE FormInv'
    BY <1>6, FormReplace
  <1>7. ASSUME NEW l \in Loads, \/ GetMachine(l) \/ ListGlobalRules(l) \/ ListMachineRules(l)
                                \/ FailLoad(l) \/ RulesEvaluated(l)
        PROVE  FormInv'
    <2>1. SameAwaited
      BY <1>7, StatementAwaited
    <2> QED
      BY <1>7, <2>1, FormQuiet DEF GetMachine, ListGlobalRules, ListMachineRules, FailLoad, RulesEvaluated
  <1>8. ASSUME NEW l \in Loads, LoadArrives(l) PROVE FormInv'
    BY <1>8, FormArrives
  <1>9. CASE SelectGlobal
    BY <1>9, FormGlobal
  <1>10. ASSUME NEW d \in Dims, EditRow(d) PROVE FormInv'
    BY <1>10, FormEdit
  <1>11. CASE SubmitForm
    BY <1>11, FormSubmit
  <1>12. CASE SaveAnswered
    BY <1>12, FormAnswered
  <1> QED
    BY <1>1, <1>2, <1>3, <1>4, <1>5, <1>6, <1>7, <1>8, <1>9, <1>10, <1>11, <1>12 DEF Next

-----------------------------------------------------------------------------
(* What a save writes *)

\* buildMachineRules and ReplaceMachineRules on what toThresholdPayloads sends:
\* the row of a dimension becomes the one its payload asks for.
LEMMA SubmittedRow ==
  ASSUME NEW rows \in [Dims -> FormRows], NEW d \in Dims, NEW old
  PROVE  OwnAfter(d, Submitted(rows), old) = RowOf(ToPayload(d, rows[d]))
  <1> DEFINE p == ToPayload(d, rows[d])
             S == { q \in Explicit(Submitted(rows)) : q.dim = d }
  <1>1. p.dim = d /\ p.strategy \in Strategies /\ p \in Submitted(rows)
    BY DEF ToPayload, FormRows, Submitted
  <1>2. \A q \in Submitted(rows) : q.dim = d => q = p
    BY DEF Submitted, ToPayload
  <1>3. normalizeMachineThresholdStrategy(p) = p.strategy
    BY <1>1 DEF normalizeMachineThresholdStrategy, Strategies
  <1> HIDE DEF p
  <1>4. CASE p.strategy = "inherit"
    <2>1. S = {}
      BY <1>2, <1>3, <1>4 DEF Explicit
    <2>2. OwnAfter(d, Submitted(rows), old) = Absent
      BY <1>1, <2>1 DEF OwnAfter
    <2> QED
      BY <1>4, <2>2 DEF RowOf, p
  <1>5. CASE p.strategy # "inherit"
    <2>1. S = {p}
      BY <1>1, <1>2, <1>3, <1>5 DEF Explicit
    <2>2. (CHOOSE q \in S : TRUE) = p /\ S # {}
      BY <2>1
    <2>3. OwnAfter(d, Submitted(rows), old) =
            [mb |-> normalizeThresholdMB(p.value, p.unit),
             enabled |-> normalizeMachineThresholdStrategy(p) = "override"]
      BY <2>2 DEF OwnAfter
    <2> QED
      BY <1>3, <1>5, <2>3 DEF RowOf, p
  <1> QED
    BY <1>4, <1>5

\* Reading, displaying and sending back a row is the identity.
LEMMA RowRoundTrip ==
  ASSUME NEW g \in Tables, NEW m \in Tables, NEW d \in Dims, NEW row,
         row = mergeEffectiveRules(g, m)[d]
  PROVE  RowOf(ToPayload(d, row)) = m[d]
  <1> DEFINE p == ToPayload(d, row)
  <1>0. p.value = row.value /\ p.unit = row.unit /\ p.strategy = row.strategy
    BY DEF ToPayload
  <1>1. CASE m[d] = Absent
    <2>1. row.strategy = "inherit"
      BY <1>1 DEF mergeEffectiveRules, ThresholdRow, EmptyRows
    <2> QED
      BY <1>0, <1>1, <2>1 DEF RowOf
  <1>2. CASE m[d] # Absent
    <2>1. m[d] \in Rules
      BY <1>2, TableRow
    <2>2. row = ThresholdRow(m[d], IF m[d].enabled THEN "override" ELSE "disabled")
      BY <1>2 DEF mergeEffectiveRules
    <2>3. /\ row.strategy = IF m[d].enabled THEN "override" ELSE "disabled"
          /\ normalizeThresholdMB(row.value, row.unit) = m[d].mb
      BY <2>1, <2>2, RowFacts DEF Strategies
    <2> HIDE DEF p
    <2>4. RowOf(p) = [mb |-> m[d].mb, enabled |-> m[d].enabled]
      BY <1>0, <2>1, <2>3 DEF RowOf, Rules
    <2> QED
      BY <2>1, <2>4 DEF Rules, p
  <1> QED
    BY <1>1, <1>2

\* Only the commit of ReplaceMachineRules ends a save well.
LEMMA DoneCommits ==
  ASSUME Typed, [Next]_vars, put["console"].pc = "replace", put'["console"].pc = "done"
  PROVE  Commits("console")
  <1>0. put \in [Writers -> Puts] /\ "console" \in Writers
    BY DEF Typed, TypeOK, Writers
  <1>1. ASSUME put' = put PROVE FALSE
    BY <1>1
  <1>2. PICK w \in Writers : CheckMachine(w) \/ ReplaceMachineRules(w)
    <2>1. ASSUME NEW i \in Ids, OtherPuts(i) PROVE FALSE
      BY <1>0, <2>1 DEF OtherPuts
    <2>2. ASSUME NEW l \in Loads, LoadArrives(l) PROVE FALSE
      BY <1>0, <1>1, <2>2 DEF LoadArrives, NoPut
    <2>3. ~SubmitForm /\ ~SaveAnswered
      BY DEF SubmitForm, SaveAnswered
    <2> QED
      BY <1>1, <2>1, <2>2, <2>3
        DEF Next, CreateMachine, UpsertGlobalRules, ImportGlobalRules, ImportMachineRules, DeleteMachine,
            EvaluateSamples, SelectMachine, GetMachine, ListGlobalRules, ListMachineRules,
            FailLoad, RulesEvaluated, SelectGlobal, EditRow, vars
  <1>3. w = "console"
    BY <1>0, <1>2 DEF CheckMachine, ReplaceMachineRules
  <1>4. ReplaceMachineRules("console")
    BY <1>2, <1>3 DEF CheckMachine
  <1>5. CASE put' = [put EXCEPT !["console"] = Answered("console", "refused")]
    <2>1. put'["console"].pc = "refused"
      BY <1>0, <1>5 DEF Answered, Puts
    <2> QED
      BY <2>1
  <1> QED
    BY <1>4, <1>5 DEF ReplaceMachineRules, Commits

LEMMA UntouchedStep ==
  ASSUME Typed, FormInv, [Next]_vars, put["console"].pc = "replace", put'["console"].pc = "done", ~hasty
  PROVE  LET i == put["console"].id IN
           /\ basis.id = i
           /\ own[i] = basis.own => \A d \in Dims \ edited : own'[i][d] = own[i][d]
  <1> DEFINE i == put["console"].id
             req == put["console"].req
  <1>0. /\ TypeOK /\ own \in [Ids -> Tables] /\ i \in Ids /\ Patient /\ Shown /\ basis.own \in Tables
        /\ Commits("console")
    BY DoneCommits DEF Typed, TypeOK, FormInv, Writers
  <1>1. i = sel /\ i # Absent /\ Awaited = {}
    BY <1>0, ThresholdAssumption DEF Patient, Ids
  <1>2. basis.id = i
    BY <1>0, <1>1 DEF Patient
  <1>3. PICK rows \in [Dims -> FormRows] : Holds(rows)
    BY <1>0 DEF Patient
  <1>4. ASSUME own[i] = basis.own, NEW d \in Dims \ edited PROVE own'[i][d] = own[i][d]
    <2>1. PICK g \in Tables : form[d] = mergeEffectiveRules(g, basis.own)[d]
      BY <1>0, <1>4 DEF Shown
    <2>2. rows[d] = mergeEffectiveRules(g, own[i])[d] /\ req = Submitted(rows)
      BY <1>3, <1>4, <2>1 DEF Holds
    <2>3. own' = [own EXCEPT ![i] = [e \in Dims |-> OwnAfter(e, req, own[i][e])]]
      BY <1>0 DEF Commits
    <2> HIDE DEF i, req
    <2>4. own'[i][d] = OwnAfter(d, req, own[i][d])
      BY <1>0, <2>3
    <2>5. OwnAfter(d, req, own[i][d]) = RowOf(ToPayload(d, rows[d]))
      BY <2>2, SubmittedRow
    <2>6. RowOf(ToPayload(d, rows[d])) = own[i][d]
      BY <1>0, <2>2, RowRoundTrip
    <2> QED
      BY <2>4, <2>5, <2>6
  <1> QED
    BY <1>2, <1>4

\* An administrator who waits for answers saves to the machine whose rules are
\* shown, and handleSaveMachineThresholds, buildMachineRules and
\* ReplaceMachineRules leave every row alone that was not edited.
THEOREM ThresholdUntouchedRowsAreKept == Spec => UntouchedRowsAreKept
  <1> DEFINE I == Typed /\ IdleReads /\ SeenInv /\ FormInv
  <1>1. Init => I
    BY TypedInit, IdleInit, SeenInit, FormInit
  <1>2. I /\ [Next]_vars => I'
    BY TypedStep, IdleStep, SeenStep, FormStep
  <1>3. I /\ [Next]_vars =>
          [ put["console"].pc = "replace" /\ put'["console"].pc = "done" /\ ~hasty =>
              LET i == put["console"].id IN
                /\ basis.id = i
                /\ own[i] = basis.own => \A d \in Dims \ edited : own'[i][d] = own[i][d] ]_vars
    BY UntouchedStep
  <1> QED
    BY <1>1, <1>2, <1>3, PTL DEF Spec, UntouchedRowsAreKept

-----------------------------------------------------------------------------
(* What is shown after a save *)

LEMMA SaveInit == ASSUME Init PROVE SaveInv
  <1>1. put["console"].pc = "idle" /\ \A l \in Loads : read[l].by = Absent
    BY DEF Init, NoPut, NoRead, Writers
  <1>2. Absent # "save"
    BY ThresholdAssumption DEF Readers
  <1> QED
    BY <1>1, <1>2 DEF SaveInv, Sent, Kept, Follows, OneSave

\* The console's save is as it was.
SamePut == put'["console"] = put["console"]

\* A write outdates what a save has written.
LEMMA SaveWrites ==
  ASSUME TypeOK, SaveInv, Writes, SamePut
  PROVE  SaveInv'
  <1>1. saves \in Nat /\ put["console"].at \in Nat /\ saves' = saves + 1
    BY PutParts DEF TypeOK, Writers, Writes
  <1>2. \A l \in Loads : read'[l].by = read[l].by /\ read'[l].pc = read[l].pc /\ read'[l].id = read[l].id
    BY NotedFacts DEF Writes, TablesTyped
  <1>3. put["console"].pc \in {"done", "reload"} => put'["console"].at < saves'
    BY <1>1 DEF SaveInv, Kept, SamePut
  <1>4. Sent'
    BY DEF SaveInv, Sent, SamePut
  <1>5. Kept'
    BY <1>1, <1>3 DEF Kept, SamePut
  <1>6. \A l \in Loads : Follows(l)'
    BY <1>1, <1>2, <1>3 DEF SaveInv, Follows, SamePut
  <1>7. OneSave'
    BY <1>2 DEF SaveInv, OneSave
  <1> QED
    BY <1>4, <1>5, <1>6, <1>7 DEF SaveInv

\* A read that is no load after a save, or a statement of one.
LEMMA SaveMoves ==
  ASSUME TypeOK, SaveInv, SamePut, UNCHANGED <<own, saves>>, NEW l \in Loads, NEW r,
         read' = [read EXCEPT ![l] = r],
         \/ r.by # "save"
         \/ /\ r.by = read[l].by
            /\ r.pc \in Active \cup {"answer"} =>
                 read[l].pc \in Active \cup {"answer"} /\ r.id = read[l].id
            /\ r.pc = "answer" => r.own = own[read[l].id]
  PROVE  SaveInv'
  <1>1. \A m \in Loads : read'[m] = IF m = l THEN r ELSE read[m]
    BY DEF TypeOK
  <1>2. Sent' /\ Kept'
    BY DEF SaveInv, Sent, Kept, SamePut
  <1>3. ASSUME NEW m \in Loads PROVE Follows(m)'
    <2>1. CASE m # l
      BY <1>1, <2>1 DEF SaveInv, Follows, SamePut
    <2>2. CASE m = l
      BY <1>1, <2>2 DEF SaveInv, Follows, SamePut
    <2> QED
      BY <2>1, <2>2
  <1>4. OneSave'
    BY <1>1 DEF SaveInv, OneSave
  <1> QED
    BY <1>2, <1>3, <1>4 DEF SaveInv

LEMMA SaveStatement ==
  ASSUME Typed, SaveInv, NEW l \in Loads,
         \/ GetMachine(l) \/ ListGlobalRules(l) \/ ListMachineRules(l)
         \/ FailLoad(l) \/ RulesEvaluated(l)
  PROVE  SaveInv'
  <1>0. TypeOK /\ read[l] \in Reads
    BY ReadParts DEF Typed
  <1>s. SamePut /\ UNCHANGED <<own, saves>>
    BY DEF GetMachine, ListGlobalRules, ListMachineRules, FailLoad, RulesEvaluated, dbVars, SamePut
  <1>1. CASE read' = [read EXCEPT ![l] = Failed(l)]
    BY <1>0, <1>s, <1>1, FailedFacts, SaveMoves DEF Active
  <1>2. CASE RulesEvaluated(l)
    <2>1. read' = [read EXCEPT ![l] = NoRead] /\ NoRead.by # "save"
      BY <1>2, ThresholdAssumption DEF RulesEvaluated, NoRead, Readers
    <2> QED
      BY <1>0, <1>s, <2>1, SaveMoves
  <1>3. CASE GetMachine(l) /\ read' # [read EXCEPT ![l] = Failed(l)]
    <2>1. read[l].pc = "machine" /\ read' = [read EXCEPT ![l] = [read[l] EXCEPT !.pc = "global"]]
      BY <1>3 DEF GetMachine
    <2>2. LET r == [read[l] EXCEPT !.pc = "global"]
          IN r.by = read[l].by /\ r.id = read[l].id /\ r.pc = "global"
      BY <1>0 DEF Reads
    <2> QED
      BY <1>0, <1>s, <2>1, <2>2, SaveMoves DEF Active
  <1>4. CASE ListGlobalRules(l)
    <2>1. read[l].pc = "global" /\ read' = [read EXCEPT ![l] = [read[l] EXCEPT !.pc = "own", !.global = global]]
      BY <1>4 DEF ListGlobalRules
    <2>2. LET r == [read[l] EXCEPT !.pc = "own", !.global = global]
          IN r.by = read[l].by /\ r.id = read[l].id /\ r.pc = "own"
      BY <1>0 DEF Reads
    <2> QED
      BY <1>0, <1>s, <2>1, <2>2, SaveMoves DEF Active
  <1>5. CASE ListMachineRules(l)
    <2> DEFINE r == [read[l] EXCEPT !.pc = "answer", !.own = own[read[l].id],
                       !.answer = mergeEffectiveRules(read[l].global, own[read[l].id])]
    <2>1. read[l].pc = "own" /\ read' = [read EXCEPT ![l] = r]
      BY <1>5 DEF ListMachineRules
    <2>2. r.by = read[l].by /\ r.id = read[l].id /\ r.own = own[read[l].id]
      BY <1>0, <2>1, AnswerFacts
    <2> HIDE DEF r
    <2> QED
      BY <1>0, <1>s, <2>1, <2>2, SaveMoves DEF Active
  <1> QED
    BY <1>1, <1>2, <1>3, <1>4, <1>5 DEF FailLoad

\* A read begins for somebody else.
LEMMA SaveStart ==
  ASSUME TypeOK, SaveInv, SamePut, UNCHANGED <<own, saves>>, NEW i \in Ids,
         NEW l \in Loads, NEW who \in {"select", "alerts"}, StartLoad(l, who, i)
  PROVE  SaveInv'
  <1>1. Started(who, i).by = who
    BY StartedFacts DEF Readers
  <1>2. read' = [read EXCEPT ![l] = Started(who, i)]
    BY DEF StartLoad, Started
  <1> QED
    BY <1>1, <1>2, SaveMoves

\* CheckMachine, and a save that is refused.
LEMMA SaveCheck ==
  ASSUME Typed, SaveInv, NEW w \in Writers, CheckMachine(w) \/ ReplaceMachineRules(w), ~Commits(w)
  PROVE  SaveInv'
  <1>0. TypeOK /\ put \in [Writers -> Puts] /\ "console" \in Writers
    BY DEF Typed, TypeOK, Writers
  <1>1. UNCHANGED <<own, saves, read>>
    BY DEF CheckMachine, ReplaceMachineRules, Commits, dbVars
  <1>2. CASE w # "console"
    <2>1. SamePut
      BY <1>0, <1>2 DEF CheckMachine, ReplaceMachineRules, SamePut
    <2> QED
      BY <1>1, <2>1 DEF SaveInv, Sent, Kept, Follows, OneSave, SamePut
  <1>3. CASE w = "console"
    <2> DEFINE c == put["console"]
    <2>0. c \in Puts
      BY <1>0
    <2>1. /\ c.pc \in {"check", "replace"}
          /\ \/ put'["console"] = [c EXCEPT !.pc = "replace"]
             \/ put'["console"] = [c EXCEPT !.pc = "refused"]
      BY <1>0, <1>3 DEF CheckMachine, ReplaceMachineRules, Answered, Commits
    <2>2. put'["console"].pc \in {"replace", "refused"} /\ put'["console"].req = c.req
      BY <2>0, <2>1 DEF Puts
    <2>3. \A l \in Loads : read[l].by # "save"
      BY <2>1 DEF SaveInv, Follows
    <2> QED
      BY <1>1, <2>1, <2>2, <2>3 DEF SaveInv, Sent, Kept, Follows, OneSave
  <1> QED
    BY <1>2, <1>3

\* ReplaceMachineRules commits: the table has what was sent.
LEMMA SaveCommits ==
  ASSUME Typed, SaveInv, NEW w \in Writers, Commits(w)
  PROVE  SaveInv'
  <1>0. TypeOK /\ put \in [Writers -> Puts] /\ "console" \in Writers /\ Writes
    BY CommitWrites DEF Typed, TypeOK, Writers
  <1>1. CASE w # "console"
    <2>1. SamePut
      BY <1>0, <1>1 DEF Commits, SamePut
    <2> QED
      BY <1>0, <2>1, SaveWrites
  <1>2. CASE w = "console"
    <2> DEFINE c == put["console"]
               i == put["console"].id
    <2>0. c \in Puts /\ c.pc = "replace" /\ i \in Ids /\ saves' = saves + 1 /\ saves \in Nat
      BY <1>0, <1>2 DEF Commits, TypeOK
    <2>1. put'["console"] = [[c EXCEPT !.pc = "done"] EXCEPT !.at = saves + 1]
      BY <1>0, <1>2 DEF Commits, Answered
    <2>2. /\ put'["console"].pc = "done" /\ put'["console"].req = c.req
          /\ put'["console"].at = saves' /\ put'["console"].id = i
      BY <2>0, <2>1 DEF Puts
    <2>3. PICK rows \in [Dims -> FormRows] : c.req = Submitted(rows)
      BY <2>0 DEF SaveInv, Sent
    <2>4. own'[i] = [d \in Dims |-> OwnAfter(d, c.req, own[i][d])]
      BY <1>0, <1>2, <2>0 DEF Commits, TypeOK
    <2>5. Written(c.req, own'[i])
      <3>1. SUFFICES ASSUME NEW p \in Submitted(rows)
                     PROVE  own'[i][p.dim] = RowOf(p) /\ (p.strategy # "inherit" => RowOf(p) \in Rules)
        BY <2>3 DEF Written
      <3>2. PICK d \in Dims : p = ToPayload(d, rows[d])
        BY DEF Submitted
      <3>3. p.dim = d /\ p.strategy \in Strategies /\ p.value \in Nat
        BY <3>2 DEF ToPayload, FormRows
      <3>4. own'[i][p.dim] = RowOf(p)
        <4> HIDE DEF i
        <4> QED
          BY <2>3, <2>4, <3>2, <3>3, SubmittedRow
      <3>5. ASSUME p.strategy # "inherit" PROVE RowOf(p) \in Rules
        <4>1. ValidMachine(Submitted(rows))
          BY <1>0, <2>0, <2>3 DEF Typed, PutValid
        <4>2. normalizeMachineThresholdStrategy(p) = p.strategy
          BY <3>3 DEF normalizeMachineThresholdStrategy, Strategies
        <4>3. normalizeThresholdMB(p.value, p.unit) \in Nat \ {0}
          BY <3>3, <3>5, <4>1, <4>2, NormType DEF ValidMachine
        <4> QED
          BY <3>5, <4>3 DEF RowOf, Rules
      <3> QED
        BY <3>4, <3>5
    <2>6. \A l \in Loads : read'[l].by # "save"
      BY <1>0, <2>0, NotedFacts DEF SaveInv, Follows, Writes, TablesTyped
    <2>7. Sent'
      BY <2>2, <2>3 DEF Sent
    <2>8. Kept'
      BY <2>0, <2>2, <2>5 DEF Kept
    <2> QED
      BY <2>6, <2>7, <2>8 DEF SaveInv, Follows, OneSave
  <1> QED
    BY <1>1, <1>2

\* The answer of a load arrives; that of the load after a save ends the save.
LEMMA SaveArrives ==
  ASSUME Typed, SaveInv, NEW l \in Loads, LoadArrives(l)
  PROVE  SaveInv'
  <1>0. TypeOK /\ put \in [Writers -> Puts] /\ "console" \in Writers
    BY DEF Typed, TypeOK, Writers
  <1>1. read' = [read EXCEPT ![l] = NoRead] /\ UNCHANGED <<own, saves>>
    BY DEF LoadArrives, dbVars
  <1>2. NoRead.by # "save"
    BY ThresholdAssumption DEF NoRead, Readers
  <1>3. CASE read[l].by = "select"
    <2>1. SamePut
      BY <1>3 DEF LoadArrives, SamePut
    <2> QED
      BY <1>0, <1>1, <1>2, <2>1, SaveMoves
  <1>4. CASE read[l].by = "save"
    <2>1. put'["console"].pc = "idle"
      BY <1>0, <1>4 DEF LoadArrives, NoPut
    <2>2. \A m \in Loads : read'[m] = IF m = l THEN NoRead ELSE read[m]
      BY <1>0, <1>1 DEF TypeOK
    <2>3. \A m \in Loads : read'[m].by # "save"
      BY <1>2, <1>4, <2>2 DEF SaveInv, OneSave
    <2> QED
      BY <2>1, <2>3 DEF SaveInv, Sent, Kept, Follows, OneSave
  <1> QED
    BY <1>3, <1>4 DEF LoadArrives

LEMMA SaveSubmits ==
  ASSUME Typed, SaveInv, SubmitForm
  PROVE  SaveInv'
  <1>0. put \in [Writers -> Puts] /\ "console" \in Writers /\ form \in [Dims -> FormRows]
    BY DEF Typed, TypeOK, Writers
  <1>1. put'["console"].pc = "check" /\ put'["console"].req = Submitted(form) /\ UNCHANGED read
    BY <1>0 DEF SubmitForm, NoPut
  <1>2. \A l \in Loads : read[l].by # "save"
    BY DEF SaveInv, SubmitForm, Follows
  <1> QED
    BY <1>0, <1>1, <1>2 DEF SaveInv, Sent, Kept, Follows, OneSave

LEMMA SaveReloads ==
  ASSUME Typed, SaveInv, SaveAnswered
  PROVE  SaveInv'
  <1>0. TypeOK /\ put \in [Writers -> Puts] /\ "console" \in Writers /\ UNCHANGED <<own, saves>>
    BY DEF Typed, TypeOK, Writers, SaveAnswered, dbVars
  <1>1. \A l \in Loads : read[l].by # "save"
    BY DEF SaveInv, SaveAnswered, Follows
  <1>2. CASE put["console"].pc = "refused"
    <2>1. put'["console"].pc = "idle" /\ UNCHANGED read
      BY <1>0, <1>2 DEF SaveAnswered, NoPut
    <2> QED
      BY <1>1, <2>1 DEF SaveInv, Sent, Kept, Follows, OneSave
  <1>3. CASE put["console"].pc # "refused"
    <2> DEFINE c == put["console"]
               i == put["console"].id
    <2>0. c.pc = "done" /\ i \in Ids /\ c \in Puts
      BY <1>0, <1>3 DEF SaveAnswered, TypeOK
    <2>1. /\ put'["console"].pc = "reload" /\ put'["console"].id = i
          /\ put'["console"].req = c.req /\ put'["console"].at = c.at
      BY <1>0, <1>3 DEF SaveAnswered, Puts
    <2>2. PICK l \in Loads : read' = [read EXCEPT ![l] = Started("save", i)]
      BY <1>3 DEF SaveAnswered, StartLoad, Started
    <2>3. Started("save", i).by = "save" /\ Started("save", i).id = i /\ Started("save", i).pc = "machine"
      BY <1>0, <2>0, StartedFacts DEF Readers
    <2>4. \A m \in Loads : read'[m] = IF m = l THEN Started("save", i) ELSE read[m]
      BY <1>0, <2>2 DEF TypeOK
    <2>5. Sent' /\ Kept'
      BY <1>0, <2>0, <2>1 DEF SaveInv, Sent, Kept
    <2>6. \A m \in Loads : Follows(m)'
      BY <1>1, <2>1, <2>3, <2>4 DEF Follows
    <2>7. OneSave'
      BY <1>1, <2>4 DEF OneSave
    <2> QED
      BY <2>5, <2>6, <2>7 DEF SaveInv
  <1> QED
    BY <1>2, <1>3

LEMMA SaveStep ==
  ASSUME Typed, SaveInv, [Next]_vars
  PROVE  SaveInv'
  <1>0. TypeOK /\ put \in [Writers -> Puts] /\ "console" \in Writers
    BY DEF Typed, TypeOK, Writers
  <1>q. ASSUME SamePut, UNCHANGED <<own, saves, read>> PROVE SaveInv'
    BY <1>q DEF SaveInv, Sent, Kept, Follows, OneSave, SamePut
  <1>1. CASE CreateMachine \/ SelectGlobal \/ UNCHANGED vars
    BY <1>q, <1>1 DEF CreateMachine, SelectGlobal, vars, dbVars, SamePut
  <1>2. CASE UpsertGlobalRules \/ ImportGlobalRules \/ ImportMachineRules
    <2>1. Writes /\ SamePut
      BY <1>2, GlobalWrites, ImportWrites
        DEF UpsertGlobalRules, ImportGlobalRules, ImportMachineRules, SamePut
    <2> QED
      BY <1>0, <2>1, SaveWrites
  <1>3. ASSUME NEW i \in Ids, DeleteMachine(i) \/ OtherPuts(i) PROVE SaveInv'
    <2>1. SamePut /\ UNCHANGED <<own, saves, read>>
      BY <1>0, <1>3 DEF DeleteMachine, OtherPuts, dbVars, SamePut
    <2> QED
      BY <1>q, <2>1
  <1>4. ASSUME NEW i \in Ids, EvaluateSamples(i) \/ SelectMachine(i) PROVE SaveInv'
    <2>1. SamePut /\ UNCHANGED <<own, saves>>
      BY <1>4 DEF EvaluateSamples, SelectMachine, dbVars, SamePut
    <2> QED
      BY <1>0, <1>4, <2>1, SaveStart DEF EvaluateSamples, SelectMachine
  <1>5. ASSUME NEW w \in Writers, CheckMachine(w) \/ ReplaceMachineRules(w) PROVE SaveInv'
    BY <1>5, SaveCheck, SaveCommits
  <1>6. ASSUME NEW l \in Loads, \/ GetMachine(l) \/ ListGlobalRules(l) \/ ListMachineRules(l)
                                \/ FailLoad(l) \/ RulesEvaluated(l)
        PROVE  SaveInv'
    BY <1>6, SaveStatement
  <1>7. ASSUME NEW l \in Loads, LoadArrives(l) PROVE SaveInv'
    BY <1>7, SaveArrives
  <1>8. ASSUME NEW d \in Dims, EditRow(d) PROVE SaveInv'
    BY <1>q, <1>8 DEF EditRow, dbVars, SamePut
  <1>9. CASE SubmitForm
    BY <1>9, SaveSubmits
  <1>10. CASE SaveAnswered
    BY <1>10, SaveReloads
  <1> QED
    BY <1>1, <1>2, <1>3, <1>4, <1>5, <1>6, <1>7, <1>8, <1>9, <1>10 DEF Next

\* What a row of the answer shows of the row a payload asked for.
LEMMA WrittenIsShown ==
  ASSUME NEW g \in Tables, NEW m \in Tables, NEW p, NEW d \in Dims,
         p.strategy \in Strategies, m[d] = RowOf(p), p.strategy # "inherit" => RowOf(p) \in Rules
  PROVE  Agrees(p, mergeEffectiveRules(g, m)[d])
  <1> DEFINE row == mergeEffectiveRules(g, m)[d]
  <1>1. CASE p.strategy = "inherit"
    <2>1. m[d] = Absent
      BY <1>1 DEF RowOf
    <2>2. row.strategy = "inherit"
      BY <2>1 DEF mergeEffectiveRules, ThresholdRow, EmptyRows
    <2> QED
      BY <1>1, <2>2 DEF Agrees
  <1>2. CASE p.strategy # "inherit"
    <2> DEFINE mb == normalizeThresholdMB(p.value, p.unit)
               on == p.strategy = "override"
    <2>1. m[d] \in Rules /\ m[d] # Absent
      BY <1>2, ThresholdAssumption
    <2>2. m[d].mb = mb /\ m[d].enabled = on
      BY <1>2 DEF RowOf
    <2>3. row = ThresholdRow(m[d], IF on THEN "override" ELSE "disabled")
      BY <2>1, <2>2 DEF mergeEffectiveRules
    <2>4. /\ row.enabled = on /\ row.strategy = IF on THEN "override" ELSE "disabled"
          /\ normalizeThresholdMB(row.value, row.unit) = mb
      BY <2>1, <2>2, <2>3, RowFacts DEF Strategies
    <2>5. row.strategy = p.strategy
      BY <1>2, <2>4 DEF Strategies
    <2> HIDE DEF row
    <2> QED
      BY <2>4, <2>5 DEF Agrees, row
  <1> QED
    BY <1>1, <1>2

\* An answer the console waited for disappears only by arriving.
LEMMA AnswerArrives ==
  ASSUME Typed, [Next]_vars, NEW l \in Loads,
         read[l].by = "save", read[l].pc = "answer", read'[l].pc = "idle"
  PROVE  LoadArrives(l)
  <1>0. TypeOK /\ read \in [Loads -> Reads]
    BY DEF Typed, TypeOK
  <1>1. ASSUME read'[l].pc = read[l].pc PROVE FALSE
    BY <1>1
  <1>2. ~Writes
    BY <1>0, <1>1, NotedFacts DEF Writes, TablesTyped
  <1>3. ASSUME NEW w \in Writers, CheckMachine(w) \/ ReplaceMachineRules(w) PROVE FALSE
    <2>1. CASE Commits(w)
      BY <1>2, <2>1, CommitWrites
    <2>2. CASE ~Commits(w)
      BY <1>1, <1>3, <2>2 DEF CheckMachine, ReplaceMachineRules, Commits
    <2> QED
      BY <2>1, <2>2
  <1>4. ASSUME NEW m \in Loads, NEW who, NEW i, StartLoad(m, who, i) PROVE FALSE
    <2>1. m # l /\ \E r : read' = [read EXCEPT ![m] = r]
      BY <1>4 DEF StartLoad
    <2> QED
      BY <1>0, <1>1, <2>1
  <1>5. ASSUME NEW m \in Loads, \/ GetMachine(m) \/ ListGlobalRules(m) \/ ListMachineRules(m)
                                \/ FailLoad(m) \/ RulesEvaluated(m)
        PROVE  FALSE
    <2>1. m # l /\ \E r : read' = [read EXCEPT ![m] = r]
      BY <1>5 DEF GetMachine, ListGlobalRules, ListMachineRules, FailLoad, RulesEvaluated
    <2> QED
      BY <1>0, <1>1, <2>1
  <1>6. ASSUME NEW m \in Loads, m # l, LoadArrives(m) PROVE FALSE
    BY <1>0, <1>1, <1>6 DEF LoadArrives
  <1>7. CASE UpsertGlobalRules \/ ImportGlobalRules \/ ImportMachineRules
    BY <1>2, <1>7, GlobalWrites, ImportWrites
  <1> QED
    BY <1>1, <1>3, <1>4, <1>5, <1>6, <1>7
      DEF Next, CreateMachine, DeleteMachine, OtherPuts, EvaluateSamples, SelectMachine,
          SelectGlobal, EditRow, SubmitForm, SaveAnswered, vars

LEMMA SavedStep ==
  ASSUME Typed, SeenInv, SaveInv, [Next]_vars, NEW l \in Loads,
         read[l].by = "save", read[l].pc = "answer", read'[l].pc = "idle",
         saves = put["console"].at
  PROVE  \A p \in put["console"].req : Agrees(p, form'[p.dim])
  <1> DEFINE c == put["console"]
             m == own[c.id]
  <1>0. TypeOK /\ read[l].global \in Tables
    BY ReadParts DEF Typed
  <1>1. form' = mergeEffectiveRules(read[l].global, read[l].own)
    BY AnswerArrives DEF LoadArrives, SeenInv, Seen
  <1>2. c.pc = "reload" /\ read[l].own = m /\ c.id \in Ids
    BY <1>0 DEF SaveInv, Follows, TypeOK, Writers
  <1>3. Written(c.req, m) /\ m \in Tables
    BY <1>0, <1>2 DEF SaveInv, Kept, TypeOK
  <1>4. PICK rows \in [Dims -> FormRows] : c.req = Submitted(rows)
    BY <1>2 DEF SaveInv, Sent
  <1>5. SUFFICES ASSUME NEW p \in c.req PROVE Agrees(p, form'[p.dim])
    OBVIOUS
  <1>6. p.dim \in Dims /\ p.strategy \in Strategies
    BY <1>4 DEF Submitted, ToPayload, FormRows
  <1> HIDE DEF m
  <1>7. m[p.dim] = RowOf(p) /\ (p.strategy # "inherit" => RowOf(p) \in Rules)
    BY <1>3 DEF Written
  <1> QED
    BY <1>0, <1>1, <1>2, <1>3, <1>6, <1>7, WrittenIsShown

\* What SaveAnswered's load shows after a save is what was sent, unless rules
\* were written again in between: buildMachineRules, the replacing transaction,
\* mergeEffectiveRules and displayThresholdValue lose nothing on the way.
THEOREM ThresholdSavedIsShown == Spec => SavedIsShown
  <1> DEFINE I == Typed /\ SeenInv /\ SaveInv
  <1>1. Init => I
    BY TypedInit, SeenInit, SaveInit
  <1>2. I /\ [Next]_vars => I'
    BY TypedStep, SeenStep, SaveStep
  <1>3. I /\ [Next]_vars =>
          [ \A l \in Loads :
              read[l].by = "save" /\ read[l].pc = "answer" /\ read'[l].pc = "idle"
                /\ saves = put["console"].at =>
                  \A p \in put["console"].req : Agrees(p, form'[p.dim]) ]_vars
    BY SavedStep
  <1> QED
    BY <1>1, <1>2, <1>3, PTL DEF Spec, SavedIsShown

====
