---------------------------- MODULE ThresholdRules ----------------------------
(***************************************************************************)
(* Thresholds: internal/service/threshold_service.go over the two rule     *)
(* tables of internal/repo/threshold_rule_repo.go, and the console's form  *)
(* for one machine's rules (web/src/App.tsx, web/src/lib/app-utils.ts).    *)
(*                                                                         *)
(* The effective rules of a machine are read in three statements, by the   *)
(* console and by every alert evaluation; a machine's rules are saved in   *)
(* a check and a transaction. Administrators, imports and deletions come   *)
(* in between. The console asks for a machine's rules when the machine is  *)
(* selected, and shows whatever answer arrives.                            *)
(***************************************************************************)
EXTENDS Naturals, FiniteSets

CONSTANTS
  Dims,        \* period and metric of a rule
  Values,      \* the numbers an administrator may type, 0 for a blank field
  GB,          \* 1024, the megabytes in a gigabyte
  Requests,    \* sets of payloads other clients may send
  Loads,       \* reads of a machine's effective rules
  MaxMachines, \* bound: machine ids that are ever given
  MaxActs,     \* bound: requests made and things done in the console
  Absent       \* no row, no machine, nothing

Ids == 1..MaxMachines
Units == {"MB", "GB"}
Strategies == {"inherit", "override", "disabled"}
Rules == [mb : Nat \ {0}, enabled : BOOLEAN]
Tables == [Dims -> Rules \cup {Absent}]
NoRules == [d \in Dims |-> Absent]
Readers == {"select", "save", "alerts"}

\* dto.ThresholdRulePayload; strategy "" stands for a request without one, and
\* "other" for one the service does not know.
Payloads == [dim : Dims, value : Nat, unit : Units \cup {"other"}, enabled : BOOLEAN,
             strategy : Strategies \cup {"", "other"}]

\* A row of the console's form, and of the answer it is filled from.
FormRows == [value : Nat, unit : Units, enabled : BOOLEAN, strategy : Strategies]
EmptyRows == [d \in Dims |-> [value |-> 0, unit |-> "GB", enabled |-> FALSE,
                              strategy |-> "inherit"]]

ASSUME ThresholdAssumption ==
  /\ Values \subseteq Nat
  /\ GB \in Nat /\ GB > 1
  /\ Requests \subseteq SUBSET Payloads
  /\ \A r \in Requests : IsFiniteSet(r)
  /\ MaxMachines \in Nat \ {0} /\ MaxActs \in Nat
  /\ Absent \notin Rules /\ Absent \notin Nat /\ Absent \notin Readers

VARIABLES
  exists,   \* ids of the machines table
  nextId,   \* the id the next machine gets
  global,   \* global_threshold_rules
  own,      \* machine_threshold_rules, per machine id
  read,     \* reads of effective rules under way
  put,      \* PUT requests for machine rules, of the console and of others
  saves,    \* history: how often rules were written
  acts,     \* what was done so far, for the bound
  sel,      \* selectedThresholdMachineID
  form,     \* machineThresholdForm
  clean,    \* machineThresholdsSaved: the save button is disabled
  basis,    \* history: the machine and the own rules the form was filled from
  edited,   \* history: rows changed since the form was filled
  hasty     \* history: a selection or a save did not wait for an answer, or an
            \* answer was an error

dbVars == <<exists, nextId, global, own, saves>>
formVars == <<sel, form, clean, basis, edited, hasty>>
vars == <<exists, nextId, global, own, saves, acts, read, put,
          sel, form, clean, basis, edited, hasty>>

-----------------------------------------------------------------------------
(* Requests *)

\* normalizeThresholdMB, 0 standing for its error.
normalizeThresholdMB(value, unit) ==
  CASE unit = "MB" -> value
    [] unit = "GB" -> value * GB
    [] OTHER -> 0

\* normalizeMachineThresholdStrategy for a strategy it accepts.
normalizeMachineThresholdStrategy(p) ==
  IF p.strategy # "" THEN p.strategy
  ELSE IF p.enabled THEN "override" ELSE "disabled"

\* buildGlobalRules succeeds: every row has a threshold, disabled ones too.
ValidGlobal(req) == \A p \in req : normalizeThresholdMB(p.value, p.unit) > 0

\* buildMachineRules succeeds: a threshold is required of all but inherited rows.
ValidMachine(req) ==
  \A p \in req :
    /\ p.strategy # "other"
    /\ \/ normalizeMachineThresholdStrategy(p) = "inherit"
       \/ normalizeThresholdMB(p.value, p.unit) > 0

\* INSERT ... ON CONFLICT DO UPDATE refuses a statement that has a row twice.
OncePerDim(S) == \A p, q \in S : p.dim = q.dim => p = q

\* The row of dimension d after UpsertGlobalRules of req.
GlobalAfter(d, req, old) ==
  LET S == { p \in req : p.dim = d } IN
    IF S = {} THEN old
    ELSE LET p == CHOOSE p \in S : TRUE IN
           [mb |-> normalizeThresholdMB(p.value, p.unit), enabled |-> p.enabled]

Explicit(req) == { p \in req : normalizeMachineThresholdStrategy(p) # "inherit" }

OwnAfterUpsertOnly(d, req, old) ==
  LET S == { p \in Explicit(req) : p.dim = d } IN
    IF S # {}
    THEN LET p == CHOOSE p \in S : TRUE IN
           [mb |-> normalizeThresholdMB(p.value, p.unit),
            enabled |-> normalizeMachineThresholdStrategy(p) = "override"]
    ELSE old

\* The row of dimension d after ReplaceMachineRules: inherited dimensions are
\* deleted first, then the others written.
OwnAfter(d, req, old) ==
  LET S == { p \in Explicit(req) : p.dim = d } IN
    IF S # {}
    THEN LET p == CHOOSE p \in S : TRUE IN
           [mb |-> normalizeThresholdMB(p.value, p.unit),
            enabled |-> normalizeMachineThresholdStrategy(p) = "override"]
    ELSE IF \E p \in req : p.dim = d THEN Absent ELSE old

-----------------------------------------------------------------------------
(* Answers *)

UnitBySize(mb) == IF mb >= GB THEN "GB" ELSE "MB"

\* displayThresholdValue
DisplayValue(mb) == IF mb % GB = 0 THEN mb \div GB ELSE mb
DisplayUnit(mb) == IF mb % GB = 0 THEN "GB" ELSE "MB"

\* thresholdRuleResp as the console keeps it (toThresholdFormRows).
ThresholdRow(rule, strategy) ==
  [value |-> DisplayValue(rule.mb), unit |-> DisplayUnit(rule.mb),
   enabled |-> rule.enabled, strategy |-> strategy]

MergeEnabledOnly(g, m) ==
  [d \in Dims |->
     IF m[d] # Absent /\ m[d].enabled THEN ThresholdRow(m[d], "override")
     ELSE IF g[d] # Absent THEN ThresholdRow(g[d], "inherit")
     ELSE EmptyRows[d]]

\* mergeEffectiveRules: a machine's own row, enabled or not, replaces the
\* global one of its dimension; it needs no global one. A dimension with
\* neither is not in the answer, and an empty row in the form.
mergeEffectiveRules(g, m) ==
  [d \in Dims |->
     IF m[d] # Absent
     THEN ThresholdRow(m[d], IF m[d].enabled THEN "override" ELSE "disabled")
     ELSE IF g[d] # Absent THEN ThresholdRow(g[d], "inherit")
     ELSE EmptyRows[d]]

\* What is in force: the threshold in MB, Absent when nothing is watched.
InForce(g, m, d) ==
  LET rule == IF m[d] = Absent THEN g[d] ELSE m[d] IN
    IF rule = Absent \/ ~rule.enabled THEN Absent ELSE rule.mb

\* The threshold an answer makes the alert evaluation compare with: threshold_mb,
\* which the answer carries beside its value and unit.
Watched(row) == IF row.enabled THEN normalizeThresholdMB(row.value, row.unit) ELSE Absent

\* toThresholdPayloads for a machine.
ToPayload(d, row) ==
  [dim |-> d, value |-> row.value, unit |-> row.unit,
   enabled |-> row.strategy = "override", strategy |-> row.strategy]
Submitted(rows) == { ToPayload(d, rows[d]) : d \in Dims }

\* parseThresholdValue throws for no row.
Parses(rows) == \A d \in Dims : rows[d].strategy # "inherit" => rows[d].value > 0

-----------------------------------------------------------------------------
\* A read: [by, pc, id] say who asked, where it is and for which machine;
\* global and own are the rows it read; held and writes are history, the rules
\* in force at the moments of the read and the writes during it.
NoRead == [by |-> Absent, pc |-> "idle", id |-> Absent, global |-> NoRules,
           own |-> NoRules, answer |-> EmptyRows, held |-> {}, writes |-> 0]

\* A PUT of machine rules; at is history, the writes when it was committed.
Writers == {"console", "other"}
NoBasis == [id |-> Absent, own |-> NoRules]
NoPut == [pc |-> "idle", id |-> Absent, req |-> {}, at |-> 0]

Init ==
  /\ exists = {1} /\ nextId = 2
  /\ global = NoRules
  /\ own = [i \in Ids |-> NoRules]
  /\ read = [l \in Loads |-> NoRead]
  /\ put = [w \in Writers |-> NoPut]
  /\ saves = 0 /\ acts = 0
  /\ sel = Absent
  /\ form = EmptyRows
  /\ clean = TRUE
  /\ basis = NoBasis
  /\ edited = {}
  /\ hasty = FALSE

\* Somebody begins something.
Acts == acts < MaxActs /\ acts' = acts + 1

\* Every load in progress notes a write and what is in force after it.
Noted(g, o) ==
  [l \in Loads |->
     IF read[l].pc \in {"machine", "global", "own"}
     THEN [read[l] EXCEPT
             !.held = @ \cup { [d \in Dims |-> InForce(g, o[read[l].id], d)] },
             !.writes = @ + 1]
     ELSE read[l]]

-----------------------------------------------------------------------------
(* Machines *)

\* A new machine gets the next value of the id sequence.
CreateMachine ==
  /\ Acts
  /\ nextId <= MaxMachines
  /\ exists' = exists \cup {nextId}
  /\ nextId' = nextId + 1
  /\ UNCHANGED <<global, own, read, put, saves, formVars>>

\* DeleteMachine: the machine's rules stay behind.
DeleteMachine(i) ==
  /\ Acts
  /\ i \in exists
  /\ exists' = exists \ {i}
  /\ UNCHANGED <<nextId, global, own, read, put, saves, formVars>>

-----------------------------------------------------------------------------
(* Writes *)

\* PUT /thresholds/global with a valid request: one statement.
UpsertGlobalRules ==
  /\ Acts
  /\ \E req \in Requests :
       /\ ValidGlobal(req) /\ OncePerDim(req)
       /\ global' = [d \in Dims |-> GlobalAfter(d, req, global[d])]
  /\ saves' = saves + 1
  /\ read' = Noted(global', own)
  /\ UNCHANGED <<exists, nextId, own, put, formVars>>

\* importThresholdRules writes the rows of a backup that are absent, in two
\* statements: CreateGlobalRulesIfAbsent, and CreateMachineRulesIfAbsent for
\* machines the import has found or created.
ImportGlobalRules ==
  /\ Acts
  /\ \E req \in Requests :
       /\ ValidGlobal(req) /\ OncePerDim(req)
       /\ global' = [d \in Dims |-> IF global[d] # Absent THEN global[d]
                                    ELSE GlobalAfter(d, req, Absent)]
  /\ saves' = saves + 1
  /\ read' = Noted(global', own)
  /\ UNCHANGED <<exists, nextId, own, put, formVars>>

ImportMachineRules ==
  /\ Acts
  /\ \E req \in Requests, i \in 1..(nextId - 1) :
       /\ ValidMachine(req) /\ OncePerDim(req)
       /\ own' = [own EXCEPT ![i] = [d \in Dims |->
                    IF own[i][d] # Absent THEN own[i][d] ELSE OwnAfter(d, req, Absent)]]
  /\ saves' = saves + 1
  /\ read' = Noted(global, own')
  /\ UNCHANGED <<exists, nextId, global, put, formVars>>

\* Another client sends PUT /machines/:id/thresholds.
OtherPuts(i) ==
  /\ Acts
  /\ put["other"].pc = "idle"
  /\ \E req \in Requests :
       put' = [put EXCEPT !["other"] = [NoPut EXCEPT !.pc = "check", !.id = i, !.req = req]]
  /\ UNCHANGED <<dbVars, read, formVars>>

\* A request is answered: the console waits for the outcome.
Answered(w, outcome) == IF w = "console" THEN [put[w] EXCEPT !.pc = outcome] ELSE NoPut

CheckRequestOnly(w) ==
  /\ put[w].pc = "check"
  /\ put' = [put EXCEPT ![w] =
               IF ValidMachine(put[w].req)
               THEN [put[w] EXCEPT !.pc = "replace"] ELSE Answered(w, "refused")]
  /\ UNCHANGED <<dbVars, acts, read, formVars>>

\* UpsertMachineRules: GetByID, then buildMachineRules; 404 or 400 otherwise.
CheckMachine(w) ==
  /\ put[w].pc = "check"
  /\ put' = [put EXCEPT ![w] =
               IF put[w].id \in exists /\ ValidMachine(put[w].req)
               THEN [put[w] EXCEPT !.pc = "replace"] ELSE Answered(w, "refused")]
  /\ UNCHANGED <<dbVars, acts, read, formVars>>

\* ReplaceMachineRules: one transaction. Nothing looks at the machine again.
ReplaceMachineRules(w) ==
  /\ put[w].pc = "replace"
  /\ LET i == put[w].id IN
       \/ /\ OncePerDim(Explicit(put[w].req))
          /\ own' = [own EXCEPT ![i] = [d \in Dims |-> OwnAfter(d, put[w].req, @[d])]]
          /\ saves' = saves + 1
          /\ read' = Noted(global, own')
          /\ put' = [put EXCEPT ![w] = [Answered(w, "done") EXCEPT !.at = saves + 1]]
       \/ /\ put' = [put EXCEPT ![w] = Answered(w, "refused")]
          /\ UNCHANGED <<own, saves, read>>
  /\ UNCHANGED <<exists, nextId, global, acts, formVars>>

-----------------------------------------------------------------------------
(* ListEffectiveMachineRules, step by step *)

\* The console, or an alert evaluation, asks for the rules of machine i.
StartLoad(l, who, i) ==
  /\ read[l].pc = "idle"
  /\ read' = [read EXCEPT ![l] = [NoRead EXCEPT !.by = who, !.pc = "machine", !.id = i,
                !.held = { [d \in Dims |-> InForce(global, own[i], d)] }]]

\* EvaluateSamples begins with the rules of the machine, and takes the answer.
EvaluateSamples(i) ==
  /\ Acts
  /\ \E l \in Loads : StartLoad(l, "alerts", i)
  /\ UNCHANGED <<dbVars, put, formVars>>

RulesEvaluated(l) ==
  /\ read[l].by = "alerts" /\ read[l].pc \in {"answer", "error"}
  /\ read' = [read EXCEPT ![l] = NoRead]
  /\ UNCHANGED <<dbVars, acts, put, formVars>>

\* The error answer of a read.
Failed(l) == [NoRead EXCEPT !.by = read[l].by, !.pc = "error"]

GetMachine(l) ==
  /\ read[l].pc = "machine"
  /\ read' = [read EXCEPT ![l] = IF read[l].id \in exists
                                 THEN [read[l] EXCEPT !.pc = "global"] ELSE Failed(l)]
  /\ UNCHANGED <<dbVars, acts, put, formVars>>

ListGlobalRules(l) ==
  /\ read[l].pc = "global"
  /\ read' = [read EXCEPT ![l] = [@ EXCEPT !.pc = "own", !.global = global]]
  /\ UNCHANGED <<dbVars, acts, put, formVars>>

ListMachineRules(l) ==
  /\ read[l].pc = "own"
  /\ read' = [read EXCEPT ![l] =
                [@ EXCEPT !.pc = "answer", !.own = own[read[l].id],
                          !.answer = mergeEffectiveRules(read[l].global, own[read[l].id])]]
  /\ UNCHANGED <<dbVars, acts, put, formVars>>

\* A statement fails.
FailLoad(l) ==
  /\ read[l].pc \in {"machine", "global", "own"}
  /\ read' = [read EXCEPT ![l] = Failed(l)]
  /\ UNCHANGED <<dbVars, acts, put, formVars>>

-----------------------------------------------------------------------------
(* The console *)

\* Answers the console is waiting for.
Awaited == { l \in Loads : read[l].by \in {"select", "save"} }

\* A machine is selected, from a list that may be old: the button is disabled
\* and its rules are asked for; the rows of the machine before stay in the form.
SelectMachine(i) ==
  /\ Acts
  /\ i < nextId /\ i # sel
  /\ sel' = i
  /\ clean' = TRUE
  /\ hasty' = (hasty \/ Awaited # {} \/ put["console"].pc # "idle")
  /\ \E l \in Loads : StartLoad(l, "select", i)
  /\ UNCHANGED <<dbVars, put, form, basis, edited>>

\* The global rules are selected instead: the machine's form is emptied.
SelectGlobal ==
  /\ Acts
  /\ sel # Absent
  /\ sel' = Absent
  /\ clean' = TRUE
  /\ form' = EmptyRows
  /\ basis' = NoBasis
  /\ edited' = {}
  /\ hasty' = (hasty \/ Awaited # {} \/ put["console"].pc # "idle")
  /\ UNCHANGED <<dbVars, read, put>>

\* The answer of a load arrives and fills the form, whichever machine is
\* selected by now; a failed one leaves the form. The load that follows a save
\* ends it: the button is disabled, even if rows were changed meanwhile.
LoadArrives(l) ==
  /\ read[l].by \in {"select", "save"}
  /\ \/ /\ read[l].pc = "answer"
        /\ form' = read[l].answer
        /\ basis' = [id |-> read[l].id, own |-> read[l].own]
        /\ edited' = {}
        /\ UNCHANGED hasty
     \/ /\ read[l].pc = "error"
        /\ hasty' = TRUE
        /\ UNCHANGED <<form, basis, edited>>
  /\ \/ /\ read[l].by = "save"
        /\ clean' = TRUE
        /\ put' = [put EXCEPT !["console"] = NoPut]
     \/ read[l].by = "select" /\ UNCHANGED <<clean, put>>
  /\ read' = [read EXCEPT ![l] = NoRead]
  /\ UNCHANGED <<dbVars, acts, sel>>

\* A row is changed in the editor; the fields of an inherited row are locked.
EditRow(d) ==
  /\ Acts
  /\ sel # Absent
  /\ \/ \E s \in Strategies \ {form[d].strategy} :
          form' = [form EXCEPT ![d].strategy = s]
     \/ /\ form[d].strategy # "inherit"
        /\ \/ \E v \in Values \ {form[d].value} : form' = [form EXCEPT ![d].value = v]
           \/ \E u \in Units \ {form[d].unit} : form' = [form EXCEPT ![d].unit = u]
  /\ clean' = FALSE
  /\ edited' = edited \cup {d}
  /\ UNCHANGED <<dbVars, read, put, sel, basis, hasty>>

\* handleSaveMachineThresholds: the rows as they are, for the selected machine.
SubmitForm ==
  /\ Acts
  /\ sel # Absent /\ ~clean
  /\ put["console"].pc = "idle"
  /\ Parses(form)
  /\ put' = [put EXCEPT !["console"] =
               [NoPut EXCEPT !.pc = "check", !.id = sel, !.req = Submitted(form)]]
  /\ hasty' = (hasty \/ Awaited # {})
  /\ UNCHANGED <<dbVars, read, sel, form, clean, basis, edited>>

\* The answer of the save: on success the rules are loaded again.
SaveAnswered ==
  /\ \/ /\ put["console"].pc = "done"
        /\ put' = [put EXCEPT !["console"] = [@ EXCEPT !.pc = "reload"]]
        /\ \E l \in Loads : StartLoad(l, "save", put["console"].id)
     \/ /\ put["console"].pc = "refused"
        /\ put' = [put EXCEPT !["console"] = NoPut]
        /\ UNCHANGED read
  /\ UNCHANGED <<dbVars, acts, formVars>>

-----------------------------------------------------------------------------
Next ==
  \/ CreateMachine
  \/ UpsertGlobalRules
  \/ ImportGlobalRules
  \/ ImportMachineRules
  \/ \E i \in Ids : DeleteMachine(i) \/ OtherPuts(i) \/ EvaluateSamples(i) \/ SelectMachine(i)
  \/ \E w \in Writers : CheckMachine(w) \/ ReplaceMachineRules(w)
  \/ \E l \in Loads : GetMachine(l) \/ ListGlobalRules(l) \/ ListMachineRules(l)
                     \/ FailLoad(l) \/ RulesEvaluated(l) \/ LoadArrives(l)
  \/ SelectGlobal
  \/ \E d \in Dims : EditRow(d)
  \/ SubmitForm
  \/ SaveAnswered

Spec == Init /\ [][Next]_vars

-----------------------------------------------------------------------------
(* Properties *)

Reads ==
  [by : Readers \cup {Absent},
   pc : {"idle", "machine", "global", "own", "answer", "error"},
   id : Ids \cup {Absent}, global : Tables, own : Tables, answer : [Dims -> FormRows],
   held : SUBSET [Dims -> Nat \cup {Absent}], writes : Nat]
Puts ==
  [pc : {"idle", "check", "replace", "refused", "done", "reload"},
   id : Ids \cup {Absent}, req : SUBSET Payloads, at : Nat]

\* Types of all variables; a read and a PUT under way have a machine.
TypeOK ==
  /\ exists \subseteq Ids
  /\ nextId \in 1..(MaxMachines + 1)
  /\ global \in Tables
  /\ own \in [Ids -> Tables]
  /\ read \in [Loads -> Reads]
  /\ \A l \in Loads : read[l].pc \in {"machine", "global", "own", "answer"} => read[l].id \in Ids
  /\ put \in [Writers -> Puts]
  /\ \A w \in Writers : put[w].pc # "idle" => put[w].id \in Ids
  /\ saves \in Nat
  /\ sel \in Ids \cup {Absent}
  /\ form \in [Dims -> FormRows]
  /\ basis \in [id : Ids \cup {Absent}, own : Tables]
  /\ acts \in 0..MaxActs
  /\ clean \in BOOLEAN /\ hasty \in BOOLEAN
  /\ edited \subseteq Dims

\* An alert evaluation compares with rules of one moment: unless rules are
\* written twice or more while the rules are read, the thresholds of the answer
\* were in force together at some moment of the read, although global and
\* machine rules are read in two statements.
RulesOfOneMoment ==
  \A l \in Loads :
    read[l].pc = "answer" /\ read[l].writes <= 1 =>
      \E h \in read[l].held : \A d \in Dims : Watched(read[l].answer[d]) = h[d]

\* A new machine inherits every global rule: no request, however late, wrote
\* rules under an id that was not given yet, and no id is given twice, so the
\* rules a deleted machine leaves behind are never applied to another.
NewMachineInherits ==
  \A i \in Ids : i >= nextId => i \notin exists /\ own[i] = NoRules

\* An administrator who waits for answers, none of them an error, saves to the
\* machine whose rules are shown, and changes only the rows that were edited:
\* reading, displaying and sending back an untouched row is the identity, so it
\* neither turns an inherited rule into an override nor rescales a threshold.
UntouchedRowsAreKept ==
  [][ put["console"].pc = "replace" /\ put'["console"].pc = "done" /\ ~hasty =>
        LET i == put["console"].id IN
          /\ basis.id = i
          /\ own[i] = basis.own => \A d \in Dims \ edited : own'[i][d] = own[i][d] ]_vars

\* What the console shows after a save is what was sent, unless the tables were
\* written again in between.
Agrees(p, row) ==
  /\ row.strategy = p.strategy
  /\ p.strategy # "inherit" =>
       /\ row.enabled = (p.strategy = "override")
       /\ normalizeThresholdMB(row.value, row.unit) = normalizeThresholdMB(p.value, p.unit)
SavedIsShown ==
  [][ \A l \in Loads :
        read[l].by = "save" /\ read[l].pc = "answer" /\ read'[l].pc = "idle"
          /\ saves = put["console"].at =>
            \A p \in put["console"].req : Agrees(p, form'[p.dim]) ]_vars

=============================================================================
