------------------------- MODULE ConfigurationProofs -------------------------
(***************************************************************************)
(* What holds of the keys and machines an instance keeps, for any number   *)
(* of rows. First the registry (MachineRegistry), whose requests overlap;  *)
(* then export and import (Backup), whose statements interleave with each  *)
(* other and with edits. The two models share no variable.                 *)
(***************************************************************************)
EXTENDS MachineRegistry, Backup, TLAPS, FiniteSetTheorems, FunctionTheorems,
        WellFoundedInduction

-----------------------------------------------------------------------------
(* The registry *)

\* What a request has read and relies on is still so.
Held(c) ==
  /\ pc[c] \in {"create", "save"} => keyRow[copy[c].key] = "live"
  /\ pc[c] \in {"check", "save"} =>
       /\ row[target[c]] = "live"
       /\ change[c].key = Keep => copy[c].key = bound[target[c]]
       /\ change[c].enabled = Keep => copy[c].enabled = collect[target[c]]
  /\ pc[c] = "deleteKey" =>
       \A m \in MachineIds : row[m] = "live" => bound[m] # target[c]

HeldInv == \A c \in Clients \ crossed : Held(c)

IInv == TypeOK /\ HeldInv

LEMMA SomeTyped == SomeKey \in KeyIds /\ SomeCopy \in Copies /\ NoChange \in Changes
  <1>1. SomeKey \in KeyIds
    BY RegistryAssumption DEF SomeKey, RegistryAssumption
  <1> QED
    BY <1>1 DEF SomeCopy, Copies, NoChange, Changes

LEMMA InitIInv == Init => IInv
  <1> SUFFICES ASSUME Init PROVE IInv
    OBVIOUS
  <1>1. TypeOK
    <2>1. (CHOOSE f \in Fingerprints : TRUE) \in Fingerprints
      BY RegistryAssumption DEF RegistryAssumption
    <2>2. collect \in [MachineIds -> BOOLEAN]
      BY DEF Init
    <2> QED
      BY <2>1, <2>2, SomeTyped DEF Init, TypeOK, RowStates, PCs
  <1>2. HeldInv
    BY DEF Init, HeldInv, Held
  <1> QED
    BY <1>1, <1>2 DEF IInv

-----------------------------------------------------------------------------
\* A request that a step leaves alone stands where it stood.
Waits(d) ==
  pc'[d] = pc[d] /\ target'[d] = target[d] /\ copy'[d] = copy[d] /\ change'[d] = change[d]

\* What an uncrossed request relies on survives the steps of the others: a step
\* that changes it crosses the request.
LEMMA WaitingHold ==
  ASSUME IInv, NoteCrossed, NEW d \in Clients \ crossed', Waits(d)
  PROVE  Held(d)'
  <1>1. CASE pc[d] = "idle"
    BY <1>1 DEF Held, Waits
  <1>2. CASE pc[d] # "idle"
    <2>1. Held(d) /\ ~Overtakes(d)
      BY <1>2 DEF NoteCrossed, Waits, IInv, HeldInv
    <2> QED
      BY <2>1 DEF Held, Overtakes, Waits
  <1> QED
    BY <1>1, <1>2

\* One request moves; the invariant is up to it.
LEMMA MoverDecides ==
  ASSUME IInv, NoteCrossed, NEW c \in Clients, \A d \in Clients \ {c} : Waits(d),
         Held(c)'
  PROVE  HeldInv'
  BY WaitingHold DEF HeldInv

LEMMA CrossedTyped == ASSUME NoteCrossed PROVE crossed' \subseteq Clients
  BY DEF NoteCrossed

LEMMA CreateKeyIInv ==
  ASSUME IInv, CreateKey PROVE IInv'
  <1>1. PICK k \in KeyIds, f \in Fingerprints :
          /\ keyRow' = [keyRow EXCEPT ![k] = "live"]
          /\ print' = [print EXCEPT ![k] = f]
    BY DEF CreateKey
  <1>2. UNCHANGED <<row, bound, collect, pc, target, copy, change>> /\ NoteCrossed
    BY DEF CreateKey, machineVars, requestVars
  <1>3. TypeOK'
    BY <1>1, <1>2, CrossedTyped DEF IInv, TypeOK, RowStates
  <1>4. HeldInv'
    BY <1>2, WaitingHold DEF HeldInv, Waits
  <1> QED
    BY <1>3, <1>4 DEF IInv

\* What the first statement of a request establishes.
Starts(c, next, id, held, chg) ==
  /\ Begin(c, next, id, held, chg)
  /\ UNCHANGED <<keyRow, print, row, bound, collect>> /\ NoteCrossed
  /\ next \in {"create", "check", "deleteMachine", "deleteKey"}
  /\ next \in {"check", "deleteMachine"} => id \in MachineIds /\ row[id] = "live"
  /\ next = "deleteKey" => id \in KeyIds /\ Users(id) = {}
  /\ next = "create" => id = 0 /\ keyRow[held.key] = "live"
  /\ next = "check" =>
       /\ chg.key = Keep => held.key = bound[id]
       /\ chg.enabled = Keep => held.enabled = collect[id]

LEMMA StartReads ==
  ASSUME IInv, NEW c \in Clients, StartRequest(c)
  PROVE  \E next \in PCs, id \in KeyIds \cup MachineIds \cup {0}, held \in Copies, chg \in Changes :
           Starts(c, next, id, held, chg)
  <1> DEFINE Started == \E next \in PCs, id \in KeyIds \cup MachineIds \cup {0},
                          held \in Copies, chg \in Changes : Starts(c, next, id, held, chg)
  <1>1. ASSUME NEW k \in KeyIds, ListBySSHKeyID(c, k) PROVE Started
    <2>1. /\ Begin(c, "deleteKey", k, SomeCopy, NoChange) /\ Users(k) = {}
          /\ UNCHANGED <<keyRow, print, row, bound, collect>> /\ NoteCrossed
      BY <1>1 DEF ListBySSHKeyID, keyVars, machineVars
    <2> QED
      BY <2>1, SomeTyped DEF PCs, Starts
  <1>2. ASSUME NEW k \in KeyIds, ValidateNew(c, k) PROVE Started
    <2>1. PICK e \in BOOLEAN : Begin(c, "create", 0, [key |-> k, enabled |-> e], NoChange)
      BY <1>2 DEF ValidateNew
    <2>2. /\ keyRow[k] = "live" /\ [key |-> k, enabled |-> e] \in Copies
          /\ UNCHANGED <<keyRow, print, row, bound, collect>> /\ NoteCrossed
      BY <1>2 DEF ValidateNew, keyVars, machineVars, Copies
    <2> QED
      BY <2>1, <2>2, SomeTyped DEF PCs, Starts
  <1>3. ASSUME NEW m \in MachineIds, LoadMachine(c, m) PROVE Started
    <2>1. PICK chg \in Changes : Begin(c, "check", m, applyMachineUpdate(m, chg), chg)
      BY <1>3 DEF LoadMachine
    <2>2. row[m] = "live" /\ UNCHANGED <<keyRow, print, row, bound, collect>> /\ NoteCrossed
      BY <1>3 DEF LoadMachine, keyVars, machineVars
    <2>3. (chg.key = Keep \/ chg.key \in KeyIds) /\ (chg.enabled = Keep \/ chg.enabled \in BOOLEAN)
      BY DEF Changes
    <2>4. bound[m] \in KeyIds /\ collect[m] \in BOOLEAN
      BY DEF IInv, TypeOK
    <2>5. applyMachineUpdate(m, chg) \in Copies
      BY <2>3, <2>4 DEF applyMachineUpdate, Copies
    <2>6. /\ chg.key = Keep => applyMachineUpdate(m, chg).key = bound[m]
          /\ chg.enabled = Keep => applyMachineUpdate(m, chg).enabled = collect[m]
      BY DEF applyMachineUpdate
    <2> QED
      BY <2>1, <2>2, <2>5, <2>6 DEF PCs, Starts
  <1>4. ASSUME NEW m \in MachineIds, LookUpMachine(c, m) PROVE Started
    <2>1. /\ Begin(c, "deleteMachine", m, SomeCopy, NoChange) /\ row[m] = "live"
          /\ UNCHANGED <<keyRow, print, row, bound, collect>> /\ NoteCrossed
      BY <1>4 DEF LookUpMachine, keyVars, machineVars
    <2> QED
      BY <2>1, SomeTyped DEF PCs, Starts
  <1> QED
    BY <1>1, <1>2, <1>3, <1>4 DEF StartRequest

\* The first statement of a request reads only, and what it read is so.
LEMMA StartIInv ==
  ASSUME IInv, NEW c \in Clients, StartRequest(c) PROVE IInv'
  <1>1. PICK next \in PCs, id \in KeyIds \cup MachineIds \cup {0}, held \in Copies, chg \in Changes :
          Starts(c, next, id, held, chg)
    BY StartReads
  <1>2. TypeOK'
    <2>1. collect' \in [MachineIds -> BOOLEAN]
      BY <1>1 DEF Starts, IInv, TypeOK
    <2>2. crossed' \subseteq Clients
      BY <1>1, CrossedTyped DEF Starts
    <2> QED
      BY <1>1, <2>1, <2>2 DEF IInv, TypeOK, Starts, Begin
  <1>3. Held(c)'
    <2>1. pc'[c] = next /\ target'[c] = id /\ copy'[c] = held /\ change'[c] = chg
      BY <1>1 DEF Starts, Begin, IInv, TypeOK
    <2> QED
      BY <1>1, <2>1 DEF Starts, Held, Users
  <1>4. \A d \in Clients \ {c} : Waits(d)
    BY <1>1 DEF Starts, Begin, Waits, IInv, TypeOK
  <1> QED
    BY <1>1, <1>2, <1>3, <1>4, MoverDecides DEF IInv, Starts

\* A request that answers holds nothing any more: only types are left to show.
LEMMA AnswerIInv ==
  ASSUME IInv, NEW c \in Clients, Answer(c), NoteCrossed,
         keyRow' \in [KeyIds -> RowStates], print' = print,
         row' \in [MachineIds -> RowStates], bound' \in [MachineIds -> KeyIds],
         collect' \in [MachineIds -> BOOLEAN]
  PROVE  IInv'
  <1>1. pc'[c] = "idle" /\ \A d \in Clients \ {c} : Waits(d)
    BY DEF Answer, Waits, IInv, TypeOK
  <1>2. TypeOK'
    BY <1>1, SomeTyped, CrossedTyped DEF Answer, IInv, TypeOK, PCs
  <1>3. Held(c)'
    BY <1>1 DEF Held
  <1> QED
    BY <1>1, <1>2, <1>3, MoverDecides DEF IInv

LEMMA DeleteKeyIInv ==
  ASSUME IInv, NEW c \in Clients, DeleteKey(c) PROVE IInv'
  <1>1. /\ pc[c] = "deleteKey" /\ Answer(c) /\ NoteCrossed
        /\ keyRow' = [keyRow EXCEPT ![target[c]] = IF @ = "live" THEN "gone" ELSE @]
        /\ UNCHANGED <<print, row, bound, collect>>
    BY DEF DeleteKey, machineVars
  <1>2. target[c] \in KeyIds /\ keyRow' \in [KeyIds -> RowStates]
    BY <1>1 DEF IInv, TypeOK, RowStates
  <1>3. collect' \in [MachineIds -> BOOLEAN]
    BY <1>1 DEF IInv, TypeOK
  <1>4. row' \in [MachineIds -> RowStates] /\ bound' \in [MachineIds -> KeyIds]
    BY <1>1 DEF IInv, TypeOK
  <1> QED
    BY <1>1, <1>2, <1>3, <1>4, AnswerIInv

LEMMA WriteIInv ==
  ASSUME IInv, NEW c \in Clients, NEW m \in MachineIds,
         row' = [row EXCEPT ![m] = "live"],
         bound' = [bound EXCEPT ![m] = copy[c].key],
         collect' = [collect EXCEPT ![m] = copy[c].enabled],
         Answer(c), UNCHANGED <<keyRow, print>>, NoteCrossed
  PROVE  IInv'
  <1>1. copy[c].key \in KeyIds /\ copy[c].enabled \in BOOLEAN
    BY DEF IInv, TypeOK, Copies
  <1>2. collect' \in [MachineIds -> BOOLEAN]
    BY <1>1 DEF IInv, TypeOK
  <1>3. /\ row' \in [MachineIds -> RowStates] /\ bound' \in [MachineIds -> KeyIds]
        /\ keyRow' \in [KeyIds -> RowStates]
    BY <1>1 DEF IInv, TypeOK, RowStates
  <1> QED
    BY <1>2, <1>3, AnswerIInv

LEMMA DeleteMachineIInv ==
  ASSUME IInv, NEW c \in Clients, DeleteMachine(c) PROVE IInv'
  <1>1. /\ pc[c] = "deleteMachine" /\ Answer(c) /\ NoteCrossed
        /\ row' = [row EXCEPT ![target[c]] = IF @ = "live" THEN "gone" ELSE @]
        /\ UNCHANGED <<keyRow, print, bound, collect>>
    BY DEF DeleteMachine, keyVars
  <1>2. target[c] \in MachineIds /\ row' \in [MachineIds -> RowStates]
    BY <1>1 DEF IInv, TypeOK, RowStates
  <1>3. collect' \in [MachineIds -> BOOLEAN]
    BY <1>1 DEF IInv, TypeOK
  <1>4. keyRow' \in [KeyIds -> RowStates] /\ bound' \in [MachineIds -> KeyIds]
    BY <1>1 DEF IInv, TypeOK
  <1> QED
    BY <1>1, <1>2, <1>3, <1>4, AnswerIInv

\* A request that answers without writing: a failure, or a key that is gone.
LEMMA FailIInv ==
  ASSUME IInv, NEW c \in Clients, Answer(c), NoteCrossed,
         UNCHANGED <<keyRow, print, row, bound, collect>>
  PROVE  IInv'
  <1>1. collect' \in [MachineIds -> BOOLEAN]
    BY DEF IInv, TypeOK
  <1>2. /\ keyRow' \in [KeyIds -> RowStates] /\ row' \in [MachineIds -> RowStates]
        /\ bound' \in [MachineIds -> KeyIds]
    BY DEF IInv, TypeOK
  <1> QED
    BY <1>1, <1>2, AnswerIInv

LEMMA CheckKeyIInv ==
  ASSUME IInv, NEW c \in Clients, CheckKey(c) PROVE IInv'
  <1>1. pc[c] = "check" /\ UNCHANGED <<keyRow, print, row, bound, collect>> /\ NoteCrossed
    BY DEF CheckKey, keyVars, machineVars
  <1>2. CASE Answer(c)
    BY <1>1, <1>2, FailIInv
  <1>3. CASE /\ keyRow[copy[c].key] = "live"
             /\ pc' = [pc EXCEPT ![c] = "save"]
             /\ UNCHANGED <<target, copy, change>>
    <2>1. collect' \in [MachineIds -> BOOLEAN]
      BY <1>1 DEF IInv, TypeOK
    <2>2. TypeOK'
      BY <1>1, <1>3, <2>1, CrossedTyped DEF IInv, TypeOK, PCs
    <2>3. pc'[c] = "save" /\ \A d \in Clients \ {c} : Waits(d)
      BY <1>3 DEF Waits, IInv, TypeOK
    <2>4. ASSUME c \notin crossed' PROVE Held(c)'
      <3>1. Held(c)
        BY <1>1, <2>3, <2>4 DEF NoteCrossed, IInv, HeldInv
      <3> QED
        BY <1>1, <1>3, <2>3, <3>1 DEF Held
    <2>5. HeldInv'
      BY <1>1, <2>3, <2>4, WaitingHold DEF HeldInv
    <2> QED
      BY <2>2, <2>5 DEF IInv
  <1> QED
    BY <1>2, <1>3 DEF CheckKey

LEMMA NextIInv == IInv /\ [Next]_vars => IInv'
  <1> SUFFICES ASSUME IInv, [Next]_vars PROVE IInv'
    OBVIOUS
  <1>1. CASE CreateKey
    BY <1>1, CreateKeyIInv
  <1>2. ASSUME NEW c \in Clients, StartRequest(c) PROVE IInv'
    BY <1>2, StartIInv
  <1>3. ASSUME NEW c \in Clients, Continue(c) PROVE IInv'
    <2>1. CASE CreateMachine(c)
      BY <2>1, WriteIInv DEF CreateMachine, keyVars
    <2>2. CASE SaveMachine(c)
      <3>1. target[c] \in MachineIds
        BY <2>2 DEF SaveMachine, IInv, TypeOK
      <3> QED
        BY <2>2, <3>1, WriteIInv DEF SaveMachine, keyVars
    <2>3. CASE Fail(c)
      BY <2>3, FailIInv DEF Fail, keyVars, machineVars
    <2> QED
      BY <1>3, <2>1, <2>2, <2>3, DeleteKeyIInv, CheckKeyIInv, DeleteMachineIInv DEF Continue
  <1>4. CASE UNCHANGED vars
    <2>1. UNCHANGED <<keyRow, print, row, bound, collect, pc, target, copy, change, crossed>>
      BY <1>4 DEF vars, keyVars, machineVars, requestVars
    <2>2. TypeOK'
      BY <2>1 DEF IInv, TypeOK
    <2> QED
      BY <2>1, <2>2 DEF IInv, HeldInv, Held
  <1> QED
    BY <1>1, <1>2, <1>3, <1>4 DEF Next

\* The inductive invariant: what an uncrossed request has read is so.
THEOREM RegistryInvariant == Spec => []IInv
  BY InitIInv, NextIInv, PTL DEF Spec

\* The registry's state keeps its type.
THEOREM RegistryTypeCorrect == Spec => []TypeOK
  BY RegistryInvariant, PTL DEF IInv

\* Which steps write a machine or delete a key.
LEMMA Writers ==
  ASSUME Next
  PROVE  \/ UNCHANGED <<keyRow, row, bound, collect>>
         \/ CreateKey
         \/ \E c \in Clients :
              DeleteKey(c) \/ CreateMachine(c) \/ SaveMachine(c) \/ DeleteMachine(c)
  BY DEF Next, StartRequest, Continue, ListBySSHKeyID, ValidateNew, LoadMachine, LookUpMachine,
         CheckKey, Fail, keyVars, machineVars

LEMMA StrandsStep ==
  ASSUME IInv, Next, NEW m \in Stranded', m \notin Stranded
  PROVE  \E c \in crossed : pc[c] # "idle" /\ pc'[c] = "idle"
  <1>1. m \in MachineIds /\ row'[m] = "live" /\ keyRow'[bound'[m]] # "live"
    BY DEF Stranded
  <1>2. row[m] = "live" => keyRow[bound[m]] = "live"
    BY <1>1 DEF Stranded
  <1>3. ~ UNCHANGED <<keyRow, row, bound, collect>>
    BY <1>1, <1>2
  <1>4. ~ CreateKey
    BY <1>1, <1>2 DEF CreateKey, machineVars, IInv, TypeOK
  <1>5. ASSUME NEW c \in Clients, DeleteKey(c) \/ CreateMachine(c) \/ SaveMachine(c)
        PROVE  c \in crossed /\ pc[c] # "idle" /\ pc'[c] = "idle"
    <2>1. pc[c] # "idle" /\ pc'[c] = "idle"
      BY <1>5 DEF DeleteKey, CreateMachine, SaveMachine, Answer, IInv, TypeOK
    <2>2. ASSUME Held(c), DeleteKey(c) PROVE FALSE
      BY <1>1, <1>2, <2>2 DEF DeleteKey, machineVars, Held, IInv, TypeOK
    <2>3. ASSUME Held(c), CreateMachine(c) \/ SaveMachine(c) PROVE FALSE
      <3>1. /\ keyRow[copy[c].key] = "live" /\ keyRow' = keyRow
            /\ \E n \in MachineIds : /\ row' = [row EXCEPT ![n] = "live"]
                                     /\ bound' = [bound EXCEPT ![n] = copy[c].key]
        BY <2>3 DEF CreateMachine, SaveMachine, Held, keyVars, IInv, TypeOK
      <3> QED
        BY <1>1, <1>2, <3>1 DEF IInv, TypeOK
    <2> QED
      BY <1>5, <2>1, <2>2, <2>3 DEF IInv, HeldInv
  <1>6. ASSUME NEW c \in Clients, DeleteMachine(c) PROVE FALSE
    BY <1>1, <1>2, <1>6 DEF DeleteMachine, keyVars, IInv, TypeOK
  <1> QED
    BY <1>3, <1>4, <1>5, <1>6, Writers

\* However requests overlap, the in-use check of ssh_key_service.go's Delete and
\* the key check of validateMachine leave a machine without its key only if what
\* they read was changed before the write that relies on it.
THEOREM RegistryOnlyCrossedStrands == Spec => OnlyCrossedStrands
  <1>1. IInv /\ [Next]_vars =>
          [\A m \in Stranded' : m \notin Stranded =>
             \E c \in crossed : pc[c] # "idle" /\ pc'[c] = "idle"]_vars
    BY StrandsStep
  <1> QED
    BY <1>1, RegistryInvariant, PTL DEF Spec, OnlyCrossedStrands

LEMMA RevivesStep ==
  ASSUME IInv, Next, NEW m \in MachineIds, row[m] = "gone", row'[m] = "live"
  PROVE  \E c \in crossed : pc[c] = "save" /\ target[c] = m /\ pc'[c] = "idle"
  <1>1. row' # row
    OBVIOUS
  <1>2. ASSUME NEW c \in Clients, CreateMachine(c) PROVE FALSE
    BY <1>2 DEF CreateMachine, NextId, IInv, TypeOK
  <1>3. ASSUME NEW c \in Clients, DeleteMachine(c) PROVE FALSE
    BY <1>3 DEF DeleteMachine, IInv, TypeOK
  <1>4. ASSUME NEW c \in Clients, SaveMachine(c)
        PROVE  c \in crossed /\ pc[c] = "save" /\ target[c] = m /\ pc'[c] = "idle"
    <2>1. pc[c] = "save" /\ target[c] = m /\ pc'[c] = "idle"
      BY <1>4 DEF SaveMachine, Answer, IInv, TypeOK
    <2>2. ~ Held(c)
      BY <2>1 DEF Held
    <2> QED
      BY <2>1, <2>2 DEF IInv, HeldInv
  <1> QED
    BY <1>1, <1>2, <1>3, <1>4, Writers DEF CreateKey, DeleteKey, machineVars

\* gorm's Save inserts a deleted machine again only for a request that had read
\* the row before it was deleted.
THEOREM RegistryOnlyCrossedRevives == Spec => OnlyCrossedRevives
  <1>1. IInv /\ [Next]_vars =>
          [\A m \in MachineIds : row[m] = "gone" /\ row'[m] = "live" =>
             \E c \in crossed : pc[c] = "save" /\ target[c] = m /\ pc'[c] = "idle"]_vars
    BY RevivesStep
  <1> QED
    BY <1>1, RegistryInvariant, PTL DEF Spec, OnlyCrossedRevives

LEMMA OverwritesStep ==
  ASSUME IInv, Next, NEW c \in Clients \ crossed, NEW m \in MachineIds,
         pc[c] = "save", target[c] = m, pc'[c] = "idle"
  PROVE  /\ change[c].key = Keep => bound'[m] = bound[m]
         /\ change[c].enabled = Keep => collect'[m] = collect[m]
  <1>1. Held(c)
    BY DEF IInv, HeldInv
  <1>2. CASE UNCHANGED <<bound, collect>>
    BY <1>2
  <1>3. CASE SaveMachine(c)
    BY <1>1, <1>3 DEF SaveMachine, IInv, TypeOK, Held
  <1>4. ASSUME NEW d \in Clients, CreateMachine(d) \/ SaveMachine(d) PROVE SaveMachine(c)
    BY <1>4 DEF CreateMachine, SaveMachine, Answer, IInv, TypeOK
  <1> QED
    BY <1>2, <1>3, <1>4, Writers DEF CreateKey, DeleteKey, DeleteMachine, machineVars

\* A PATCH sets back what another request wrote only if it had read the row
\* before; otherwise it changes the fields it names and no others.
THEOREM RegistryOnlyCrossedOverwrites == Spec => OnlyCrossedOverwrites
  <1>1. IInv /\ [Next]_vars =>
          [\A c \in Clients \ crossed, m \in MachineIds :
             pc[c] = "save" /\ target[c] = m /\ pc'[c] = "idle" =>
               /\ change[c].key = Keep => bound'[m] = bound[m]
               /\ change[c].enabled = Keep => collect'[m] = collect[m]]_vars
    BY OverwritesStep
  <1> QED
    BY <1>1, RegistryInvariant, PTL DEF Spec, OnlyCrossedOverwrites

-----------------------------------------------------------------------------
(* The invariants *)

\* The export has a key for each machine it has selected.
ExportClosed ==
  exp.pc \in {"proxies", "channels", "globals", "rules"} =>
    \A m \in exp.machines : \E k \in exp.keys : k.id = m.key

\* The file has the key of each of its machines and the machine of each rule.
FileClosed ==
  /\ \A n \in DOMAIN file.machines :
       \E j \in DOMAIN file.keys : file.keys[j].name = file.machines[n].key
  /\ \A n \in DOMAIN file.rules :
       \E j \in DOMAIN file.machines : file.machines[j].name = file.rules[n].name

\* No import begins before the export is through, and it gets on only with a
\* file that passed validateBackupPayload.
Gate ==
  /\ exp.pc # "done" => \A i \in Imports : job[i] \in {NewJob, Ended("none")}
  /\ ~validateBackupPayload(file) => \A i \in Imports : job[i].pc \in {"none", "idle", "refused"}
  /\ validateBackupPayload(file) => \A i \in Imports : job[i].pc # "refused"
  /\ exp.pc = "done" /\ ~validateBackupPayload(file) => db = scn.target

Shape == BackupTypeOK /\ ExportClosed /\ FileClosed /\ Gate

Resolved(d) ==
  /\ \A m \in d.machines : \E k \in d.keys : k.id = m.key
  /\ \A r \in d.rules : \E m \in d.machines : m.id = r.machine
  /\ \A t \in Types : d.channels[t] = None \/ d.channels[t].proxy = 0
                      \/ \E p \in d.proxies : p.id = d.channels[t].proxy

\* The ids an import holds in memory are those of rows of this instance, and
\* machines have the name they are known by.
Points(j, d) ==
  /\ \A n \in Names : j.keyId[n] # 0 => \E k \in d.keys : k.id = j.keyId[n]
  /\ \A x \in Materials : j.printId[x] # 0 => \E k \in d.keys : k.id = j.printId[x]
  /\ \A n \in Names : j.machineId[n] # 0 => \E m \in d.machines : m.id = j.machineId[n] /\ m.name = n
  /\ \A n \in Names : j.proxyId[n] # 0 => \E p \in d.proxies : p.id = j.proxyId[n]

PointsInv == exp.pc = "done" /\ "drop" \notin edited => \A i \in Imports : Points(job[i], db)
RefsInv == PointsInv /\ RefsResolve

\* The name of a key stands for a key of the instance.
HasKey(name) ==
  \E k \in db.keys :
    \/ k.name = name
    \/ \E j \in DOMAIN file.keys : Trim[file.keys[j].name] = name /\ k.mat = file.keys[j].mat

\* The positions of a section import i has dealt with.
Later ==
  [keys |-> {"machines", "proxies", "channels", "globals", "listRules", "rules"},
   machines |-> {"proxies", "channels", "globals", "listRules", "rules"},
   proxies |-> {"channels", "globals", "listRules", "rules"},
   channels |-> {"globals", "listRules", "rules"}]
Past(i, s) ==
  { x \in DOMAIN file[s] : job[i].pc \in Later[s] \/ (job[i].pc = s /\ x < job[i].pos) }

\* What the only import of a file has done when it stands where it stands: the
\* keys and machines it is through with have an id, the other things exist, and
\* what it was told exists still does.
KeysSoFar(i) ==
  /\ \A k \in db.keys : job[i].pc = "keys" => job[i].printId[k.mat] # 0
  /\ \A n \in Names : job[i].keyId[n] # 0 => HasKey(n)
  /\ \A n \in Past(i, "keys") : job[i].keyId[Trim[file.keys[n].name]] # 0
MachinesSoFar(i) == \A n \in Past(i, "machines") : job[i].machineId[file.machines[n].name] # 0
ProxiesSoFar(i) ==
  /\ job[i].pc = "proxies" => job[i].existing \subseteq { p.name : p \in db.proxies }
  /\ \A n \in Past(i, "proxies") : \E p \in db.proxies : p.name = file.proxies[n].name
ChannelsSoFar(i) ==
  /\ job[i].pc = "channels" => job[i].existing \subseteq { t \in Types : db.channels[t] # None }
  /\ \A n \in Past(i, "channels") : db.channels[file.channels[n].type] # None
RulesSoFar(i) ==
  /\ job[i].pc = "globals" => job[i].have \subseteq { d \in Dims : db.globals[d] # None }
  /\ job[i].pc \in {"listRules", "rules"} =>
       \A d \in Dims : file.globals[d] # None => db.globals[d] # None
  /\ job[i].pc = "rules" => job[i].have \subseteq { <<r.machine, r.dim>> : r \in db.rules }

Progress(i) ==
  KeysSoFar(i) /\ MachinesSoFar(i) /\ ProxiesSoFar(i) /\ ChannelsSoFar(i) /\ RulesSoFar(i)

\* Every thing the file names is there.
Complete ==
  /\ \A n \in DOMAIN file.keys : HasKey(Trim[file.keys[n].name])
  /\ \A n \in DOMAIN file.machines : \E m \in db.machines : m.name = file.machines[n].name
  /\ \A n \in DOMAIN file.proxies : \E p \in db.proxies : p.name = file.proxies[n].name
  /\ \A n \in DOMAIN file.channels : db.channels[file.channels[n].type] # None
  /\ \A d \in Dims : file.globals[d] # None => db.globals[d] # None
  /\ \A n \in DOMAIN file.rules :
       \E m \in db.machines, r \in db.rules :
         /\ m.name = file.rules[n].name /\ r.machine = m.id /\ r.dim = file.rules[n].dim

ProgressInv ==
  exp.pc = "done" /\ edited \subseteq {"source"} =>
    \A i \in Imports : Alone(i) =>
      /\ Under(i) => Progress(i)
      /\ job[i].pc = "ok" => Complete

-----------------------------------------------------------------------------
(* Numbers and finite sets *)

\* The library's induction rules take a predicate; this form of the least
\* number principle takes a set.
LEMMA LeastElement ==
  ASSUME NEW S \in SUBSET Nat, S # {}
  PROVE  \E x \in S : \A y \in S : x <= y
  <1>1. OpToRel(<, Nat) = { p \in Nat \X Nat : p[1] < p[2] }
    BY Zenon DEF OpToRel
  <1>2. IsWellFoundedOn({ p \in Nat \X Nat : p[1] < p[2] }, Nat)
    BY <1>1, NatLessThanWellFounded, Zenon
  <1>3. PICK x \in S : \A y \in S : ~(<<y, x>> \in { p \in Nat \X Nat : p[1] < p[2] })
    BY <1>2, WFMin
  <1>4. ASSUME NEW y \in S PROVE x <= y
    <2>1. <<y, x>> \in Nat \X Nat /\ <<y, x>>[1] = y /\ <<y, x>>[2] = x
      OBVIOUS
    <2>2. ~(y < x)
      BY <1>3, <2>1
    <2> QED
      BY <2>2
  <1> QED
    BY <1>4

LEMMA MinIsLeast ==
  ASSUME NEW S \in SUBSET Nat, S # {}
  PROVE  Min(S) \in S
  BY LeastElement DEF Min

\* A finite set of numbers has an upper bound, and so a greatest element.
LEMMA FiniteIsBounded ==
  ASSUME NEW S \in SUBSET Nat, IsFiniteSet(S)
  PROVE  \E b \in Nat : \A x \in S : x <= b
  <1>0. PICK n \in Nat : ExistsBijection(1..n, S)
    BY FS_NatBijection
  <1>1. PICK f \in Bijection(1..n, S) : TRUE
    BY <1>0 DEF ExistsBijection
  <1>2. f \in [1..n -> S] /\ \A x \in S : \E k \in 1..n : f[k] = x
    BY <1>1, Zenon DEF Bijection, Injection, Surjection, Range, IsInjective
  <1> DEFINE Bounded(m) == \E b \in Nat : \A k \in 1..m : f[k] <= b
  <1>3. Bounded(0)
    OBVIOUS
  <1>4. ASSUME NEW m \in 1..n, Bounded(m - 1) PROVE Bounded(m)
    <2>1. PICK b \in Nat : \A k \in 1..(m - 1) : f[k] <= b
      BY <1>4
    <2>2. \A k \in 1..n : f[k] \in Nat
      BY <1>2
    <2>3. PICK c \in Nat : b <= c /\ f[m] <= c
      BY <2>2
    <2>4. ASSUME NEW k \in 1..m PROVE f[k] <= c
      <3>1. k = m \/ k \in 1..(m - 1)
        OBVIOUS
      <3> QED
        BY <3>1, <2>1, <2>2, <2>3
    <2> QED
      BY <2>4
  <1> HIDE DEF Bounded
  <1>5. Bounded(n)
    <2> DEFINE Rest == { m \in 0..n : ~Bounded(m) }
    <2> SUFFICES ASSUME Rest # {} PROVE FALSE
      BY <1>0
    <2>0. Rest \in SUBSET Nat
      BY <1>0
    <2>1. PICK m \in Rest : \A y \in Rest : m <= y
      BY <2>0, LeastElement
    <2>2. m # 0 /\ m \in 1..n
      BY <2>1, <1>3
    <2>3. m - 1 \notin Rest
      BY <2>1, <2>2
    <2>4. m - 1 \in 0..n
      BY <2>2
    <2> QED
      BY <2>1, <2>2, <2>3, <2>4, <1>4
  <1> QED
    BY <1>2, <1>5 DEF Bounded

LEMMA MaxIsGreatest ==
  ASSUME NEW S \in SUBSET Nat, IsFiniteSet(S), S # {}
  PROVE  Max(S) \in S
  <1> DEFINE B == { b \in Nat : \A x \in S : x <= b }
  <1>1. B # {}
    BY FiniteIsBounded
  <1>2. PICK b \in B : \A c \in B : b <= c
    BY <1>1, LeastElement
  <1>3. b \in S
    <2> SUFFICES ASSUME b \notin S PROVE FALSE
      OBVIOUS
    <2>1. \A x \in S : x < b
      BY <1>2
    <2>2. b # 0 /\ b \in Nat
      <3>1. PICK x \in S : x < b
        BY <2>1
      <3> QED
        BY <3>1, <1>2
    <2>3. \A x \in S : x <= b - 1
      BY <2>1, <2>2
    <2>4. b - 1 \in B
      BY <2>2, <2>3
    <2> QED
      BY <2>4, <1>2, <2>2
  <1>4. \E x \in S : \A y \in S : x >= y
    BY <1>2, <1>3
  <1> QED
    BY <1>4 DEF Max

LEMMA FiniteSub ==
  ASSUME NEW S, NEW T \in Finite(S), NEW U \in SUBSET T
  PROVE  U \in Finite(S)
  BY FS_Subset DEF Finite

LEMMA FiniteAdd ==
  ASSUME NEW S, NEW T \in Finite(S), NEW x \in S
  PROVE  T \cup {x} \in Finite(S)
  BY FS_AddElement DEF Finite

LEMMA FiniteTwo ==
  ASSUME NEW S, NEW T \in Finite(S), NEW U \in Finite(S)
  PROVE  T \cup U \in Finite(S)
  BY FS_Union DEF Finite

-----------------------------------------------------------------------------
(* Lists, and the file the export makes of them *)

\* What List returns, whatever the order.
Listing(rows) ==
  { s \in [1..Cardinality(rows) -> rows] : { s[i] : i \in DOMAIN s } = rows }

LEMMA ListingFacts ==
  ASSUME NEW S, IsFiniteSet(S), NEW s \in Listing(S)
  PROVE  /\ \E n \in Nat : DOMAIN s = 1..n
         /\ \A i \in DOMAIN s : s[i] \in S
         /\ \A x \in S : \E i \in DOMAIN s : s[i] = x
  <1>1. Cardinality(S) \in Nat
    BY FS_CardinalityType
  <1>2. s \in [1..Cardinality(S) -> S] /\ { s[i] : i \in DOMAIN s } = S
    BY DEF Listing
  <1> QED
    BY <1>1, <1>2

LEMMA FunctionIsSeq ==
  ASSUME NEW S, NEW n \in Nat, NEW f \in [1..n -> S]
  PROVE  f \in Seq(S)
  OBVIOUS

LEMMA NameOfFacts ==
  ASSUME NEW rows, NEW id, \E r \in rows : r.id = id
  PROVE  \E r \in rows : r.id = id /\ NameOf(rows, id) = r.name
  BY DEF NameOf

LEMMA ExportParts ==
  ASSUME NEW e \in Exports
  PROVE  /\ e.pc \in {"machines", "keys", "proxies", "channels", "globals", "rules", "done", "refused"}
         /\ e.machines \in SUBSET Machines /\ IsFiniteSet(e.machines)
         /\ e.keys \in SUBSET Keys /\ IsFiniteSet(e.keys)
         /\ e.proxies \in SUBSET Proxies /\ IsFiniteSet(e.proxies)
         /\ e.channels \in Channels /\ e.globals \in Globals
  BY DEF Exports, Finite


\* File f lists what export e has read, with the rules R.
Yields(e, R, f) ==
  \E ks \in Listing(e.keys), ms \in Listing(e.machines), ps \in Listing(e.proxies),
     ts \in Listing({ t \in Types : e.channels[t] # None }), rs \in Listing(R) :
    f = buildBackupPayload(e, ks, ms, ps, ts, rs)

\* The file is typed, and closed if the export is.
LEMMA PayloadFacts ==
  ASSUME NEW e \in Exports, \A m \in e.machines : \E k \in e.keys : k.id = m.key,
         NEW R \in Finite(Rules), \A r \in R : \E m \in e.machines : m.id = r.machine,
         NEW f, Yields(e, R, f)
  PROVE  /\ f \in Files
         /\ \A n \in DOMAIN f.machines : \E j \in DOMAIN f.keys : f.keys[j].name = f.machines[n].key
         /\ \A n \in DOMAIN f.rules : \E j \in DOMAIN f.machines : f.machines[j].name = f.rules[n].name
  <1>0. /\ e.machines \in SUBSET Machines /\ IsFiniteSet(e.machines)
        /\ e.keys \in SUBSET Keys /\ IsFiniteSet(e.keys)
        /\ e.proxies \in SUBSET Proxies /\ IsFiniteSet(e.proxies)
        /\ e.channels \in Channels /\ e.globals \in Globals
    BY ExportParts
  <1> USE <1>0
  <1> DEFINE T == { t \in Types : e.channels[t] # None }
  <1>y. PICK ks \in Listing(e.keys), ms \in Listing(e.machines), ps \in Listing(e.proxies),
             ts \in Listing(T), rs \in Listing(R) :
          f = buildBackupPayload(e, ks, ms, ps, ts, rs)
    BY DEF Yields
  <1>1. /\ \E n \in Nat : DOMAIN ks = 1..n
        /\ \A i \in DOMAIN ks : ks[i] \in e.keys
        /\ \A x \in e.keys : \E i \in DOMAIN ks : ks[i] = x
    BY ListingFacts
  <1>2. /\ \E n \in Nat : DOMAIN ms = 1..n
        /\ \A i \in DOMAIN ms : ms[i] \in e.machines
        /\ \A x \in e.machines : \E i \in DOMAIN ms : ms[i] = x
    BY ListingFacts
  <1>3. /\ \E n \in Nat : DOMAIN ps = 1..n
        /\ \A i \in DOMAIN ps : ps[i] \in e.proxies
    BY ListingFacts
  <1>4. /\ \E n \in Nat : DOMAIN ts = 1..n
        /\ \A i \in DOMAIN ts : ts[i] \in T
    <2>1. IsFiniteSet(T)
      BY FS_Subset, BackupAssumption DEF BackupAssumption
    <2> QED
      BY <2>1, ListingFacts
  <1>5. /\ \E n \in Nat : DOMAIN rs = 1..n
        /\ \A i \in DOMAIN rs : rs[i] \in R
    BY ListingFacts DEF Finite
  <1>6. \A i \in DOMAIN ms : \E k \in e.keys : NameOf(e.keys, ms[i].key) = k.name
    BY <1>2, NameOfFacts
  <1>7. \A i \in DOMAIN rs : \E m \in e.machines : NameOf(e.machines, rs[i].machine) = m.name
    BY <1>5, NameOfFacts
  <1>8. \A i \in DOMAIN ts :
          buildBackupChannelPayload(e.channels[ts[i]], e.proxies)
            \in [on : BOOLEAN, proxy : Trimmed \cup {None}]
    <2> SUFFICES ASSUME NEW i \in DOMAIN ts
                 PROVE  buildBackupChannelPayload(e.channels[ts[i]], e.proxies)
                          \in [on : BOOLEAN, proxy : Trimmed \cup {None}]
      OBVIOUS
    <2>1. e.channels[ts[i]] \in [on : BOOLEAN, proxy : Nat]
      BY <1>4 DEF Channels
    <2> DEFINE c == e.channels[ts[i]]
    <2>2. NameOf(e.proxies, c.proxy) \in Trimmed \cup {None}
      <3>1. CASE \E r \in e.proxies : r.id = c.proxy
        <4>1. PICK r \in e.proxies : NameOf(e.proxies, c.proxy) = r.name
          BY <3>1, NameOfFacts
        <4> QED
          BY <4>1 DEF Proxies
      <3>2. CASE ~\E r \in e.proxies : r.id = c.proxy
        BY <3>2 DEF NameOf
      <3> QED
        BY <3>1, <3>2
    <2> QED
      BY <2>1, <2>2 DEF buildBackupChannelPayload
  <1>f. /\ f.keys = [i \in DOMAIN ks |-> [name |-> ks[i].name, mat |-> ks[i].mat]]
        /\ f.machines = [i \in DOMAIN ms |->
                          [name |-> ms[i].name, key |-> NameOf(e.keys, ms[i].key)]]
        /\ f.proxies = [i \in DOMAIN ps |-> [name |-> ps[i].name, url |-> ps[i].url]]
        /\ f.channels = [i \in DOMAIN ts |->
             [type |-> ts[i], cfg |-> buildBackupChannelPayload(e.channels[ts[i]], e.proxies)]]
        /\ f.rules = [i \in DOMAIN rs |->
                       [name |-> NameOf(e.machines, rs[i].machine),
                        dim |-> rs[i].dim, value |-> rs[i].value]]
    BY <1>y DEF buildBackupPayload
  <1>k. f.keys \in Seq([name : Names, mat : Materials])
    <2> DEFINE K(k) == [name |-> k.name, mat |-> k.mat]
    <2>1. \A i \in DOMAIN ks : K(ks[i]) \in [name : Names, mat : Materials]
      BY <1>1 DEF Keys
    <2>2. f.keys = [i \in DOMAIN ks |-> K(ks[i])]
      BY <1>f
    <2> HIDE DEF K
    <2>3. PICK n \in Nat : DOMAIN ks = 1..n
      BY <1>1
    <2>4. f.keys \in [1..n -> [name : Names, mat : Materials]]
      BY <2>1, <2>2, <2>3
    <2> QED
      BY <2>4, FunctionIsSeq
  <1>m. f.machines \in Seq([name : Trimmed, key : Names])
    <2> DEFINE M(m) == [name |-> m.name, key |-> NameOf(e.keys, m.key)]
    <2>1. \A i \in DOMAIN ms : M(ms[i]) \in [name : Trimmed, key : Names]
      BY <1>2, <1>6 DEF Keys, Machines
    <2>2. f.machines = [i \in DOMAIN ms |-> M(ms[i])]
      BY <1>f
    <2> HIDE DEF M
    <2> QED
      BY <1>2, <2>1, <2>2
  <1>p. f.proxies \in Seq([name : Trimmed, url : Urls])
    <2> DEFINE P(p) == [name |-> p.name, url |-> p.url]
    <2>1. \A i \in DOMAIN ps : P(ps[i]) \in [name : Trimmed, url : Urls]
      BY <1>3 DEF Proxies
    <2>2. f.proxies = [i \in DOMAIN ps |-> P(ps[i])]
      BY <1>f
    <2> HIDE DEF P
    <2> QED
      BY <1>3, <2>1, <2>2
  <1>c. f.channels \in Seq([type : Types, cfg : [on : BOOLEAN, proxy : Trimmed \cup {None}]])
    <2> DEFINE C(t) == [type |-> t, cfg |-> buildBackupChannelPayload(e.channels[t], e.proxies)]
    <2>1. \A i \in DOMAIN ts : C(ts[i]) \in [type : Types, cfg : [on : BOOLEAN, proxy : Trimmed \cup {None}]]
      BY <1>4, <1>8
    <2>2. f.channels = [i \in DOMAIN ts |-> C(ts[i])]
      BY <1>f
    <2> HIDE DEF C
    <2> QED
      BY <1>4, <2>1, <2>2
  <1>r. f.rules \in Seq([name : Trimmed, dim : Dims, value : Values])
    <2> DEFINE R1(r) == [name |-> NameOf(e.machines, r.machine), dim |-> r.dim, value |-> r.value]
    <2>1. \A i \in DOMAIN rs : R1(rs[i]) \in [name : Trimmed, dim : Dims, value : Values]
      BY <1>5, <1>7 DEF Machines, Rules, Finite
    <2>2. f.rules = [i \in DOMAIN rs |-> R1(rs[i])]
      BY <1>f
    <2> HIDE DEF R1
    <2> QED
      BY <1>5, <2>1, <2>2
  <1>9. f \in Files
    BY <1>y, <1>k, <1>m, <1>p, <1>c, <1>r DEF buildBackupPayload, Files
  <1>10. \A n \in DOMAIN f.machines : \E j \in DOMAIN f.keys : f.keys[j].name = f.machines[n].key
    <2>0. /\ DOMAIN f.machines = DOMAIN ms /\ DOMAIN f.keys = DOMAIN ks
          /\ \A n \in DOMAIN ms : f.machines[n].key = NameOf(e.keys, ms[n].key)
          /\ \A j \in DOMAIN ks : f.keys[j].name = ks[j].name
      BY <1>f
    <2> SUFFICES ASSUME NEW n \in DOMAIN ms
                 PROVE  \E j \in DOMAIN ks : ks[j].name = NameOf(e.keys, ms[n].key)
      BY <2>0
    <2>1. PICK k \in e.keys : NameOf(e.keys, ms[n].key) = k.name
      BY <1>6
    <2> QED
      BY <1>1, <2>1
  <1>11. \A n \in DOMAIN f.rules : \E j \in DOMAIN f.machines : f.machines[j].name = f.rules[n].name
    <2> SUFFICES ASSUME NEW n \in DOMAIN rs
                 PROVE  \E j \in DOMAIN ms : ms[j].name = NameOf(e.machines, rs[n].machine)
      BY <1>f
    <2>1. PICK m \in e.machines : NameOf(e.machines, rs[n].machine) = m.name
      BY <1>7
    <2> QED
      BY <1>2, <2>1
  <1> QED
    BY <1>9, <1>10, <1>11

-----------------------------------------------------------------------------
(* Tables, ids and what an import keeps in memory *)

LEMMA InstanceParts ==
  ASSUME NEW d \in Instances
  PROVE  /\ d.keys \in Finite(Keys) /\ d.machines \in Finite(Machines)
         /\ d.proxies \in Finite(Proxies) /\ d.rules \in Finite(Rules)
         /\ d.keys \in SUBSET Keys /\ d.machines \in SUBSET Machines
         /\ d.proxies \in SUBSET Proxies /\ d.rules \in SUBSET Rules
         /\ d.channels \in Channels /\ d.globals \in Globals
  BY DEF Instances, Finite

LEMMA InstanceChange ==
  ASSUME NEW d \in Instances
  PROVE  /\ \A x \in Finite(Keys) : [d EXCEPT !.keys = x] \in Instances
         /\ \A x \in Finite(Machines) : [d EXCEPT !.machines = x] \in Instances
         /\ \A x \in Finite(Proxies) : [d EXCEPT !.proxies = x] \in Instances
         /\ \A x \in Finite(Rules) : [d EXCEPT !.rules = x] \in Instances
         /\ \A x \in Channels : [d EXCEPT !.channels = x] \in Instances
         /\ \A x \in Globals : [d EXCEPT !.globals = x] \in Instances
  BY DEF Instances

LEMMA IdsStart == 1 \in Ids /\ \A x \in Ids : x + 1 \in Ids
  BY DEF Ids

LEMMA FirstFreeType ==
  ASSUME NEW d \in Instances
  PROVE  FirstFree(d) \in Ids
  <1> DEFINE rows == d.keys \cup d.machines \cup d.proxies
             a == { r.id : r \in rows }
             b == { r.machine : r \in d.rules }
  <1>1. IsFiniteSet(rows) /\ IsFiniteSet(d.rules)
    BY InstanceParts, FS_Union DEF Finite
  <1>2. IsFiniteSet(a) /\ IsFiniteSet(b)
    <2>1. [r \in rows |-> r.id] \in Surjection(rows, a)
      BY Zenon DEF Surjection
    <2>2. [r \in d.rules |-> r.machine] \in Surjection(d.rules, b)
      BY Zenon DEF Surjection
    <2> QED
      BY <1>1, <2>1, <2>2, FS_Surjection
  <1>3. a \in SUBSET Nat /\ b \in SUBSET Nat
    BY InstanceParts DEF Keys, Machines, Proxies, Rules, Ids
  <1>4. IsFiniteSet(IdsIn(d) \cup {0})
    BY <1>2, FS_Union, FS_AddElement DEF IdsIn
  <1>5. IdsIn(d) \cup {0} \in SUBSET Nat
    BY <1>3 DEF IdsIn
  <1>6. Max(IdsIn(d) \cup {0}) \in Nat
    BY <1>4, <1>5, MaxIsGreatest
  <1> QED
    BY <1>6 DEF FirstFree, Ids

LEMMA OldestIdFacts ==
  ASSUME NEW rows, \A r \in rows : r.id \in Ids
  PROVE  /\ OldestId(rows) \in Nat
         /\ OldestId(rows) # 0 <=> rows # {}
         /\ rows # {} => \E r \in rows : r.id = OldestId(rows)
  <1>1. CASE rows = {}
    BY <1>1 DEF OldestId
  <1>2. CASE rows # {}
    <2> DEFINE S == { r.id : r \in rows }
    <2>0. S \in SUBSET Nat /\ S # {}
      BY <1>2 DEF Ids
    <2>1. Min(S) \in S
      BY <2>0, MinIsLeast
    <2> QED
      BY <1>2, <2>1 DEF OldestId, Ids
  <1> QED
    BY <1>1, <1>2

LEMMA IdByNameFacts ==
  ASSUME NEW rows, \A r \in rows : r.id \in Ids
  PROVE  /\ IdByName(rows) \in [Names -> Nat]
         /\ \A n \in Names : IdByName(rows)[n] # 0 =>
              \E r \in rows : r.id = IdByName(rows)[n] /\ r.name = n
         /\ \A n \in Names : (\E r \in rows : r.name = n) => IdByName(rows)[n] # 0
  <1> DEFINE same(n) == { r \in rows : r.name = n }
  <1>1. \A n \in Names : /\ OldestId(same(n)) \in Nat
                         /\ OldestId(same(n)) # 0 <=> same(n) # {}
                         /\ same(n) # {} => \E r \in same(n) : r.id = OldestId(same(n))
    BY OldestIdFacts
  <1> QED
    BY <1>1 DEF IdByName

LEMMA IdByMaterialFacts ==
  ASSUME NEW rows, \A r \in rows : r.id \in Ids
  PROVE  /\ IdByMaterial(rows) \in [Materials -> Nat]
         /\ \A x \in Materials : IdByMaterial(rows)[x] # 0 =>
              \E r \in rows : r.id = IdByMaterial(rows)[x] /\ r.mat = x
         /\ \A x \in Materials : (\E r \in rows : r.mat = x) => IdByMaterial(rows)[x] # 0
  <1> DEFINE same(x) == { r \in rows : r.mat = x }
  <1>1. \A x \in Materials : /\ OldestId(same(x)) \in Nat
                             /\ OldestId(same(x)) # 0 <=> same(x) # {}
                             /\ same(x) # {} => \E r \in same(x) : r.id = OldestId(same(x))
    BY OldestIdFacts
  <1> QED
    BY <1>1 DEF IdByMaterial

JobStates == {"none", "idle", "keys", "machines", "proxies", "channels", "globals",
         "listRules", "rules", "ok", "failed", "refused"}

LEMMA NewJobType ==
  /\ NewJob \in Jobs
  /\ \A p \in JobStates : Ended(p) \in Jobs /\ Ended(p).pc = p
  /\ NewJob.pc = "idle"
  <1>1. /\ 1 \in Ids /\ Nowhere \in [Names -> Nat] /\ [x \in Materials |-> 0] \in [Materials -> Nat]
    BY DEF Nowhere, Ids
  <1>2. NewJob \in Jobs /\ NewJob.pc = "idle"
    BY <1>1 DEF NewJob, Jobs
  <1> QED
    BY <1>2 DEF Ended, Jobs, JobStates

LEMMA JobParts ==
  ASSUME NEW j \in Jobs
  PROVE  /\ j.pc \in JobStates /\ j.pos \in Ids
         /\ j.keyId \in [Names -> Nat] /\ j.printId \in [Materials -> Nat]
         /\ j.machineId \in [Names -> Nat] /\ j.proxyId \in [Names -> Nat]
         /\ j.existing \in SUBSET (Names \cup Types) /\ j.have \in SUBSET (Dims \cup (Ids \X Dims))
  BY DEF Jobs, JobStates

LEMMA JobSet ==
  ASSUME job \in [Imports -> Jobs], NEW i \in Imports, NEW j \in Jobs, Set(i, j)
  PROVE  /\ job' \in [Imports -> Jobs] /\ job'[i] = j
         /\ \A k \in Imports : k # i => job'[k] = job[k]
  BY DEF Set

-----------------------------------------------------------------------------
(* Types, and what the file and the imports owe to the export *)

LEMMA ScenarioParts ==
  ASSUME scn \in Scenarios
  PROVE  /\ scn.source \in Instances /\ scn.target \in Instances
         /\ scn.fails \in Nat /\ scn.edits \in Nat
  BY BackupAssumption DEF BackupAssumption

LEMMA EmptyIsFinite == \A S : {} \in Finite(S)
  BY FS_EmptySet DEF Finite

LEMMA NewExportType ==
  /\ NewExport \in Exports /\ NewExport.pc = "machines"
  /\ [NewExport EXCEPT !.pc = "done"] \in Exports /\ [NewExport EXCEPT !.pc = "done"].pc = "done"
  /\ [NewExport EXCEPT !.pc = "refused"] \in Exports
  /\ [NewExport EXCEPT !.pc = "refused"].pc = "refused"
  <1>1. [t \in Types |-> None] \in Channels /\ [d \in Dims |-> None] \in Globals
    BY DEF Channels, Globals
  <1> QED
    BY <1>1, EmptyIsFinite DEF NewExport, Exports

LEMMA NoFileType == NoFile \in Files
  BY DEF NoFile, Files, Globals

LEMMA ShapeInit == ASSUME BackupInit PROVE Shape
  <1>1. scn \in Scenarios /\ db \in Instances /\ nextId \in Ids /\ fails \in Nat /\ edits \in Nat
    BY ScenarioParts, FirstFreeType DEF BackupInit
  <1>2. exp \in Exports /\ exp.pc = "machines"
    BY NewExportType DEF BackupInit
  <1>3. file \in Files /\ DOMAIN file.machines = {} /\ DOMAIN file.rules = {} /\ DOMAIN file.keys = {}
        /\ DOMAIN file.proxies = {}
    BY NoFileType DEF BackupInit, NoFile
  <1>4. \A i \in Imports : job[i] \in {NewJob, Ended("none")}
    BY DEF BackupInit, NewJob, Ended
  <1>5. job \in [Imports -> Jobs]
    <2>1. \A i \in Imports : job[i] \in Jobs
      BY <1>4, NewJobType DEF JobStates
    <2> QED
      BY <2>1 DEF BackupInit
  <1>6. \A i \in Imports : job[i].pc \in {"none", "idle"}
    BY <1>4, NewJobType DEF JobStates
  <1>7. BackupTypeOK
    BY <1>1, <1>2, <1>3, <1>5 DEF BackupTypeOK, BackupInit
  <1> QED
    BY <1>2, <1>3, <1>4, <1>6, <1>7 DEF Shape, ExportClosed, FileClosed, Gate

\* Before the export is through nothing is imported, whatever the file.
LEMMA ShapeBefore ==
  ASSUME Shape, exp.pc # "done", UNCHANGED <<scn, job>>,
         db' \in Instances, exp' \in Exports, file' \in Files, nextId' \in Ids,
         fails' \in Nat, edits' \in Nat, edited' \subseteq {"source", "set", "drop"},
         ExportClosed', FileClosed', exp'.pc = "done" => db' = scn.target
  PROVE  Shape'
  <1>1. \A i \in Imports : job[i] \in {NewJob, Ended("none")}
    BY DEF Shape, Gate
  <1>2. \A i \in Imports : job[i].pc \in {"none", "idle"}
    BY <1>1, NewJobType DEF JobStates
  <1>3. Gate'
    BY <1>1, <1>2 DEF Gate, NewJob, Ended, Nowhere
  <1>4. BackupTypeOK'
    BY DEF Shape, BackupTypeOK
  <1> QED
    BY <1>3, <1>4 DEF Shape

LEMMA ExportShape == ASSUME Shape, Export PROVE Shape'
  <1>0. /\ db \in Instances /\ exp \in Exports /\ file \in Files /\ nextId \in Ids /\ fails \in Nat
        /\ edits \in Nat /\ edited \subseteq {"source", "set", "drop"} /\ FileClosed
        /\ scn \in Scenarios /\ ExportClosed
    BY DEF Shape, BackupTypeOK
  <1>1. CASE ListMachines
    <2>1. selectBackupMachines(db.machines) \in Finite(Machines)
      BY <1>0, InstanceParts, FiniteSub DEF selectBackupMachines
    <2>2. exp' \in Exports /\ exp'.pc = "keys"
      BY <1>0, <1>1, <2>1 DEF ListMachines, Exports
    <2>3. FileClosed' /\ ExportClosed'
      BY <1>0, <1>1, <2>2 DEF ListMachines, FileClosed, ExportClosed
    <2> QED
      BY <1>0, <1>1, <2>2, <2>3, ShapeBefore DEF ListMachines, KeepsImports, bounds
  <1>2. CASE ListKeys
    <2> DEFINE keys == selectBackupSSHKeys(db.keys, exp.machines)
               missing == \E m \in exp.machines : ~\E k \in db.keys : k.id = m.key
    <2>1. keys \in Finite(Keys)
      BY <1>0, InstanceParts, FiniteSub DEF selectBackupSSHKeys
    <2>2. FileClosed'
      BY <1>0, <1>2 DEF ListKeys, FileClosed
    <2>3. \/ exp' = [NewExport EXCEPT !.pc = "refused"]
          \/ ~missing /\ exp' = [exp EXCEPT !.pc = "proxies", !.keys = keys]
      BY <1>2 DEF ListKeys
    <2>4. CASE exp' = [NewExport EXCEPT !.pc = "refused"]
      <3>1. exp' \in Exports /\ exp'.pc = "refused"
        BY <2>4, NewExportType
      <3>2. ExportClosed'
        BY <3>1 DEF ExportClosed
      <3> QED
        BY <1>0, <1>2, <2>2, <3>1, <3>2, ShapeBefore DEF ListKeys, KeepsImports, bounds
    <2>5. CASE ~missing /\ exp' = [exp EXCEPT !.pc = "proxies", !.keys = keys]
      <3>1. exp' \in Exports /\ exp'.pc = "proxies" /\ exp'.keys = keys /\ exp'.machines = exp.machines
        BY <1>0, <2>1, <2>5 DEF Exports
      <3>2. \A m \in exp.machines : \E k \in keys : k.id = m.key
        BY <2>5 DEF selectBackupSSHKeys
      <3>3. ExportClosed'
        BY <3>1, <3>2 DEF ExportClosed
      <3> QED
        BY <1>0, <1>2, <2>2, <3>1, <3>3, ShapeBefore DEF ListKeys, KeepsImports, bounds
    <2> QED
      BY <2>3, <2>4, <2>5
  <1>3. CASE ListProxies \/ ListChannels \/ ListGlobals
    <2>0. db.proxies \in Finite(Proxies) /\ db.channels \in Channels /\ db.globals \in Globals
      BY <1>0, InstanceParts
    <2>1. /\ exp.pc \in {"proxies", "channels", "globals"}
          /\ \/ exp' = [exp EXCEPT !.pc = "channels", !.proxies = db.proxies]
             \/ exp' = [exp EXCEPT !.pc = "globals", !.channels = db.channels]
             \/ exp' = [exp EXCEPT !.pc = "rules", !.globals = db.globals]
      BY <1>3 DEF ListProxies, ListChannels, ListGlobals
    <2>2. /\ exp' \in Exports /\ exp'.pc \in {"channels", "globals", "rules"}
          /\ exp'.keys = exp.keys /\ exp'.machines = exp.machines
      BY <1>0, <2>0, <2>1 DEF Exports
    <2>3. ExportClosed'
      BY <1>0, <2>1, <2>2 DEF ExportClosed
    <2>4. UNCHANGED <<scn, job, nextId, fails, edits, edited, db, file>>
      BY <1>3 DEF ListProxies, ListChannels, ListGlobals, KeepsImports, bounds
    <2>5. FileClosed'
      BY <1>0, <2>4 DEF FileClosed
    <2> QED
      BY <1>0, <2>1, <2>2, <2>3, <2>4, <2>5, ShapeBefore
  <1>4. CASE ListRules
    <2> DEFINE T == { t \in Types : exp.channels[t] # None }
               R == { r \in db.rules : \E m \in exp.machines : m.id = r.machine }
    <2>1. PICK ks \in List(exp.keys, Newest), ms \in List(exp.machines, Newest),
               ps \in List(exp.proxies, Oldest), ts \in List(T, ByType), rs \in List(R, ByMachine) :
            file' = buildBackupPayload(exp, ks, ms, ps, ts, rs)
      BY <1>4 DEF ListRules
    <2>2. /\ ks \in Listing(exp.keys) /\ ms \in Listing(exp.machines) /\ ps \in Listing(exp.proxies)
          /\ ts \in Listing(T) /\ rs \in Listing(R)
      BY <2>1, Zenon DEF List, Listing
    <2>3. R \in Finite(Rules) /\ \A r \in R : \E m \in exp.machines : m.id = r.machine
      BY <1>0, InstanceParts, FiniteSub
    <2>4. \A m \in exp.machines : \E k \in exp.keys : k.id = m.key
      BY <1>0, <1>4 DEF ExportClosed, ListRules
    <2>5. Yields(exp, R, file')
      BY <2>1, <2>2, Zenon DEF Yields
    <2> HIDE DEF T, R
    <2>6. file' \in Files /\ FileClosed'
      BY <1>0, <2>3, <2>4, <2>5, PayloadFacts DEF FileClosed
    <2>7. exp' \in Exports /\ exp'.pc = "done"
      BY <1>4, NewExportType DEF ListRules
    <2>8. ExportClosed'
      BY <2>7 DEF ExportClosed
    <2>9. db' = scn.target /\ db' \in Instances /\ nextId' \in Ids
      BY <1>0, <1>4, ScenarioParts, FirstFreeType DEF ListRules
    <2> QED
      BY <1>0, <1>4, <2>6, <2>7, <2>8, <2>9, ShapeBefore DEF ListRules, bounds
  <1>5. CASE ExportFails
    <2>1. exp' \in Exports /\ exp'.pc = "machines"
      BY <1>5, NewExportType DEF ExportFails
    <2>2. fails' \in Nat
      BY <1>0, <1>5 DEF ExportFails
    <2>3. ExportClosed' /\ FileClosed'
      BY <1>0, <1>5, <2>1 DEF ExportClosed, FileClosed, ExportFails
    <2> QED
      BY <1>0, <1>5, <2>1, <2>2, <2>3, ShapeBefore DEF ExportFails
  <1> QED
    BY <1>1, <1>2, <1>3, <1>4, <1>5 DEF Export

-----------------------------------------------------------------------------
(* The steps of an import, field by field *)

LEMMA UnderFacts ==
  ASSUME Shape, NEW i \in Imports, Under(i) \/ job[i].pc = "failed"
  PROVE  exp.pc = "done" /\ validateBackupPayload(file)
  <1>1. job[i].pc \notin {"none", "idle", "refused"}
    BY DEF Under
  <1>2. job[i] \notin {NewJob, Ended("none")}
    BY <1>1, NewJobType DEF JobStates
  <1> QED
    BY <1>1, <1>2 DEF Shape, Gate

\* An import that gets on leaves export, file and bounds alone.
LEMMA StepShape ==
  ASSUME Shape, NEW i \in Imports, exp.pc = "done", validateBackupPayload(file),
         NEW j \in Jobs, j.pc # "refused", Set(i, j), UNCHANGED context,
         db' \in Instances, nextId' \in Ids, fails' \in Nat, UNCHANGED <<edits, edited>>
  PROVE  Shape'
  <1>0. BackupTypeOK /\ ExportClosed /\ FileClosed /\ Gate
    BY DEF Shape
  <1>1. /\ job' \in [Imports -> Jobs] /\ job'[i] = j
        /\ \A k \in Imports : k # i => job'[k] = job[k]
    BY <1>0, JobSet DEF BackupTypeOK
  <1>2. BackupTypeOK' /\ ExportClosed' /\ FileClosed'
    BY <1>0, <1>1 DEF BackupTypeOK, ExportClosed, FileClosed, context
  <1>3. validateBackupPayload(file') /\ exp'.pc = "done"
    BY DEF context
  <1>4. \A k \in Imports : job'[k].pc # "refused"
    BY <1>0, <1>1 DEF Gate
  <1> QED
    BY <1>2, <1>3, <1>4 DEF Shape, Gate

LEMMA SeqItem ==
  ASSUME NEW S, NEW s \in Seq(S), NEW n \in DOMAIN s
  PROVE  s[n] \in S
  OBVIOUS

LEMMA FileItems ==
  ASSUME NEW f \in Files
  PROVE  /\ \A n \in DOMAIN f.keys : f.keys[n] \in [name : Names, mat : Materials]
         /\ \A n \in DOMAIN f.machines : f.machines[n] \in [name : Trimmed, key : Names]
         /\ \A n \in DOMAIN f.proxies : f.proxies[n] \in [name : Trimmed, url : Urls]
         /\ \A n \in DOMAIN f.channels :
              f.channels[n] \in [type : Types, cfg : [on : BOOLEAN, proxy : Trimmed \cup {None}]]
         /\ \A n \in DOMAIN f.rules : f.rules[n] \in [name : Trimmed, dim : Dims, value : Values]
         /\ f.globals \in Globals
  <1>1. /\ f.keys \in Seq([name : Names, mat : Materials])
        /\ f.machines \in Seq([name : Trimmed, key : Names])
        /\ f.proxies \in Seq([name : Trimmed, url : Urls])
        /\ f.channels \in Seq([type : Types, cfg : [on : BOOLEAN, proxy : Trimmed \cup {None}]])
        /\ f.rules \in Seq([name : Trimmed, dim : Dims, value : Values])
        /\ f.globals \in Globals
    BY DEF Files
  <1> QED
    BY <1>1, SeqItem

\* What the import takes from the file.
LEMMA KeyItem ==
  ASSUME file \in Files, validateBackupPayload(file), NEW n \in DOMAIN file.keys
  PROVE  /\ file.keys[n].name \in Names /\ file.keys[n].mat \in Materials
         /\ Trim[file.keys[n].name] \in Trimmed /\ Trim[file.keys[n].name] \in Names
         /\ Trim[file.keys[n].name] # None
  <1>1. file.keys[n] \in [name : Names, mat : Materials]
    BY FileItems
  <1>2. Trim[file.keys[n].name] # None
    BY DEF validateBackupPayload
  <1> QED
    BY <1>1, <1>2, BackupAssumption DEF BackupAssumption, Trimmed

LEMMA MachineItem ==
  ASSUME file \in Files, FileClosed, validateBackupPayload(file), NEW n \in DOMAIN file.machines
  PROVE  /\ file.machines[n].name \in Trimmed /\ file.machines[n].name \in Names
         /\ Trim[file.machines[n].name] = file.machines[n].name
         /\ file.machines[n].name # None
         /\ Trim[file.machines[n].key] \in Names
         /\ \E x \in DOMAIN file.keys : Trim[file.keys[x].name] = Trim[file.machines[n].key]
  <1>1. file.machines[n] \in [name : Trimmed, key : Names]
    BY FileItems
  <1>2. PICK x \in DOMAIN file.keys : file.keys[x].name = file.machines[n].key
    BY DEF FileClosed
  <1> QED
    BY <1>1, <1>2, KeyItem, BackupAssumption DEF Trimmed, BackupAssumption

LEMMA ProxyItem ==
  ASSUME file \in Files, NEW n \in DOMAIN file.proxies
  PROVE  /\ file.proxies[n].name \in Trimmed /\ file.proxies[n].name \in Names
         /\ Trim[file.proxies[n].name] = file.proxies[n].name
         /\ file.proxies[n].url \in Urls
  <1>1. file.proxies[n] \in [name : Trimmed, url : Urls]
    BY FileItems
  <1> QED
    BY <1>1 DEF Trimmed

LEMMA ChannelItem ==
  ASSUME file \in Files, NEW n \in DOMAIN file.channels
  PROVE  /\ file.channels[n].type \in Types /\ file.channels[n].cfg.on \in BOOLEAN
         /\ file.channels[n].cfg.proxy \in Trimmed \cup {None}
  <1>1. file.channels[n] \in [type : Types, cfg : [on : BOOLEAN, proxy : Trimmed \cup {None}]]
    BY FileItems
  <1> QED
    BY <1>1

LEMMA RuleItem ==
  ASSUME file \in Files, FileClosed, NEW n \in DOMAIN file.rules
  PROVE  /\ file.rules[n].name \in Trimmed /\ file.rules[n].name \in Names
         /\ Trim[file.rules[n].name] = file.rules[n].name
         /\ file.rules[n].dim \in Dims /\ file.rules[n].value \in Values
         /\ \E x \in DOMAIN file.machines : file.machines[x].name = file.rules[n].name
  <1>1. file.rules[n] \in [name : Trimmed, dim : Dims, value : Values]
    BY FileItems
  <1> QED
    BY <1>1 DEF Trimmed, FileClosed

LEMMA SectionTypes ==
  ASSUME file \in Files, NEW s \in {"keys", "machines", "proxies", "channels", "rules"}
  PROVE  Len(file[s]) \in Nat /\ DOMAIN file[s] = 1..Len(file[s])
  <1>1. /\ DOMAIN file.keys = 1..Len(file.keys) /\ Len(file.keys) \in Nat
        /\ DOMAIN file.machines = 1..Len(file.machines) /\ Len(file.machines) \in Nat
        /\ DOMAIN file.proxies = 1..Len(file.proxies) /\ Len(file.proxies) \in Nat
        /\ DOMAIN file.channels = 1..Len(file.channels) /\ Len(file.channels) \in Nat
        /\ DOMAIN file.rules = 1..Len(file.rules) /\ Len(file.rules) \in Nat
    BY DEF Files
  <1> QED
    BY <1>1

\* Where an import is in a section.
LEMMA AtFacts ==
  ASSUME Shape, NEW i \in Imports, NEW s \in {"keys", "machines", "proxies", "channels"}, At(i, s)
  PROVE  job[i].pos \in DOMAIN file[s] /\ job[i].pc = s
  BY SectionTypes, JobParts DEF Shape, BackupTypeOK, At, Ids

LEMMA ThroughFacts ==
  ASSUME Shape, NEW i \in Imports, NEW s \in {"keys", "machines", "proxies", "channels"}, Through(i, s)
  PROVE  (\A n \in DOMAIN file[s] : n < job[i].pos) /\ job[i].pc = s
  BY SectionTypes, JobParts DEF Shape, BackupTypeOK, Through, Ids

LEMMA AdvanceType ==
  ASSUME job \in [Imports -> Jobs], NEW i \in Imports
  PROVE  /\ Advance(i) \in Jobs /\ Advance(i).pc = job[i].pc /\ Advance(i).pos = job[i].pos + 1
         /\ Advance(i).keyId = job[i].keyId /\ Advance(i).printId = job[i].printId
         /\ Advance(i).machineId = job[i].machineId /\ Advance(i).proxyId = job[i].proxyId
         /\ Advance(i).existing = job[i].existing /\ Advance(i).have = job[i].have
  <1>1. job[i] \in Jobs /\ job[i].pos + 1 \in Ids
    BY JobParts DEF Ids
  <1> QED
    BY <1>1 DEF Advance, Jobs

\* Setting an entry of one of the maps.
LEMMA EntrySet ==
  ASSUME NEW j \in Jobs, NEW id \in Nat
  PROVE  /\ \A n \in Names :
              /\ [j EXCEPT !.keyId[n] = id] \in Jobs
              /\ [j EXCEPT !.machineId[n] = id] \in Jobs
              /\ [j EXCEPT !.proxyId[n] = id] \in Jobs
         /\ \A n \in Names, x \in Materials : [j EXCEPT !.keyId[n] = id, !.printId[x] = id] \in Jobs
  BY Zenon DEF Jobs

\* Only import i moves, with a file that was accepted.
Moves(i) ==
  /\ exp.pc = "done" /\ validateBackupPayload(file)
  /\ \A k \in Imports : k # i => job'[k] = job[k]
  /\ UNCHANGED <<context, edits, edited>>
  /\ Shape'
KeepsMaps(i) ==
  /\ job'[i].keyId = job[i].keyId /\ job'[i].printId = job[i].printId
  /\ job'[i].machineId = job[i].machineId /\ job'[i].proxyId = job[i].proxyId

LEMMA MovesTo ==
  ASSUME Shape, NEW i \in Imports, exp.pc = "done", validateBackupPayload(file),
         NEW j \in Jobs, j.pc # "refused", Set(i, j), UNCHANGED context,
         db' \in Instances, nextId' \in Ids, fails' \in Nat, UNCHANGED <<edits, edited>>
  PROVE  Moves(i) /\ job'[i] = j
  <1>1. job'[i] = j /\ \A k \in Imports : k # i => job'[k] = job[k]
    BY JobSet DEF Shape, BackupTypeOK
  <1>2. Shape'
    BY StepShape
  <1> QED
    BY <1>1, <1>2 DEF Moves

LEMMA ShapeParts ==
  ASSUME Shape
  PROVE  /\ scn \in Scenarios /\ db \in Instances /\ exp \in Exports /\ file \in Files
         /\ job \in [Imports -> Jobs] /\ nextId \in Ids /\ fails \in Nat /\ edits \in Nat
         /\ edited \subseteq {"source", "set", "drop"} /\ FileClosed /\ ExportClosed /\ Gate
  BY DEF Shape, BackupTypeOK

LEMMA ReadKeysMoves ==
  ASSUME Shape, NEW i \in Imports, ReadKeys(i)
  PROVE  /\ Moves(i) /\ UNCHANGED db
         /\ job'[i].pc = "keys" /\ job'[i].pos = 1
         /\ job'[i].keyId = IdByName(db.keys) /\ job'[i].printId = IdByMaterial(db.keys)
         /\ job'[i].machineId = Nowhere /\ job'[i].proxyId = Nowhere
  <1> DEFINE j == [NewJob EXCEPT !.pc = "keys", !.keyId = IdByName(db.keys),
                                 !.printId = IdByMaterial(db.keys)]
  <1>1. \A k \in db.keys : k.id \in Ids
    BY ShapeParts, InstanceParts DEF Keys
  <1>2. IdByName(db.keys) \in [Names -> Nat] /\ IdByMaterial(db.keys) \in [Materials -> Nat]
    BY <1>1, IdByNameFacts, IdByMaterialFacts
  <1>3. j \in Jobs
    BY <1>2, NewJobType DEF Jobs
  <1>4. /\ j.pc = "keys" /\ j.pos = 1 /\ j.keyId = IdByName(db.keys)
        /\ j.printId = IdByMaterial(db.keys) /\ j.machineId = Nowhere /\ j.proxyId = Nowhere
    BY DEF NewJob
  <1>5. /\ exp.pc = "done" /\ validateBackupPayload(file) /\ Set(i, j) /\ UNCHANGED <<context, db>>
        /\ db' \in Instances /\ nextId' \in Ids /\ fails' \in Nat /\ UNCHANGED <<edits, edited>>
    BY ShapeParts DEF ReadKeys, bounds
  <1> HIDE DEF j
  <1>6. Moves(i) /\ job'[i] = j
    BY <1>3, <1>4, <1>5, MovesTo
  <1> QED
    BY <1>4, <1>5, <1>6

LEMMA NewKeyType ==
  ASSUME Shape, NEW n \in Names, NEW x \in Materials, NewKey(n, x)
  PROVE  /\ db' \in Instances /\ nextId' \in Ids
         /\ db' = [db EXCEPT !.keys = db.keys \cup {[id |-> nextId, name |-> n, mat |-> x]}]
         /\ db'.keys = db.keys \cup {[id |-> nextId, name |-> n, mat |-> x]}
         /\ db'.machines = db.machines /\ db'.proxies = db.proxies /\ db'.channels = db.channels
         /\ db'.globals = db.globals /\ db'.rules = db.rules
  <1>1. db \in Instances /\ nextId \in Ids
    BY ShapeParts
  <1> DEFINE K == db.keys \cup {[id |-> nextId, name |-> n, mat |-> x]}
  <1>2. [id |-> nextId, name |-> n, mat |-> x] \in Keys
    BY <1>1 DEF Keys
  <1>3. K \in Finite(Keys)
    BY <1>1, <1>2, InstanceParts, FiniteAdd
  <1>4. db' = [db EXCEPT !.keys = K] /\ nextId' = nextId + 1
    BY DEF NewKey
  <1> HIDE DEF K
  <1>5. db' \in Instances /\ nextId' \in Ids
    BY <1>1, <1>3, <1>4, InstanceChange DEF Ids
  <1>6. /\ db'.keys = K /\ db'.machines = db.machines /\ db'.proxies = db.proxies
        /\ db'.channels = db.channels /\ db'.globals = db.globals /\ db'.rules = db.rules
    BY <1>1, <1>4 DEF Instances
  <1> QED
    BY <1>4, <1>5, <1>6 DEF K

LEMMA NewMachineType ==
  ASSUME Shape, NEW n \in Trimmed, NEW x \in Ids, NewMachine(n, x)
  PROVE  /\ db' \in Instances /\ nextId' \in Ids
         /\ db'.machines = db.machines \cup {[id |-> nextId, name |-> n, key |-> x]}
         /\ db'.keys = db.keys /\ db'.proxies = db.proxies /\ db'.channels = db.channels
         /\ db'.globals = db.globals /\ db'.rules = db.rules
  <1>1. db \in Instances /\ nextId \in Ids
    BY ShapeParts
  <1> DEFINE M == db.machines \cup {[id |-> nextId, name |-> n, key |-> x]}
  <1>2. [id |-> nextId, name |-> n, key |-> x] \in Machines
    BY <1>1 DEF Machines
  <1>3. M \in Finite(Machines)
    BY <1>1, <1>2, InstanceParts, FiniteAdd
  <1>4. db' = [db EXCEPT !.machines = M] /\ nextId' = nextId + 1
    BY DEF NewMachine
  <1> HIDE DEF M
  <1>5. db' \in Instances /\ nextId' \in Ids
    BY <1>1, <1>3, <1>4, InstanceChange DEF Ids
  <1>6. /\ db'.machines = M /\ db'.keys = db.keys /\ db'.proxies = db.proxies
        /\ db'.channels = db.channels /\ db'.globals = db.globals /\ db'.rules = db.rules
    BY <1>1, <1>4 DEF Instances
  <1> QED
    BY <1>5, <1>6 DEF M

LEMMA ImportKeyMoves ==
  ASSUME Shape, NEW i \in Imports, ImportKey(i)
  PROVE  LET item == file.keys[job[i].pos]
             name == Trim[item.name]
             taken == \E k \in db.keys : k.mat = item.mat
         IN /\ Moves(i)
            /\ job[i].pc = "keys" /\ job'[i].pc = "keys" /\ job'[i].pos = job[i].pos + 1
            /\ job[i].pos \in DOMAIN file.keys
            /\ job'[i].machineId = job[i].machineId /\ job'[i].proxyId = job[i].proxyId
            /\ db'.machines = db.machines /\ db'.proxies = db.proxies /\ db'.channels = db.channels
            /\ db'.globals = db.globals /\ db'.rules = db.rules
            /\ \/ job[i].keyId[name] # 0 /\ db'.keys = db.keys /\ KeepsMaps(i)
               \/ /\ job[i].keyId[name] = 0 /\ taken /\ db'.keys = db.keys
                  /\ job'[i].keyId = [job[i].keyId EXCEPT ![name] = job[i].printId[item.mat]]
                  /\ job'[i].printId = job[i].printId
               \/ /\ job[i].keyId[name] = 0 /\ ~taken
                  /\ db'.keys = db.keys \cup {[id |-> nextId, name |-> name, mat |-> item.mat]}
                  /\ job'[i].keyId = [job[i].keyId EXCEPT ![name] = nextId]
                  /\ job'[i].printId = [job[i].printId EXCEPT ![item.mat] = nextId]
  <1> DEFINE item == file.keys[job[i].pos]
             name == Trim[item.name]
             taken == \E k \in db.keys : k.mat = item.mat
             id == job[i].printId[item.mat]
             a == Advance(i)
             b == [a EXCEPT !.keyId[name] = id]
             c == [a EXCEPT !.keyId[name] = nextId, !.printId[item.mat] = nextId]
  <1>0. /\ db \in Instances /\ job \in [Imports -> Jobs] /\ nextId \in Ids /\ nextId \in Nat
        /\ fails \in Nat /\ file \in Files
    BY ShapeParts DEF Ids
  <1>1. job[i].pos \in DOMAIN file.keys /\ job[i].pc = "keys"
    BY AtFacts DEF ImportKey
  <1>2. exp.pc = "done" /\ validateBackupPayload(file)
    BY <1>1, UnderFacts DEF Under
  <1>3. item.mat \in Materials /\ name \in Names /\ name # None
    BY <1>0, <1>1, <1>2, KeyItem
  <1>4. /\ a \in Jobs /\ a.pc = "keys" /\ a.pos = job[i].pos + 1
        /\ a.keyId = job[i].keyId /\ a.printId = job[i].printId
        /\ a.machineId = job[i].machineId /\ a.proxyId = job[i].proxyId
    BY <1>0, <1>1, AdvanceType
  <1>5. id \in Nat
    BY <1>0, <1>3, JobParts
  <1>6. UNCHANGED <<context, fails, edits, edited>> /\ fails' \in Nat
    BY <1>0 DEF ImportKey, bounds
  <1>7. \/ job[i].keyId[name] # 0 /\ Set(i, a) /\ UNCHANGED <<db, nextId>>
        \/ job[i].keyId[name] = 0 /\ taken /\ Set(i, b) /\ UNCHANGED <<db, nextId>>
        \/ job[i].keyId[name] = 0 /\ ~taken /\ NewKey(name, item.mat) /\ Set(i, c)
    BY <1>3, Zenon DEF ImportKey, Item, Skip
  <1> HIDE DEF a, name, item, id, taken
  <1>8. CASE job[i].keyId[name] # 0 /\ Set(i, a) /\ UNCHANGED <<db, nextId>>
    <2>1. Moves(i) /\ job'[i] = a
      BY <1>0, <1>2, <1>4, <1>6, <1>8, MovesTo
    <2> QED
      BY <1>1, <1>4, <1>8, <2>1, Zenon DEF KeepsMaps, item, name
  <1>9. CASE job[i].keyId[name] = 0 /\ taken /\ Set(i, b) /\ UNCHANGED <<db, nextId>>
    <2>1. b \in Jobs
      BY <1>3, <1>4, <1>5, EntrySet, Zenon
    <2>2. /\ b.pc = "keys" /\ b.pos = a.pos /\ b.keyId = [a.keyId EXCEPT ![name] = id]
          /\ b.printId = a.printId /\ b.machineId = a.machineId /\ b.proxyId = a.proxyId
      BY <1>4 DEF Jobs
    <2> HIDE DEF b
    <2>3. Moves(i) /\ job'[i] = b
      BY <1>0, <1>2, <1>6, <1>9, <2>1, <2>2, MovesTo
    <2> QED
      BY <1>1, <1>4, <1>9, <2>2, <2>3, Zenon DEF item, name, id, taken
  <1>10. CASE job[i].keyId[name] = 0 /\ ~taken /\ NewKey(name, item.mat) /\ Set(i, c)
    <2>1. c \in Jobs
      BY <1>0, <1>3, <1>4, EntrySet, Zenon
    <2>2. /\ c.pc = "keys" /\ c.pos = a.pos /\ c.keyId = [a.keyId EXCEPT ![name] = nextId]
          /\ c.printId = [a.printId EXCEPT ![item.mat] = nextId]
          /\ c.machineId = a.machineId /\ c.proxyId = a.proxyId
      BY <1>4 DEF Jobs
    <2> HIDE DEF c
    <2>3. /\ db' \in Instances /\ nextId' \in Ids
          /\ db'.keys = db.keys \cup {[id |-> nextId, name |-> name, mat |-> item.mat]}
          /\ db'.machines = db.machines /\ db'.proxies = db.proxies /\ db'.channels = db.channels
          /\ db'.globals = db.globals /\ db'.rules = db.rules
      BY <1>3, <1>10, NewKeyType
    <2>4. Moves(i) /\ job'[i] = c
      BY <1>2, <1>6, <1>10, <2>1, <2>2, <2>3, MovesTo
    <2> QED
      BY <1>1, <1>4, <1>10, <2>2, <2>3, <2>4, Zenon DEF item, name, taken
  <1> QED
    BY <1>7, <1>8, <1>9, <1>10, Zenon

LEMMA ReadMachinesMoves ==
  ASSUME Shape, NEW i \in Imports, ReadMachines(i)
  PROVE  /\ Moves(i) /\ UNCHANGED db
         /\ job[i].pc = "keys" /\ \A n \in DOMAIN file.keys : n < job[i].pos
         /\ job'[i].pc = "machines" /\ job'[i].pos = 1
         /\ job'[i].keyId = job[i].keyId /\ job'[i].printId = job[i].printId
         /\ job'[i].machineId = IdByName(db.machines) /\ job'[i].proxyId = job[i].proxyId
  <1> DEFINE j == [job[i] EXCEPT !.pc = "machines", !.pos = 1, !.machineId = IdByName(db.machines)]
  <1>0. job[i] \in Jobs
    BY ShapeParts
  <1>1. job[i].pc = "keys" /\ \A n \in DOMAIN file.keys : n < job[i].pos
    BY ThroughFacts DEF ReadMachines
  <1>2. IdByName(db.machines) \in [Names -> Nat]
    BY ShapeParts, InstanceParts, IdByNameFacts DEF Machines
  <1>3. j \in Jobs
    BY <1>0, <1>2, IdsStart DEF Jobs
  <1>4. /\ j.pc = "machines" /\ j.pos = 1 /\ j.keyId = job[i].keyId /\ j.printId = job[i].printId
        /\ j.machineId = IdByName(db.machines) /\ j.proxyId = job[i].proxyId
    BY <1>0 DEF Jobs
  <1>5. /\ Set(i, j) /\ UNCHANGED <<context, db>>
        /\ db' \in Instances /\ nextId' \in Ids /\ fails' \in Nat /\ UNCHANGED <<edits, edited>>
    BY ShapeParts DEF ReadMachines, bounds
  <1>6. exp.pc = "done" /\ validateBackupPayload(file)
    BY <1>1, UnderFacts DEF Under
  <1> HIDE DEF j
  <1>7. Moves(i) /\ job'[i] = j
    BY <1>3, <1>4, <1>5, <1>6, MovesTo
  <1> QED
    BY <1>1, <1>4, <1>5, <1>7

LEMMA ImportMachineMoves ==
  ASSUME Shape, NEW i \in Imports, ImportMachine(i)
  PROVE  LET item == file.machines[job[i].pos]
             name == item.name
             key == job[i].keyId[Trim[item.key]]
         IN /\ Moves(i)
            /\ job[i].pc = "machines" /\ job'[i].pc = "machines" /\ job'[i].pos = job[i].pos + 1
            /\ job[i].pos \in DOMAIN file.machines
            /\ job'[i].keyId = job[i].keyId /\ job'[i].printId = job[i].printId
            /\ job'[i].proxyId = job[i].proxyId
            /\ db'.keys = db.keys /\ db'.proxies = db.proxies /\ db'.channels = db.channels
            /\ db'.globals = db.globals /\ db'.rules = db.rules
            /\ \/ /\ job[i].machineId[name] # 0 \/ key = 0
                  /\ db'.machines = db.machines /\ job'[i].machineId = job[i].machineId
               \/ /\ job[i].machineId[name] = 0 /\ key # 0
                  /\ db'.machines = db.machines \cup {[id |-> nextId, name |-> name, key |-> key]}
                  /\ job'[i].machineId = [job[i].machineId EXCEPT ![name] = nextId]
  <1> DEFINE item == file.machines[job[i].pos]
             name == item.name
             key == job[i].keyId[Trim[item.key]]
             skip == job[i].machineId[name] # 0 \/ key = 0
             a == Advance(i)
             b == [a EXCEPT !.machineId[name] = nextId]
  <1>0. /\ db \in Instances /\ job \in [Imports -> Jobs] /\ nextId \in Ids /\ nextId \in Nat
        /\ fails \in Nat /\ file \in Files /\ FileClosed
    BY ShapeParts DEF Ids
  <1>1. job[i].pos \in DOMAIN file.machines /\ job[i].pc = "machines"
    BY AtFacts DEF ImportMachine
  <1>2. exp.pc = "done" /\ validateBackupPayload(file)
    BY <1>1, UnderFacts DEF Under
  <1>3. name \in Trimmed /\ name \in Names /\ Trim[name] = name /\ name # None /\ Trim[item.key] \in Names
    BY <1>0, <1>1, <1>2, MachineItem
  <1>4. /\ a \in Jobs /\ a.pc = "machines" /\ a.pos = job[i].pos + 1
        /\ a.keyId = job[i].keyId /\ a.printId = job[i].printId
        /\ a.machineId = job[i].machineId /\ a.proxyId = job[i].proxyId
    BY <1>0, <1>1, AdvanceType
  <1>5. key \in Nat
    BY <1>0, <1>3, JobParts
  <1>6. UNCHANGED <<context, fails, edits, edited>> /\ fails' \in Nat
    BY <1>0 DEF ImportMachine, bounds
  <1>7. \/ skip /\ Set(i, a) /\ UNCHANGED <<db, nextId>>
        \/ ~skip /\ NewMachine(name, key) /\ Set(i, b)
    BY <1>3, Zenon DEF ImportMachine, Item, Skip
  <1> HIDE DEF a, name, item, key
  <1>8. CASE skip /\ Set(i, a) /\ UNCHANGED <<db, nextId>>
    <2>1. Moves(i) /\ job'[i] = a
      BY <1>0, <1>2, <1>4, <1>6, <1>8, MovesTo
    <2> QED
      BY <1>1, <1>4, <1>8, <2>1, Zenon DEF item, name, key
  <1>9. CASE ~skip /\ NewMachine(name, key) /\ Set(i, b)
    <2>1. b \in Jobs
      BY <1>0, <1>3, <1>4, EntrySet, Zenon
    <2>2. /\ b.pc = "machines" /\ b.pos = a.pos /\ b.keyId = a.keyId /\ b.printId = a.printId
          /\ b.machineId = [a.machineId EXCEPT ![name] = nextId] /\ b.proxyId = a.proxyId
      BY <1>4 DEF Jobs
    <2> HIDE DEF b
    <2>3. key \in Ids
      BY <1>5, <1>9 DEF Ids
    <2>4. /\ db' \in Instances /\ nextId' \in Ids
          /\ db'.machines = db.machines \cup {[id |-> nextId, name |-> name, key |-> key]}
          /\ db'.keys = db.keys /\ db'.proxies = db.proxies /\ db'.channels = db.channels
          /\ db'.globals = db.globals /\ db'.rules = db.rules
      BY <1>3, <1>9, <2>3, NewMachineType
    <2>5. Moves(i) /\ job'[i] = b
      BY <1>2, <1>6, <1>9, <2>1, <2>2, <2>4, MovesTo
    <2> QED
      BY <1>1, <1>4, <1>9, <2>2, <2>4, <2>5, Zenon DEF item, name, key
  <1> QED
    BY <1>7, <1>8, <1>9, Zenon

LEMMA ReadProxiesMoves ==
  ASSUME Shape, NEW i \in Imports, ReadProxies(i)
  PROVE  /\ Moves(i) /\ UNCHANGED db
         /\ job[i].pc = "machines" /\ \A n \in DOMAIN file.machines : n < job[i].pos
         /\ job'[i].pc = "proxies" /\ job'[i].pos = 1
         /\ job'[i].keyId = job[i].keyId /\ job'[i].printId = job[i].printId
         /\ job'[i].machineId = job[i].machineId /\ job'[i].proxyId = IdByName(db.proxies)
         /\ job'[i].existing = { p.name : p \in db.proxies }
  <1> DEFINE e == { p.name : p \in db.proxies }
             j == [job[i] EXCEPT !.pc = "proxies", !.pos = 1, !.proxyId = IdByName(db.proxies),
                                 !.existing = e]
  <1>0. job[i] \in Jobs /\ db.proxies \in SUBSET Proxies
    BY ShapeParts, InstanceParts
  <1>1. job[i].pc = "machines" /\ \A n \in DOMAIN file.machines : n < job[i].pos
    BY ThroughFacts DEF ReadProxies
  <1>2. IdByName(db.proxies) \in [Names -> Nat]
    BY <1>0, IdByNameFacts DEF Proxies
  <1>3. e \in SUBSET (Names \cup Types)
    BY <1>0 DEF Proxies, Trimmed
  <1>4. Set(i, j) /\ UNCHANGED <<context, db>>
        /\ db' \in Instances /\ nextId' \in Ids /\ fails' \in Nat /\ UNCHANGED <<edits, edited>>
    BY ShapeParts DEF ReadProxies, bounds
  <1> HIDE DEF e
  <1>5. j \in Jobs
    BY <1>0, <1>2, <1>3, IdsStart DEF Jobs
  <1>6. /\ j.pc = "proxies" /\ j.pos = 1 /\ j.keyId = job[i].keyId /\ j.printId = job[i].printId
        /\ j.machineId = job[i].machineId /\ j.proxyId = IdByName(db.proxies) /\ j.existing = e
    BY <1>0 DEF Jobs
  <1>7. exp.pc = "done" /\ validateBackupPayload(file)
    BY <1>1, UnderFacts DEF Under
  <1> HIDE DEF j
  <1>8. Moves(i) /\ job'[i] = j
    BY <1>4, <1>5, <1>6, <1>7, MovesTo
  <1> QED
    BY <1>1, <1>4, <1>6, <1>8 DEF e

LEMMA ImportProxyMoves ==
  ASSUME Shape, NEW i \in Imports, ImportProxy(i)
  PROVE  LET item == file.proxies[job[i].pos]
         IN /\ Moves(i)
            /\ job[i].pc = "proxies" /\ job'[i].pc = "proxies" /\ job'[i].pos = job[i].pos + 1
            /\ job[i].pos \in DOMAIN file.proxies
            /\ job'[i].keyId = job[i].keyId /\ job'[i].printId = job[i].printId
            /\ job'[i].machineId = job[i].machineId /\ job'[i].existing = job[i].existing
            /\ db'.keys = db.keys /\ db'.machines = db.machines /\ db'.channels = db.channels
            /\ db'.globals = db.globals /\ db'.rules = db.rules
            /\ \/ /\ item.name \in job[i].existing
                  /\ db'.proxies = db.proxies /\ job'[i].proxyId = job[i].proxyId
               \/ /\ item.name \notin job[i].existing
                  /\ db'.proxies = db.proxies \cup {[id |-> nextId, name |-> item.name, url |-> item.url]}
                  /\ job'[i].proxyId = [job[i].proxyId EXCEPT ![item.name] = IF @ = 0 THEN nextId ELSE @]
  <1> DEFINE item == file.proxies[job[i].pos]
             name == item.name
             p == [id |-> nextId, name |-> name, url |-> item.url]
             id == IF job[i].proxyId[name] = 0 THEN nextId ELSE job[i].proxyId[name]
             a == Advance(i)
             b == [a EXCEPT !.proxyId[name] = id]
  <1>0. /\ db \in Instances /\ job \in [Imports -> Jobs] /\ nextId \in Ids /\ nextId \in Nat
        /\ fails \in Nat /\ file \in Files
    BY ShapeParts DEF Ids
  <1>1. job[i].pos \in DOMAIN file.proxies /\ job[i].pc = "proxies"
    BY AtFacts DEF ImportProxy
  <1>2. exp.pc = "done" /\ validateBackupPayload(file)
    BY <1>1, UnderFacts DEF Under
  <1>3. name \in Trimmed /\ name \in Names /\ Trim[name] = name /\ item.url \in Urls
    BY <1>0, <1>1, ProxyItem
  <1>4. /\ a \in Jobs /\ a.pc = "proxies" /\ a.pos = job[i].pos + 1
        /\ a.keyId = job[i].keyId /\ a.printId = job[i].printId /\ a.existing = job[i].existing
        /\ a.machineId = job[i].machineId /\ a.proxyId = job[i].proxyId
    BY <1>0, <1>1, AdvanceType
  <1>5. id \in Nat
    BY <1>0, <1>3, JobParts
  <1>6. UNCHANGED <<context, fails, edits, edited>> /\ fails' \in Nat
    BY <1>0 DEF ImportProxy, bounds
  <1>7. \/ name \in job[i].existing /\ Set(i, a) /\ UNCHANGED <<db, nextId>>
        \/ /\ name \notin job[i].existing
           /\ db' = [db EXCEPT !.proxies = db.proxies \cup {p}]
           /\ nextId' = nextId + 1
           /\ Set(i, b)
    <2>1. [a EXCEPT !.proxyId[name] = IF @ = 0 THEN nextId ELSE @] = b
      BY <1>4
    <2> QED
      BY <1>3, <2>1, Zenon DEF ImportProxy, Item, Skip
  <1>8. p \in Proxies
    BY <1>0, <1>3 DEF Proxies
  <1> HIDE DEF a, name, item
  <1>9. CASE name \in job[i].existing /\ Set(i, a) /\ UNCHANGED <<db, nextId>>
    <2>1. Moves(i) /\ job'[i] = a
      BY <1>0, <1>2, <1>4, <1>6, <1>9, MovesTo
    <2> QED
      BY <1>1, <1>4, <1>9, <2>1 DEF item, name
  <1>10. CASE /\ name \notin job[i].existing
              /\ db' = [db EXCEPT !.proxies = db.proxies \cup {p}]
              /\ nextId' = nextId + 1
              /\ Set(i, b)
    <2> HIDE DEF p, id
    <2>1. b \in Jobs
      BY <1>3, <1>4, <1>5, EntrySet, Zenon
    <2>2. /\ b.pc = "proxies" /\ b.pos = a.pos /\ b.keyId = a.keyId /\ b.printId = a.printId
          /\ b.machineId = a.machineId /\ b.proxyId = [a.proxyId EXCEPT ![name] = id]
          /\ b.existing = a.existing
      BY <1>4 DEF Jobs
    <2> HIDE DEF b
    <2>3. db.proxies \cup {p} \in Finite(Proxies)
      BY <1>0, <1>8, InstanceParts, FiniteAdd
    <2>4. db' \in Instances /\ nextId' \in Ids
      BY <1>0, <1>10, <2>3, InstanceChange, IdsStart
    <2>5. /\ db'.proxies = db.proxies \cup {p}
          /\ db'.keys = db.keys /\ db'.machines = db.machines /\ db'.channels = db.channels
          /\ db'.globals = db.globals /\ db'.rules = db.rules
      BY <1>0, <1>10 DEF Instances
    <2>6. Moves(i) /\ job'[i] = b
      BY <1>2, <1>6, <1>10, <2>1, <2>2, <2>4, MovesTo
    <2>7. [job[i].proxyId EXCEPT ![name] = IF @ = 0 THEN nextId ELSE @]
            = [job[i].proxyId EXCEPT ![name] = id]
      BY DEF id
    <2> QED
      BY <1>1, <1>4, <1>10, <2>2, <2>5, <2>6, <2>7, Zenon DEF item, name, p
  <1> QED
    BY <1>7, <1>9, <1>10

LEMMA ReadChannelsMoves ==
  ASSUME Shape, NEW i \in Imports, ReadChannels(i)
  PROVE  /\ Moves(i) /\ UNCHANGED db /\ KeepsMaps(i)
         /\ job[i].pc = "proxies" /\ \A n \in DOMAIN file.proxies : n < job[i].pos
         /\ job'[i].pc = "channels" /\ job'[i].pos = 1
         /\ job'[i].existing = { t \in Types : db.channels[t] # None }
  <1> DEFINE e == { t \in Types : db.channels[t] # None }
             j == [job[i] EXCEPT !.pc = "channels", !.pos = 1, !.existing = e]
  <1>0. job[i] \in Jobs
    BY ShapeParts
  <1>1. job[i].pc = "proxies" /\ \A n \in DOMAIN file.proxies : n < job[i].pos
    BY ThroughFacts DEF ReadChannels
  <1>2. e \in SUBSET (Names \cup Types)
    OBVIOUS
  <1>3. Set(i, j) /\ UNCHANGED <<context, db>>
        /\ db' \in Instances /\ nextId' \in Ids /\ fails' \in Nat /\ UNCHANGED <<edits, edited>>
    BY ShapeParts DEF ReadChannels, bounds
  <1> HIDE DEF e
  <1>4. j \in Jobs
    BY <1>0, <1>2, IdsStart DEF Jobs
  <1>5. /\ j.pc = "channels" /\ j.pos = 1 /\ j.keyId = job[i].keyId /\ j.printId = job[i].printId
        /\ j.machineId = job[i].machineId /\ j.proxyId = job[i].proxyId /\ j.existing = e
    BY <1>0 DEF Jobs
  <1>6. exp.pc = "done" /\ validateBackupPayload(file)
    BY <1>1, UnderFacts DEF Under
  <1> HIDE DEF j
  <1>7. Moves(i) /\ job'[i] = j
    BY <1>3, <1>4, <1>5, <1>6, MovesTo
  <1> QED
    BY <1>1, <1>3, <1>5, <1>7 DEF e, KeepsMaps

\* The proxy of an imported channel is none, or one the import knows.
LEMMA ChannelProxy ==
  ASSUME Shape, NEW i \in Imports, NEW n \in DOMAIN file.channels
  PROVE  LET c == applyBackupChannelProxy(file.channels[n].cfg, job[i].proxyId)
         IN /\ c \in [on : BOOLEAN, proxy : Nat]
            /\ c.proxy = 0 \/ \E x \in Names : c.proxy = job[i].proxyId[x]
  <1> DEFINE cfg == file.channels[n].cfg
  <1>1. cfg.on \in BOOLEAN /\ cfg.proxy \in Trimmed \cup {None}
    BY ShapeParts, ChannelItem
  <1>2. job[i].proxyId \in [Names -> Nat]
    BY ShapeParts, JobParts
  <1> HIDE DEF cfg
  <1>3. CASE cfg.proxy = None
    BY <1>1, <1>3 DEF applyBackupChannelProxy, cfg
  <1>4. CASE cfg.proxy # None
    <2>1. Trim[cfg.proxy] \in Names
      BY <1>1, <1>4 DEF Trimmed
    <2> QED
      BY <1>1, <1>2, <1>4, <2>1 DEF applyBackupChannelProxy, cfg
  <1> QED
    BY <1>3, <1>4

LEMMA ImportChannelMoves ==
  ASSUME Shape, NEW i \in Imports, ImportChannel(i)
  PROVE  LET item == file.channels[job[i].pos]
         IN /\ Moves(i) /\ KeepsMaps(i)
            /\ job[i].pc = "channels" /\ job'[i].pc = "channels" /\ job'[i].pos = job[i].pos + 1
            /\ job[i].pos \in DOMAIN file.channels /\ job'[i].existing = job[i].existing
            /\ db'.keys = db.keys /\ db'.machines = db.machines /\ db'.proxies = db.proxies
            /\ db'.globals = db.globals /\ db'.rules = db.rules
            /\ \/ item.type \in job[i].existing /\ db'.channels = db.channels
               \/ \E c \in [on : BOOLEAN, proxy : Nat] :
                    /\ c = applyBackupChannelProxy(item.cfg, job[i].proxyId)
                    /\ c.proxy = 0 \/ \E x \in Names : c.proxy = job[i].proxyId[x]
                    /\ db'.channels = [db.channels EXCEPT ![item.type] = IF @ = None THEN c ELSE @]
  <1> DEFINE item == file.channels[job[i].pos]
             c == applyBackupChannelProxy(item.cfg, job[i].proxyId)
             C == [db.channels EXCEPT ![item.type] = IF @ = None THEN c ELSE @]
             a == Advance(i)
  <1>0. /\ db \in Instances /\ job \in [Imports -> Jobs] /\ nextId \in Ids
        /\ fails \in Nat /\ file \in Files /\ db.channels \in Channels
    BY ShapeParts, InstanceParts
  <1>1. job[i].pos \in DOMAIN file.channels /\ job[i].pc = "channels"
    BY AtFacts DEF ImportChannel
  <1>2. exp.pc = "done" /\ validateBackupPayload(file)
    BY <1>1, UnderFacts DEF Under
  <1>3. item.type \in Types
    BY <1>0, <1>1, ChannelItem
  <1>4. /\ c \in [on : BOOLEAN, proxy : Nat]
        /\ c.proxy = 0 \/ \E x \in Names : c.proxy = job[i].proxyId[x]
    BY <1>1, ChannelProxy
  <1>5. /\ a \in Jobs /\ a.pc = "channels" /\ a.pos = job[i].pos + 1 /\ a.existing = job[i].existing
        /\ a.keyId = job[i].keyId /\ a.printId = job[i].printId
        /\ a.machineId = job[i].machineId /\ a.proxyId = job[i].proxyId
    BY <1>0, <1>1, AdvanceType
  <1>6. UNCHANGED <<context, nextId, edits, edited>> /\ fails' \in Nat /\ nextId' \in Ids /\ Set(i, a)
    BY <1>0 DEF ImportChannel, bounds
  <1>7. \/ item.type \in job[i].existing /\ UNCHANGED db
        \/ db' = [db EXCEPT !.channels = C]
    BY Zenon DEF ImportChannel, Item
  <1>8. C \in Channels
    BY <1>0, <1>3, <1>4 DEF Channels
  <1> HIDE DEF a, c, C
  <1>9. /\ db' \in Instances /\ db'.keys = db.keys /\ db'.machines = db.machines
        /\ db'.proxies = db.proxies /\ db'.globals = db.globals /\ db'.rules = db.rules
        /\ \/ item.type \in job[i].existing /\ db'.channels = db.channels
           \/ db'.channels = C
    BY <1>0, <1>7, <1>8, InstanceChange DEF Instances
  <1>10. Moves(i) /\ job'[i] = a
    BY <1>2, <1>5, <1>6, <1>9, MovesTo
  <1> QED
    BY <1>1, <1>4, <1>5, <1>9, <1>10, Zenon DEF c, C, KeepsMaps

LEMMA ReadGlobalsMoves ==
  ASSUME Shape, NEW i \in Imports, ReadGlobals(i)
  PROVE  /\ Moves(i) /\ UNCHANGED db /\ KeepsMaps(i)
         /\ job[i].pc = "channels" /\ \A n \in DOMAIN file.channels : n < job[i].pos
         /\ job'[i].pc = "globals"
         /\ job'[i].have = { d \in Dims : db.globals[d] # None }
  <1> DEFINE h == { d \in Dims : db.globals[d] # None }
             j == [job[i] EXCEPT !.pc = "globals", !.have = h]
  <1>0. job[i] \in Jobs
    BY ShapeParts
  <1>1. job[i].pc = "channels" /\ \A n \in DOMAIN file.channels : n < job[i].pos
    BY ThroughFacts DEF ReadGlobals
  <1>2. h \in SUBSET (Dims \cup (Ids \X Dims))
    OBVIOUS
  <1>3. Set(i, j) /\ UNCHANGED <<context, db>>
        /\ db' \in Instances /\ nextId' \in Ids /\ fails' \in Nat /\ UNCHANGED <<edits, edited>>
    BY ShapeParts DEF ReadGlobals, bounds
  <1> HIDE DEF h
  <1>4. j \in Jobs
    BY <1>0, <1>2 DEF Jobs
  <1>5. /\ j.pc = "globals" /\ j.keyId = job[i].keyId /\ j.printId = job[i].printId
        /\ j.machineId = job[i].machineId /\ j.proxyId = job[i].proxyId /\ j.have = h
    BY <1>0 DEF Jobs
  <1>6. exp.pc = "done" /\ validateBackupPayload(file)
    BY <1>1, UnderFacts DEF Under
  <1> HIDE DEF j
  <1>7. Moves(i) /\ job'[i] = j
    BY <1>3, <1>4, <1>5, <1>6, MovesTo
  <1> QED
    BY <1>1, <1>3, <1>5, <1>7 DEF h, KeepsMaps

LEMMA WriteGlobalsMoves ==
  ASSUME Shape, NEW i \in Imports, WriteGlobals(i)
  PROVE  /\ Moves(i) /\ KeepsMaps(i)
         /\ job[i].pc = "globals" /\ job'[i].pc = "listRules"
         /\ db'.keys = db.keys /\ db'.machines = db.machines /\ db'.proxies = db.proxies
         /\ db'.channels = db.channels /\ db'.rules = db.rules
         /\ db'.globals = [d \in Dims |-> IF d \in job[i].have \/ db.globals[d] # None
                                          THEN db.globals[d] ELSE file.globals[d]]
  <1> DEFINE G == [d \in Dims |-> IF d \in job[i].have \/ db.globals[d] # None
                                  THEN db.globals[d] ELSE file.globals[d]]
             j == [job[i] EXCEPT !.pc = "listRules"]
  <1>0. job[i] \in Jobs /\ db \in Instances /\ db.globals \in Globals /\ file.globals \in Globals
    BY ShapeParts, InstanceParts, FileItems
  <1>1. G \in Globals
    BY <1>0 DEF Globals
  <1>2. /\ Set(i, j) /\ db' = [db EXCEPT !.globals = G] /\ UNCHANGED <<context, edits, edited>>
        /\ nextId' \in Ids /\ fails' \in Nat /\ job[i].pc = "globals"
    BY ShapeParts DEF WriteGlobals, bounds
  <1> HIDE DEF G
  <1>3. /\ db' \in Instances /\ db'.keys = db.keys /\ db'.machines = db.machines
        /\ db'.proxies = db.proxies /\ db'.channels = db.channels /\ db'.rules = db.rules
        /\ db'.globals = G
    BY <1>0, <1>1, <1>2, InstanceChange DEF Instances
  <1>4. /\ j \in Jobs /\ j.pc = "listRules" /\ j.keyId = job[i].keyId /\ j.printId = job[i].printId
        /\ j.machineId = job[i].machineId /\ j.proxyId = job[i].proxyId
    BY <1>0 DEF Jobs
  <1>5. exp.pc = "done" /\ validateBackupPayload(file)
    BY <1>2, UnderFacts DEF Under
  <1> HIDE DEF j
  <1>6. Moves(i) /\ job'[i] = j
    BY <1>2, <1>3, <1>4, <1>5, MovesTo
  <1> QED
    BY <1>2, <1>3, <1>4, <1>6 DEF G, KeepsMaps

LEMMA ReadRulesMoves ==
  ASSUME Shape, NEW i \in Imports, ReadRules(i)
  PROVE  /\ Moves(i) /\ UNCHANGED db /\ KeepsMaps(i)
         /\ job[i].pc = "listRules" /\ job'[i].pc = "rules"
         /\ job'[i].have = { <<r.machine, r.dim>> : r \in db.rules }
  <1> DEFINE h == { <<r.machine, r.dim>> : r \in db.rules }
             j == [job[i] EXCEPT !.pc = "rules", !.have = h]
  <1>0. job[i] \in Jobs /\ db.rules \in SUBSET Rules
    BY ShapeParts, InstanceParts
  <1>1. h \in SUBSET (Dims \cup (Ids \X Dims))
    BY <1>0 DEF Rules
  <1>2. Set(i, j) /\ UNCHANGED <<context, db>> /\ job[i].pc = "listRules"
        /\ db' \in Instances /\ nextId' \in Ids /\ fails' \in Nat /\ UNCHANGED <<edits, edited>>
    BY ShapeParts DEF ReadRules, bounds
  <1> HIDE DEF h
  <1>3. j \in Jobs
    BY <1>0, <1>1 DEF Jobs
  <1>4. /\ j.pc = "rules" /\ j.keyId = job[i].keyId /\ j.printId = job[i].printId
        /\ j.machineId = job[i].machineId /\ j.proxyId = job[i].proxyId /\ j.have = h
    BY <1>0 DEF Jobs
  <1>5. exp.pc = "done" /\ validateBackupPayload(file)
    BY <1>2, UnderFacts DEF Under
  <1> HIDE DEF j
  <1>6. Moves(i) /\ job'[i] = j
    BY <1>2, <1>3, <1>4, <1>5, MovesTo
  <1> QED
    BY <1>2, <1>4, <1>6 DEF h, KeepsMaps

LEMMA EndedMaps ==
  ASSUME NEW p
  PROVE  /\ Ended(p).keyId = Nowhere /\ Ended(p).machineId = Nowhere /\ Ended(p).proxyId = Nowhere
         /\ Ended(p).printId = [x \in Materials |-> 0]
  BY DEF Ended, NewJob

\* The rules WriteRules inserts.
IdOfRule(i, n) == job[i].machineId[file.rules[n].name]
Firsts(i) ==
  { n \in DOMAIN file.rules :
      /\ IdOfRule(i, n) # 0
      /\ <<IdOfRule(i, n), file.rules[n].dim>> \notin job[i].have
      /\ \A k \in 1..(n - 1) :
           IdOfRule(i, k) # IdOfRule(i, n) \/ file.rules[k].dim # file.rules[n].dim }
NewRules(i) ==
  { [machine |-> IdOfRule(i, n), dim |-> file.rules[n].dim, value |-> file.rules[n].value] :
      n \in Firsts(i) }
Inserted(i) ==
  { r \in NewRules(i) : ~\E x \in db.rules : x.machine = r.machine /\ x.dim = r.dim }

LEMMA NewRulesType ==
  ASSUME Shape, NEW i \in Imports
  PROVE  NewRules(i) \in Finite(Rules)
  <1> DEFINE R(n) == [machine |-> IdOfRule(i, n), dim |-> file.rules[n].dim,
                      value |-> file.rules[n].value]
  <1>0. file \in Files /\ FileClosed /\ job[i] \in Jobs
    BY ShapeParts
  <1>1. IsFiniteSet(DOMAIN file.rules)
    BY <1>0, SectionTypes, FS_Interval
  <1>2. IsFiniteSet(Firsts(i))
    BY <1>1, FS_Subset DEF Firsts
  <1>3. [n \in Firsts(i) |-> R(n)] \in Surjection(Firsts(i), NewRules(i))
    BY Zenon DEF Surjection, NewRules
  <1>4. IsFiniteSet(NewRules(i))
    BY <1>2, <1>3, FS_Surjection
  <1>5. \A n \in Firsts(i) : R(n) \in Rules
    <2> TAKE n \in Firsts(i)
    <2>1. n \in DOMAIN file.rules /\ IdOfRule(i, n) # 0
      BY DEF Firsts
    <2>2. file.rules[n].name \in Names /\ file.rules[n].dim \in Dims /\ file.rules[n].value \in Values
      BY <1>0, <2>1, RuleItem
    <2>3. IdOfRule(i, n) \in Nat
      BY <1>0, <2>2, JobParts DEF IdOfRule
    <2> QED
      BY <2>1, <2>2, <2>3 DEF Rules, Ids
  <1>6. NewRules(i) \in SUBSET Rules
    BY <1>5 DEF NewRules
  <1> QED
    BY <1>4, <1>6 DEF Finite

LEMMA WriteRulesMoves ==
  ASSUME Shape, NEW i \in Imports, WriteRules(i)
  PROVE  /\ Moves(i)
         /\ job[i].pc = "rules" /\ job'[i] = Ended("ok")
         /\ db'.keys = db.keys /\ db'.machines = db.machines /\ db'.proxies = db.proxies
         /\ db'.channels = db.channels /\ db'.globals = db.globals
         /\ db'.rules = db.rules \cup Inserted(i)
  <1>0. db \in Instances /\ file \in Files /\ FileClosed /\ db.rules \in Finite(Rules)
    BY ShapeParts, InstanceParts
  <1>1. \A n \in DOMAIN file.rules : job[i].machineId[Trim[file.rules[n].name]] = IdOfRule(i, n)
    BY <1>0, RuleItem DEF IdOfRule
  <1>2. \A n \in DOMAIN file.rules : \A k \in 1..(n - 1) : k \in DOMAIN file.rules
    BY <1>0, SectionTypes
  <1> DEFINE id(n) == job[i].machineId[Trim[file.rules[n].name]]
             first == { n \in DOMAIN file.rules :
                          /\ id(n) # 0
                          /\ <<id(n), file.rules[n].dim>> \notin job[i].have
                          /\ \A k \in 1..(n - 1) :
                               id(k) # id(n) \/ file.rules[k].dim # file.rules[n].dim }
             new == { [machine |-> id(n), dim |-> file.rules[n].dim, value |-> file.rules[n].value] :
                        n \in first }
  <1>3. db' = [db EXCEPT !.rules =
                 db.rules \cup { r \in new : ~\E x \in db.rules : x.machine = r.machine /\ x.dim = r.dim }]
    BY DEF WriteRules
  <1>4. first = Firsts(i)
    <2>1. \A n \in DOMAIN file.rules : id(n) = IdOfRule(i, n)
      BY <1>1
    <2> HIDE DEF id
    <2> QED
      BY <1>2, <2>1 DEF Firsts
  <1>5. new = NewRules(i)
    <2>1. \A n \in first : id(n) = IdOfRule(i, n)
      BY <1>1
    <2> HIDE DEF id, first
    <2> QED
      BY <1>4, <2>1 DEF NewRules
  <1> HIDE DEF first, new
  <1>6. db' = [db EXCEPT !.rules = db.rules \cup Inserted(i)]
    BY <1>3, <1>5 DEF Inserted
  <1>7. Inserted(i) \in Finite(Rules)
    BY NewRulesType, FiniteSub DEF Inserted
  <1>8. db.rules \cup Inserted(i) \in Finite(Rules)
    BY <1>0, <1>7, FiniteTwo
  <1>9. /\ db' \in Instances /\ db'.keys = db.keys /\ db'.machines = db.machines
        /\ db'.proxies = db.proxies /\ db'.channels = db.channels /\ db'.globals = db.globals
        /\ db'.rules = db.rules \cup Inserted(i)
    BY <1>0, <1>6, <1>8, InstanceChange DEF Instances
  <1>10. /\ Set(i, Ended("ok")) /\ UNCHANGED <<context, edits, edited>>
         /\ nextId' \in Ids /\ fails' \in Nat /\ job[i].pc = "rules"
    BY ShapeParts DEF WriteRules, bounds
  <1>11. exp.pc = "done" /\ validateBackupPayload(file)
    BY <1>10, UnderFacts DEF Under
  <1>12. Ended("ok") \in Jobs /\ Ended("ok").pc = "ok"
    BY NewJobType DEF JobStates
  <1>13. Moves(i) /\ job'[i] = Ended("ok")
    BY <1>9, <1>10, <1>11, <1>12, MovesTo
  <1> QED
    BY <1>9, <1>10, <1>13

LEMMA ImportFailsMoves ==
  ASSUME Shape, NEW i \in Imports, ImportFails(i)
  PROVE  Moves(i) /\ UNCHANGED db /\ job'[i] = Ended("failed")
  <1>1. exp.pc = "done" /\ validateBackupPayload(file)
    BY UnderFacts DEF ImportFails
  <1>2. /\ Set(i, Ended("failed")) /\ UNCHANGED <<context, db, edits, edited>> /\ db' \in Instances
        /\ nextId' \in Ids /\ fails' \in Nat
    BY ShapeParts DEF ImportFails
  <1>3. Ended("failed") \in Jobs /\ Ended("failed").pc = "failed"
    BY NewJobType DEF JobStates
  <1> QED
    BY <1>1, <1>2, <1>3, MovesTo

LEMMA RefuseFields ==
  ASSUME Shape, NEW i \in Imports, Refuse(i)
  PROVE  /\ Shape' /\ UNCHANGED <<context, db, edits, edited>> /\ job'[i] = Ended("refused")
         /\ \A k \in Imports : k # i => job'[k] = job[k]
         /\ ~validateBackupPayload(file)
  <1>1. Ended("refused") \in Jobs /\ Ended("refused").pc = "refused"
    BY NewJobType DEF JobStates
  <1>2. /\ Set(i, Ended("refused")) /\ UNCHANGED <<context, db, nextId, fails, edits, edited>>
        /\ ~validateBackupPayload(file) /\ exp.pc = "done"
    BY DEF Refuse, bounds
  <1>3. /\ job' \in [Imports -> Jobs] /\ job'[i] = Ended("refused")
        /\ \A k \in Imports : k # i => job'[k] = job[k]
    BY <1>1, <1>2, ShapeParts, JobSet
  <1>4. BackupTypeOK' /\ ExportClosed' /\ FileClosed'
    BY <1>2, <1>3 DEF Shape, BackupTypeOK, ExportClosed, FileClosed, context
  <1>5. validateBackupPayload(file') <=> validateBackupPayload(file)
    BY <1>2 DEF context
  <1>6. Gate'
    <2>1. \A k \in Imports : job'[k].pc \in {"none", "idle", "refused"}
      BY <1>1, <1>2, <1>3 DEF Shape, Gate
    <2>2. db' = scn'.target
      BY <1>2 DEF Shape, Gate, context
    <2> QED
      BY <1>2, <1>5, <2>1, <2>2 DEF Gate, context
  <1> QED
    BY <1>2, <1>3, <1>4, <1>6 DEF Shape

-----------------------------------------------------------------------------
(* The edits of others *)

LEMMA EditShape ==
  ASSUME Shape, NEW k \in {"set", "drop"}, Edit(k), db' \in Instances, nextId' \in Ids
  PROVE  /\ Shape' /\ UNCHANGED <<context, job>> /\ edits' # edits /\ edited \subseteq edited'
         /\ exp.pc = "done" => k \in edited' /\ validateBackupPayload(file)
         /\ exp.pc # "done" => edited' = edited \cup {"source"}
  <1>1. /\ edits > 0 /\ edits' = edits - 1 /\ UNCHANGED <<context, job, fails>>
        /\ edited' \in {edited \cup {"source"}, edited \cup {k}}
    BY DEF Edit
  <1>2. exp.pc = "done" => k \in edited' /\ validateBackupPayload(file)
    BY UnderFacts DEF Edit
  <1>3. exp.pc # "done" => edited' = edited \cup {"source"}
    BY DEF Edit
  <1>4. edits \in Nat /\ edits' \in Nat /\ edits' # edits
    BY <1>1, ShapeParts
  <1>5. BackupTypeOK' /\ ExportClosed' /\ FileClosed'
    BY <1>1, <1>4 DEF Shape, BackupTypeOK, ExportClosed, FileClosed, context
  <1>6. validateBackupPayload(file') <=> validateBackupPayload(file)
    BY <1>1 DEF context
  <1>7. Gate'
    BY <1>1, <1>2, <1>6 DEF Shape, Gate, context
  <1> QED
    BY <1>1, <1>2, <1>3, <1>4, <1>5, <1>7 DEF Shape

\* No row goes, and what referred to a row still does.
Grows ==
  /\ \A k \in db.keys : k \in db'.keys
  /\ \A m \in db.machines : \E x \in db'.machines : x.id = m.id /\ x.name = m.name
  /\ \A p \in db.proxies : p \in db'.proxies
  /\ Resolved(db) => Resolved(db')

LEMMA AddKeyGrows ==
  ASSUME Shape, AddKey
  PROVE  Edit("set") /\ db' \in Instances /\ nextId' \in Ids /\ Grows
  <1>1. PICK n \in Names, x \in Materials : NewKey(n, x)
    BY DEF AddKey
  <1>2. /\ db' \in Instances /\ nextId' \in Ids
        /\ db'.keys = db.keys \cup {[id |-> nextId, name |-> n, mat |-> x]}
        /\ db'.machines = db.machines /\ db'.proxies = db.proxies /\ db'.channels = db.channels
        /\ db'.globals = db.globals /\ db'.rules = db.rules
    BY <1>1, NewKeyType
  <1>3. Grows
    BY <1>2 DEF Grows, Resolved
  <1> QED
    BY <1>2, <1>3 DEF AddKey

LEMMA RebindGrows ==
  ASSUME Shape, Rebind
  PROVE  Edit("set") /\ db' \in Instances /\ nextId' \in Ids /\ Grows
  <1>0. db \in Instances /\ nextId' \in Ids
    BY ShapeParts DEF Rebind
  <1>1. PICK m \in db.machines, k \in db.keys :
          db' = [db EXCEPT !.machines = (db.machines \ {m}) \cup {[m EXCEPT !.key = k.id]}]
    BY DEF Rebind
  <1> DEFINE x == [m EXCEPT !.key = k.id]
             M == (db.machines \ {m}) \cup {x}
  <1>2. x \in Machines /\ x.id = m.id /\ x.name = m.name /\ x.key = k.id
    <2>1. m \in Machines /\ k.id \in Ids
      BY <1>0, InstanceParts DEF Keys
    <2> QED
      BY <2>1 DEF Machines
  <1> HIDE DEF x
  <1>3. M \in Finite(Machines)
    <2>1. db.machines \ {m} \in Finite(Machines)
      BY <1>0, InstanceParts, FiniteSub
    <2> QED
      BY <1>2, <2>1, FiniteAdd
  <1>4. /\ db' \in Instances /\ db'.machines = M /\ db'.keys = db.keys /\ db'.proxies = db.proxies
        /\ db'.channels = db.channels /\ db'.rules = db.rules
    <2>1. db' = [db EXCEPT !.machines = M]
      BY <1>1 DEF x
    <2> HIDE DEF M
    <2> QED
      BY <1>0, <1>3, <2>1, InstanceChange DEF Instances
  <1>5. \A y \in db.machines : \E z \in db'.machines : z.id = y.id /\ z.name = y.name
    BY <1>2, <1>4
  <1>6. Resolved(db) => Resolved(db')
    <2> SUFFICES ASSUME Resolved(db) PROVE Resolved(db')
      OBVIOUS
    <2>1. \A y \in db'.machines : \E z \in db'.keys : z.id = y.key
      BY <1>1, <1>2, <1>4 DEF Resolved
    <2>2. \A r \in db'.rules : \E y \in db'.machines : y.id = r.machine
      <3> TAKE r \in db'.rules
      <3>1. PICK y \in db.machines : y.id = r.machine
        BY <1>4 DEF Resolved
      <3> QED
        BY <1>5, <3>1
    <2> QED
      BY <1>4, <2>1, <2>2 DEF Resolved
  <1>7. Grows
    BY <1>4, <1>5, <1>6 DEF Grows
  <1> QED
    BY <1>0, <1>4, <1>7 DEF Rebind

LEMMA SetChannelGrows ==
  ASSUME Shape, SetChannel
  PROVE  Edit("set") /\ db' \in Instances /\ nextId' \in Ids /\ Grows
  <1>0. db \in Instances /\ nextId' \in Ids /\ db.channels \in Channels
    BY ShapeParts, InstanceParts DEF SetChannel
  <1>1. PICK t \in Types, p \in { r.id : r \in db.proxies } \cup {0}, on \in BOOLEAN :
          db' = [db EXCEPT !.channels = [db.channels EXCEPT ![t] = [on |-> on, proxy |-> p]]]
    BY DEF SetChannel
  <1> DEFINE c == [on |-> on, proxy |-> p]
             C == [db.channels EXCEPT ![t] = c]
  <1>2. p \in Nat
    BY <1>0, InstanceParts DEF Proxies, Ids
  <1>3. c \in [on : BOOLEAN, proxy : Nat] /\ c.proxy = p
    BY <1>2
  <1>4. C \in Channels
    BY <1>0, <1>3 DEF Channels
  <1>5. db' = [db EXCEPT !.channels = C]
    BY <1>1
  <1> HIDE DEF C
  <1>6. /\ db' \in Instances /\ db'.channels = C /\ db'.keys = db.keys /\ db'.machines = db.machines
        /\ db'.proxies = db.proxies /\ db'.rules = db.rules
    BY <1>0, <1>4, <1>5, InstanceChange DEF Instances
  <1>7. Resolved(db) => Resolved(db')
    <2> SUFFICES ASSUME Resolved(db), NEW u \in Types
                 PROVE  \/ db'.channels[u] = None \/ db'.channels[u].proxy = 0
                        \/ \E x \in db'.proxies : x.id = db'.channels[u].proxy
      BY <1>6 DEF Resolved
    <2>1. CASE u = t
      <3>1. db'.channels[u] = c
        BY <1>0, <1>6, <2>1 DEF C, Channels
      <3> QED
        BY <1>1, <1>3, <1>6, <3>1
    <2>2. CASE u # t
      <3>1. db'.channels[u] = db.channels[u]
        BY <1>0, <1>6, <2>2 DEF C, Channels
      <3> QED
        BY <1>6, <3>1 DEF Resolved
    <2> QED
      BY <2>1, <2>2
  <1>8. Grows
    BY <1>6, <1>7 DEF Grows
  <1> QED
    BY <1>0, <1>6, <1>8 DEF SetChannel

LEMMA SetGlobalGrows ==
  ASSUME Shape, SetGlobal
  PROVE  Edit("set") /\ db' \in Instances /\ nextId' \in Ids /\ Grows
  <1>0. db \in Instances /\ nextId' \in Ids /\ db.globals \in Globals
    BY ShapeParts, InstanceParts DEF SetGlobal
  <1>1. PICK d \in Dims, v \in Values : db' = [db EXCEPT !.globals = [db.globals EXCEPT ![d] = v]]
    BY DEF SetGlobal
  <1> DEFINE G == [db.globals EXCEPT ![d] = v]
  <1>2. G \in Globals
    BY <1>0 DEF Globals
  <1>3. db' = [db EXCEPT !.globals = G]
    BY <1>1
  <1> HIDE DEF G
  <1>4. /\ db' \in Instances /\ db'.channels = db.channels /\ db'.keys = db.keys
        /\ db'.machines = db.machines /\ db'.proxies = db.proxies /\ db'.rules = db.rules
    BY <1>0, <1>2, <1>3, InstanceChange DEF Instances
  <1>5. Grows
    BY <1>4 DEF Grows, Resolved
  <1> QED
    BY <1>0, <1>4, <1>5 DEF SetGlobal

LEMMA SetRuleGrows ==
  ASSUME Shape, SetRule
  PROVE  Edit("set") /\ db' \in Instances /\ nextId' \in Ids /\ Grows
  <1>0. db \in Instances /\ nextId' \in Ids
    BY ShapeParts DEF SetRule
  <1>1. PICK m \in db.machines, d \in Dims, v \in Values :
          db' = [db EXCEPT !.rules = { r \in db.rules : r.machine # m.id \/ r.dim # d }
                                       \cup {[machine |-> m.id, dim |-> d, value |-> v]}]
    BY DEF SetRule
  <1> DEFINE x == [machine |-> m.id, dim |-> d, value |-> v]
             K == { r \in db.rules : r.machine # m.id \/ r.dim # d }
             R == K \cup {x}
  <1>2. x \in Rules /\ x.machine = m.id
    BY <1>0, InstanceParts DEF Machines, Rules
  <1>3. K \in Finite(Rules) /\ K \in SUBSET db.rules
    BY <1>0, InstanceParts, FiniteSub
  <1>4. db' = [db EXCEPT !.rules = R]
    BY <1>1
  <1> HIDE DEF x, K
  <1>5. R \in Finite(Rules)
    BY <1>2, <1>3, FiniteAdd
  <1>6. /\ db' \in Instances /\ db'.channels = db.channels /\ db'.keys = db.keys
        /\ db'.machines = db.machines /\ db'.proxies = db.proxies /\ db'.rules = R
    <2> HIDE DEF R
    <2> QED
      BY <1>0, <1>4, <1>5, InstanceChange DEF Instances
  <1>7. Grows
    BY <1>1, <1>2, <1>3, <1>6 DEF Grows, Resolved
  <1> QED
    BY <1>0, <1>6, <1>7 DEF SetRule

LEMMA DropTypes ==
  ASSUME Shape, DropKey \/ DropMachine \/ DropProxy
  PROVE  Edit("drop") /\ db' \in Instances /\ nextId' \in Ids
  <1>0. /\ db \in Instances /\ nextId' \in Ids /\ Edit("drop")
    BY ShapeParts DEF DropKey, DropMachine, DropProxy
  <1>1. CASE DropKey
    <2>1. PICK k \in db.keys : db' = [db EXCEPT !.keys = db.keys \ {k}]
      BY <1>1 DEF DropKey
    <2>2. db.keys \ {k} \in Finite(Keys)
      BY <1>0, InstanceParts, FiniteSub
    <2> QED
      BY <1>0, <2>1, <2>2, InstanceChange
  <1>2. CASE DropMachine
    <2>1. PICK m \in db.machines : db' = [db EXCEPT !.machines = db.machines \ {m}]
      BY <1>2 DEF DropMachine
    <2>2. db.machines \ {m} \in Finite(Machines)
      BY <1>0, InstanceParts, FiniteSub
    <2> QED
      BY <1>0, <2>1, <2>2, InstanceChange
  <1>3. CASE DropProxy
    <2>1. PICK p \in db.proxies : db' = [db EXCEPT !.proxies = db.proxies \ {p}]
      BY <1>3 DEF DropProxy
    <2>2. db.proxies \ {p} \in Finite(Proxies)
      BY <1>0, InstanceParts, FiniteSub
    <2> QED
      BY <1>0, <2>1, <2>2, InstanceChange
  <1> QED
    BY <1>1, <1>2, <1>3

LEMMA OthersFields ==
  ASSUME Shape, Others
  PROVE  /\ Shape' /\ UNCHANGED <<context, job>> /\ edits' # edits /\ edited \subseteq edited'
         /\ exp.pc = "done" =>
              validateBackupPayload(file) /\ ("drop" \in edited' \/ ("set" \in edited' /\ Grows))
  <1>1. CASE AddKey \/ Rebind \/ SetChannel \/ SetGlobal \/ SetRule
    <2>1. Edit("set") /\ db' \in Instances /\ nextId' \in Ids /\ Grows
      BY <1>1, AddKeyGrows, RebindGrows, SetChannelGrows, SetGlobalGrows, SetRuleGrows
    <2> QED
      BY <2>1, EditShape
  <1>2. CASE DropKey \/ DropMachine \/ DropProxy
    <2>1. Edit("drop") /\ db' \in Instances /\ nextId' \in Ids
      BY <1>2, DropTypes
    <2> QED
      BY <2>1, EditShape
  <1> QED
    BY <1>1, <1>2 DEF Others

-----------------------------------------------------------------------------
(* Types and refusals *)

LEMMA ImportShape == ASSUME Shape, NEW i \in Imports, Import(i) PROVE Shape'
  BY RefuseFields, ReadKeysMoves, ImportKeyMoves, ReadMachinesMoves, ImportMachineMoves,
     ReadProxiesMoves, ImportProxyMoves, ReadChannelsMoves, ImportChannelMoves, ReadGlobalsMoves,
     WriteGlobalsMoves, ReadRulesMoves, WriteRulesMoves, ImportFailsMoves, Zenon
     DEF Import, Moves

LEMMA ShapeStutter == ASSUME Shape, UNCHANGED backupVars PROVE Shape'
  <1>1. BackupTypeOK' /\ ExportClosed' /\ FileClosed'
    BY DEF Shape, backupVars, BackupTypeOK, ExportClosed, FileClosed
  <1>2. validateBackupPayload(file') <=> validateBackupPayload(file)
    BY DEF backupVars
  <1>3. Gate'
    BY <1>2 DEF Shape, Gate, backupVars
  <1> QED
    BY <1>1, <1>3 DEF Shape

LEMMA ShapeStep == ASSUME Shape, [BackupNext]_backupVars PROVE Shape'
  BY ExportShape, ImportShape, OthersFields, ShapeStutter DEF BackupNext

\* Every variable keeps its type: the tables stay finite sets of rows, the file
\* a well-formed backup whose machines and rules have their keys and machines.
THEOREM BackupTypes == BackupSpec => [](BackupTypeOK /\ FileClosed)
  <1>1. Shape => BackupTypeOK /\ FileClosed
    BY DEF Shape
  <1> QED
    BY <1>1, ShapeInit, ShapeStep, PTL DEF BackupSpec

\* importPayload validates before it writes: a file that is refused has left
\* the instance as it was.
THEOREM BackupRefusalWritesNothing == BackupSpec => []RefusalWritesNothing
  <1>1. Shape => RefusalWritesNothing
    <2> SUFFICES ASSUME Shape, NEW i \in Imports, job[i].pc = "refused" PROVE db = scn.target
      BY DEF RefusalWritesNothing
    <2>1. ~validateBackupPayload(file)
      BY DEF Shape, Gate
    <2>2. job[i] \notin {NewJob, Ended("none")}
      BY NewJobType DEF JobStates
    <2> QED
      BY <2>1, <2>2 DEF Shape, Gate
  <1> QED
    BY <1>1, ShapeInit, ShapeStep, PTL DEF BackupSpec

-----------------------------------------------------------------------------
(* An import only adds *)

Adds ==
  /\ db.keys \subseteq db'.keys /\ db.machines \subseteq db'.machines
  /\ db.proxies \subseteq db'.proxies /\ db.rules \subseteq db'.rules
  /\ \A t \in Types : db.channels[t] # None => db'.channels[t] = db.channels[t]
  /\ \A d \in Dims : db.globals[d] # None => db'.globals[d] = db.globals[d]

LEMMA ImportAdds == ASSUME Shape, NEW i \in Imports, Import(i) PROVE Adds
  <1>1. CASE \/ Refuse(i) \/ ReadKeys(i) \/ ReadMachines(i) \/ ReadProxies(i) \/ ReadChannels(i)
             \/ ReadGlobals(i) \/ ReadRules(i) \/ ImportFails(i)
    <2>1. UNCHANGED db
      BY <1>1, RefuseFields, ReadKeysMoves, ReadMachinesMoves, ReadProxiesMoves, ReadChannelsMoves,
         ReadGlobalsMoves, ReadRulesMoves, ImportFailsMoves
    <2> QED
      BY <2>1 DEF Adds
  <1>2. CASE ImportKey(i)
    BY <1>2, ImportKeyMoves, Zenon DEF Adds
  <1>3. CASE ImportMachine(i)
    BY <1>3, ImportMachineMoves, Zenon DEF Adds
  <1>4. CASE ImportProxy(i)
    BY <1>4, ImportProxyMoves DEF Adds
  <1>5. CASE ImportChannel(i)
    <2>0. db.channels \in Channels
      BY ShapeParts, InstanceParts
    <2>1. \A t \in Types : db.channels[t] # None => db'.channels[t] = db.channels[t]
      BY <1>5, <2>0, ImportChannelMoves DEF Channels
    <2> QED
      BY <1>5, <2>1, ImportChannelMoves DEF Adds
  <1>6. CASE WriteGlobals(i)
    BY <1>6, WriteGlobalsMoves DEF Adds
  <1>7. CASE WriteRules(i)
    BY <1>7, WriteRulesMoves DEF Adds
  <1> QED
    BY <1>1, <1>2, <1>3, <1>4, <1>5, <1>6, <1>7 DEF Import

LEMMA OnlyAddsStep ==
  ASSUME Shape, [BackupNext]_backupVars, exp.pc = "done", edits' = edits
  PROVE  Adds
  <1>1. CASE UNCHANGED backupVars
    BY <1>1 DEF Adds, backupVars
  <1>2. CASE Export
    BY <1>2 DEF Export, ListMachines, ListKeys, ListProxies, ListChannels, ListGlobals, ListRules,
                ExportFails
  <1>3. CASE \E i \in Imports : Import(i)
    BY <1>3, ImportAdds
  <1>4. CASE Others
    BY <1>4, OthersFields
  <1> QED
    BY <1>1, <1>2, <1>3, <1>4 DEF BackupNext

\* The inserts of an import are ON CONFLICT DO NOTHING or of new rows: none of its
\* steps changes or removes what is there, also not what appeared after the
\* import read the table.
THEOREM BackupImportOnlyAdds == BackupSpec => ImportOnlyAdds
  <1>1. ASSUME Shape, [BackupNext]_backupVars, exp.pc = "done", edits' = edits
        PROVE  /\ db.keys \subseteq db'.keys /\ db.machines \subseteq db'.machines
               /\ db.proxies \subseteq db'.proxies /\ db.rules \subseteq db'.rules
               /\ \A t \in Types : db.channels[t] # None => db'.channels[t] = db.channels[t]
               /\ \A d \in Dims : db.globals[d] # None => db'.globals[d] = db.globals[d]
    BY <1>1, OnlyAddsStep DEF Adds
  <1> QED
    BY <1>1, ShapeInit, ShapeStep, PTL DEF BackupSpec, ImportOnlyAdds

-----------------------------------------------------------------------------
(* References resolve *)

\* Every scenario's target is an instance without dangling references.
SoundTargets == \A x \in Scenarios : Resolved(x.target)

LEMMA ResolvedIs == RefsResolve <=> (exp.pc = "done" /\ "drop" \notin edited => Resolved(db))
  BY DEF RefsResolve, Resolved

LEMMA NewPoints ==
  ASSUME NEW p, NEW d
  PROVE  Points(Ended(p), d) /\ Points(NewJob, d)
  BY EndedMaps DEF Points, Nowhere, NewJob

LEMMA RefsInit == ASSUME BackupInit PROVE RefsInv
  <1>1. exp.pc # "done"
    BY NewExportType DEF BackupInit
  <1> QED
    BY <1>1 DEF RefsInv, PointsInv, RefsResolve

\* Ids that point to rows still do when rows are added.
LEMMA PointsGrow ==
  ASSUME NEW j, Points(j, db), Grows
  PROVE  Points(j, db')
  BY DEF Points, Grows

\* Only with its last query the export is through.
LEMMA ExportEnds ==
  ASSUME Shape, Export, exp'.pc = "done"
  PROVE  ListRules
  <1>1. exp \in Exports
    BY ShapeParts
  <1> QED
    BY <1>1, NewExportType DEF Export, ListMachines, ListKeys, ListProxies, ListChannels, ListGlobals,
                               ExportFails, Exports

LEMMA ExportRefs ==
  ASSUME SoundTargets, Shape, RefsInv, Export
  PROVE  RefsInv'
  <1>1. CASE exp'.pc # "done"
    BY <1>1 DEF RefsInv, PointsInv, RefsResolve
  <1>2. CASE exp'.pc = "done"
    <2>1. ListRules
      BY <1>2, ExportEnds
    <2>2. Resolved(db') /\ UNCHANGED job
      BY <2>1, ShapeParts DEF ListRules, SoundTargets
    <2>3. \A i \in Imports : job[i] \in {NewJob, Ended("none")}
      BY <2>1 DEF Shape, Gate, ListRules
    <2>4. \A i \in Imports : Points(job'[i], db')
      BY <2>2, <2>3, NewPoints
    <2> QED
      BY <2>2, <2>4 DEF RefsInv, PointsInv, RefsResolve, Resolved
  <1> QED
    BY <1>1, <1>2

LEMMA OthersRefs ==
  ASSUME Shape, RefsInv, Others
  PROVE  RefsInv'
  <1> SUFFICES ASSUME exp'.pc = "done", "drop" \notin edited'
               PROVE  Resolved(db') /\ \A i \in Imports : Points(job'[i], db')
    BY DEF RefsInv, PointsInv, RefsResolve, Resolved
  <1>1. /\ UNCHANGED <<context, job>> /\ exp.pc = "done" /\ "drop" \notin edited /\ Grows
    BY OthersFields DEF context
  <1>2. Resolved(db) /\ \A i \in Imports : Points(job[i], db)
    BY <1>1 DEF RefsInv, PointsInv, RefsResolve, Resolved
  <1>3. Resolved(db')
    BY <1>1, <1>2 DEF Grows
  <1>4. \A i \in Imports : Points(job'[i], db')
    BY <1>1, <1>2, PointsGrow
  <1> QED
    BY <1>3, <1>4

LEMMA PointsAdd ==
  ASSUME NEW j, Points(j, db), Adds
  PROVE  Points(j, db')
  BY DEF Points, Adds

\* Every id an import puts into its maps is the one of a row it has just listed
\* or written.
LEMMA ImportPoints ==
  ASSUME Shape, NEW i \in Imports, Import(i), Points(job[i], db)
  PROVE  Points(job'[i], db')
  <1>0. db \in Instances /\ job[i] \in Jobs /\ file \in Files
    BY ShapeParts
  <1>j. /\ job[i].keyId \in [Names -> Nat] /\ job[i].printId \in [Materials -> Nat]
        /\ job[i].machineId \in [Names -> Nat] /\ job[i].proxyId \in [Names -> Nat]
    BY <1>0, JobParts
  <1>d. /\ \A k \in db.keys : k.id \in Ids
        /\ \A m \in db.machines : m.id \in Ids
        /\ \A p \in db.proxies : p.id \in Ids
    BY <1>0, InstanceParts DEF Keys, Machines, Proxies
  <1>g. Points(job[i], db')
    BY ImportAdds, PointsAdd
  <1>1. CASE Refuse(i) \/ WriteRules(i) \/ ImportFails(i)
    <2>1. \E p \in JobStates : job'[i] = Ended(p)
      BY <1>1, RefuseFields, WriteRulesMoves, ImportFailsMoves DEF JobStates
    <2> QED
      BY <2>1, NewPoints
  <1>2. CASE ReadKeys(i)
    <2>1. /\ UNCHANGED db
          /\ job'[i].keyId = IdByName(db.keys) /\ job'[i].printId = IdByMaterial(db.keys)
          /\ job'[i].machineId = Nowhere /\ job'[i].proxyId = Nowhere
      BY <1>2, ReadKeysMoves
    <2>2. \A n \in Names : IdByName(db.keys)[n] # 0 => \E k \in db.keys : k.id = IdByName(db.keys)[n]
      BY <1>d, IdByNameFacts
    <2>3. \A x \in Materials :
            IdByMaterial(db.keys)[x] # 0 => \E k \in db.keys : k.id = IdByMaterial(db.keys)[x]
      BY <1>d, IdByMaterialFacts
    <2> QED
      BY <2>1, <2>2, <2>3 DEF Points, Nowhere
  <1>3. CASE ImportKey(i)
    <2> DEFINE item == file.keys[job[i].pos]
               name == Trim[item.name]
    <2>1. Moves(i) /\ job[i].pos \in DOMAIN file.keys
      BY <1>3, ImportKeyMoves, Zenon
    <2>2. item.mat \in Materials /\ name \in Names
      BY <1>0, <2>1, KeyItem DEF Moves
    <2>3. /\ job'[i].machineId = job[i].machineId /\ job'[i].proxyId = job[i].proxyId
          /\ \/ KeepsMaps(i)
             \/ /\ job'[i].keyId = [job[i].keyId EXCEPT ![name] = job[i].printId[item.mat]]
                /\ job'[i].printId = job[i].printId
             \/ /\ db'.keys = db.keys \cup {[id |-> nextId, name |-> name, mat |-> item.mat]}
                /\ job'[i].keyId = [job[i].keyId EXCEPT ![name] = nextId]
                /\ job'[i].printId = [job[i].printId EXCEPT ![item.mat] = nextId]
      BY <1>3, ImportKeyMoves, Zenon
    <2> HIDE DEF item, name
    <2>4. CASE KeepsMaps(i)
      BY <1>g, <2>4 DEF Points, KeepsMaps
    <2>5. CASE /\ job'[i].keyId = [job[i].keyId EXCEPT ![name] = job[i].printId[item.mat]]
               /\ job'[i].printId = job[i].printId
      BY <1>g, <1>j, <2>2, <2>3, <2>5 DEF Points
    <2>6. CASE /\ db'.keys = db.keys \cup {[id |-> nextId, name |-> name, mat |-> item.mat]}
               /\ job'[i].keyId = [job[i].keyId EXCEPT ![name] = nextId]
               /\ job'[i].printId = [job[i].printId EXCEPT ![item.mat] = nextId]
      <3> DEFINE new == [id |-> nextId, name |-> name, mat |-> item.mat]
      <3>0. new \in db'.keys /\ new.id = nextId
        BY <2>6
      <3> HIDE DEF new
      <3>1. \E k \in db'.keys : k.id = nextId
        BY <3>0
      <3> QED
        BY <1>g, <1>j, <2>2, <2>3, <2>6, <3>1 DEF Points
    <2> QED
      BY <2>3, <2>4, <2>5, <2>6
  <1>4. CASE ReadMachines(i)
    <2>1. /\ UNCHANGED db
          /\ job'[i].keyId = job[i].keyId /\ job'[i].printId = job[i].printId
          /\ job'[i].machineId = IdByName(db.machines) /\ job'[i].proxyId = job[i].proxyId
      BY <1>4, ReadMachinesMoves
    <2>2. \A n \in Names : IdByName(db.machines)[n] # 0 =>
            \E m \in db.machines : m.id = IdByName(db.machines)[n] /\ m.name = n
      BY <1>d, IdByNameFacts
    <2> QED
      BY <1>g, <2>1, <2>2 DEF Points
  <1>5. CASE ImportMachine(i)
    <2> DEFINE item == file.machines[job[i].pos]
               key == job[i].keyId[Trim[item.key]]
    <2>1. /\ job'[i].keyId = job[i].keyId /\ job'[i].printId = job[i].printId
          /\ job'[i].proxyId = job[i].proxyId
          /\ \/ job'[i].machineId = job[i].machineId
             \/ /\ db'.machines = db.machines \cup {[id |-> nextId, name |-> item.name, key |-> key]}
                /\ job'[i].machineId = [job[i].machineId EXCEPT ![item.name] = nextId]
      BY <1>5, ImportMachineMoves, Zenon
    <2> HIDE DEF item, key
    <2>2. CASE job'[i].machineId = job[i].machineId
      BY <1>g, <2>1, <2>2 DEF Points
    <2>3. CASE /\ db'.machines = db.machines \cup {[id |-> nextId, name |-> item.name, key |-> key]}
               /\ job'[i].machineId = [job[i].machineId EXCEPT ![item.name] = nextId]
      <3> DEFINE new == [id |-> nextId, name |-> item.name, key |-> key]
      <3>0. new \in db'.machines /\ new.id = nextId /\ new.name = item.name
        BY <2>3
      <3> HIDE DEF new
      <3>1. \E m \in db'.machines : m.id = nextId /\ m.name = item.name
        BY <3>0
      <3> QED
        BY <1>g, <1>j, <2>1, <2>3, <3>1 DEF Points
    <2> QED
      BY <2>1, <2>2, <2>3
  <1>6. CASE ReadProxies(i)
    <2>1. /\ UNCHANGED db
          /\ job'[i].keyId = job[i].keyId /\ job'[i].printId = job[i].printId
          /\ job'[i].machineId = job[i].machineId /\ job'[i].proxyId = IdByName(db.proxies)
      BY <1>6, ReadProxiesMoves
    <2>2. \A n \in Names : IdByName(db.proxies)[n] # 0 =>
            \E p \in db.proxies : p.id = IdByName(db.proxies)[n]
      BY <1>d, IdByNameFacts
    <2> QED
      BY <1>g, <2>1, <2>2 DEF Points
  <1>7. CASE ImportProxy(i)
    <2> DEFINE item == file.proxies[job[i].pos]
    <2>1. /\ job'[i].keyId = job[i].keyId /\ job'[i].printId = job[i].printId
          /\ job'[i].machineId = job[i].machineId
          /\ \/ job'[i].proxyId = job[i].proxyId
             \/ /\ db'.proxies = db.proxies \cup {[id |-> nextId, name |-> item.name, url |-> item.url]}
                /\ job'[i].proxyId = [job[i].proxyId EXCEPT ![item.name] = IF @ = 0 THEN nextId ELSE @]
      BY <1>7, ImportProxyMoves, Zenon
    <2> HIDE DEF item
    <2>2. CASE job'[i].proxyId = job[i].proxyId
      BY <1>g, <2>1, <2>2 DEF Points
    <2>3. CASE /\ db'.proxies = db.proxies \cup {[id |-> nextId, name |-> item.name, url |-> item.url]}
               /\ job'[i].proxyId = [job[i].proxyId EXCEPT ![item.name] = IF @ = 0 THEN nextId ELSE @]
      <3> DEFINE new == [id |-> nextId, name |-> item.name, url |-> item.url]
      <3>0. new \in db'.proxies /\ new.id = nextId
        BY <2>3
      <3> HIDE DEF new
      <3>1. \E p \in db'.proxies : p.id = nextId
        BY <3>0
      <3>2. \A n \in Names : job'[i].proxyId[n] \in {nextId, job[i].proxyId[n]}
        BY <1>j, <2>3
      <3> QED
        BY <1>g, <2>1, <3>1, <3>2 DEF Points
    <2> QED
      BY <2>1, <2>2, <2>3
  <1>8. CASE ReadChannels(i) \/ ImportChannel(i) \/ ReadGlobals(i) \/ WriteGlobals(i) \/ ReadRules(i)
    <2>1. KeepsMaps(i)
      BY <1>8, ReadChannelsMoves, ImportChannelMoves, ReadGlobalsMoves, WriteGlobalsMoves, ReadRulesMoves
    <2> QED
      BY <1>g, <2>1 DEF Points, KeepsMaps
  <1> QED
    BY <1>1, <1>2, <1>3, <1>4, <1>5, <1>6, <1>7, <1>8 DEF Import

\* What an import writes refers to rows by the ids in its maps.
LEMMA ImportResolved ==
  ASSUME Shape, NEW i \in Imports, Import(i), Points(job[i], db), Resolved(db)
  PROVE  Resolved(db')
  <1>0. db \in Instances /\ job[i] \in Jobs /\ file \in Files /\ FileClosed /\ db.channels \in Channels
    BY ShapeParts, InstanceParts
  <1>a. Adds
    BY ImportAdds
  <1>1. CASE \/ Refuse(i) \/ ReadKeys(i) \/ ReadMachines(i) \/ ReadProxies(i) \/ ReadChannels(i)
             \/ ReadGlobals(i) \/ ReadRules(i) \/ ImportFails(i)
    BY <1>1, RefuseFields, ReadKeysMoves, ReadMachinesMoves, ReadProxiesMoves, ReadChannelsMoves,
       ReadGlobalsMoves, ReadRulesMoves, ImportFailsMoves
  <1>2. CASE ImportKey(i) \/ ImportProxy(i) \/ WriteGlobals(i)
    <2>1. db'.machines = db.machines /\ db'.channels = db.channels /\ db'.rules = db.rules
      BY <1>2, ImportKeyMoves, ImportProxyMoves, WriteGlobalsMoves, Zenon
    <2> QED
      BY <1>a, <2>1 DEF Adds, Resolved
  <1>3. CASE ImportMachine(i)
    <2> DEFINE item == file.machines[job[i].pos]
               id == job[i].keyId[Trim[item.key]]
               new == [id |-> nextId, name |-> item.name, key |-> id]
    <2>1. /\ Moves(i) /\ job[i].pos \in DOMAIN file.machines
          /\ db'.keys = db.keys /\ db'.proxies = db.proxies /\ db'.channels = db.channels
          /\ db'.rules = db.rules
          /\ db'.machines = db.machines \/ (id # 0 /\ db'.machines = db.machines \cup {new})
      BY <1>3, ImportMachineMoves, Zenon
    <2>2. Trim[item.key] \in Names
      BY <1>0, <2>1, MachineItem, Zenon DEF Moves
    <2>3. id # 0 => \E k \in db.keys : k.id = id
      BY <2>2, Zenon DEF Points
    <2>4. new.key = id
      OBVIOUS
    <2> HIDE DEF item, id, new
    <2>5. \A m \in db'.machines : \E k \in db'.keys : k.id = m.key
      BY <2>1, <2>3, <2>4 DEF Resolved
    <2> QED
      BY <1>a, <2>1, <2>5 DEF Adds, Resolved
  <1>4. CASE ImportChannel(i)
    <2> DEFINE item == file.channels[job[i].pos]
    <2>1. /\ db'.keys = db.keys /\ db'.machines = db.machines /\ db'.proxies = db.proxies
          /\ db'.rules = db.rules
          /\ \/ db'.channels = db.channels
             \/ \E c \in [on : BOOLEAN, proxy : Nat] :
                  /\ c.proxy = 0 \/ \E x \in Names : c.proxy = job[i].proxyId[x]
                  /\ db'.channels = [db.channels EXCEPT ![item.type] = IF @ = None THEN c ELSE @]
      BY <1>4, ImportChannelMoves
    <2> HIDE DEF item
    <2>2. CASE db'.channels = db.channels
      BY <2>1, <2>2 DEF Resolved
    <2>3. ASSUME NEW c, c.proxy = 0 \/ \E x \in Names : c.proxy = job[i].proxyId[x],
                 db'.channels = [db.channels EXCEPT ![item.type] = IF @ = None THEN c ELSE @]
          PROVE  Resolved(db')
      <3>1. c.proxy = 0 \/ \E p \in db.proxies : p.id = c.proxy
        BY <2>3 DEF Points
      <3>2. \A t \in Types : db'.channels[t] \in {db.channels[t], c}
        BY <1>0, <2>3 DEF Channels
      <3> QED
        BY <2>1, <3>1, <3>2 DEF Resolved
    <2> QED
      BY <2>1, <2>2, <2>3
  <1>5. CASE WriteRules(i)
    <2>1. /\ db'.keys = db.keys /\ db'.machines = db.machines /\ db'.proxies = db.proxies
          /\ db'.channels = db.channels /\ db'.rules = db.rules \cup Inserted(i)
      BY <1>5, WriteRulesMoves
    <2>2. ASSUME NEW n \in Firsts(i) PROVE \E m \in db.machines : m.id = IdOfRule(i, n)
      <3>1. n \in DOMAIN file.rules /\ IdOfRule(i, n) # 0
        BY DEF Firsts
      <3>2. file.rules[n].name \in Names
        BY <1>0, <3>1, RuleItem
      <3> QED
        BY <3>1, <3>2 DEF IdOfRule, Points
    <2>3. ASSUME NEW r \in Inserted(i) PROVE \E m \in db.machines : m.id = r.machine
      <3>1. PICK n \in Firsts(i) :
              r = [machine |-> IdOfRule(i, n), dim |-> file.rules[n].dim, value |-> file.rules[n].value]
        BY DEF Inserted, NewRules
      <3>2. r.machine = IdOfRule(i, n)
        BY <3>1
      <3> QED
        BY <2>2, <3>2
    <2> QED
      BY <2>1, <2>3 DEF Resolved
  <1> QED
    BY <1>1, <1>2, <1>3, <1>4, <1>5 DEF Import

\* Only the tables, the job of the import and the failures left change.
LEMMA ImportFrame ==
  ASSUME Shape, NEW i \in Imports, Import(i)
  PROVE  /\ UNCHANGED <<context, edits, edited>> /\ \A k \in Imports : k # i => job'[k] = job[k]
  <1>1. Refuse(i) \/ Moves(i)
    BY ReadKeysMoves, ImportKeyMoves, ReadMachinesMoves, ImportMachineMoves,
       ReadProxiesMoves, ImportProxyMoves, ReadChannelsMoves, ImportChannelMoves, ReadGlobalsMoves,
       WriteGlobalsMoves, ReadRulesMoves, WriteRulesMoves, ImportFailsMoves, Zenon
       DEF Import
  <1>2. CASE Refuse(i)
    BY <1>2, RefuseFields
  <1>3. CASE Moves(i)
    BY <1>3 DEF Moves
  <1> QED
    BY <1>1, <1>2, <1>3

LEMMA ImportRefs ==
  ASSUME Shape, RefsInv, NEW i \in Imports, Import(i)
  PROVE  RefsInv'
  <1> SUFFICES ASSUME exp'.pc = "done", "drop" \notin edited'
               PROVE  Resolved(db') /\ \A k \in Imports : Points(job'[k], db')
    BY DEF RefsInv, PointsInv, RefsResolve, Resolved
  <1>1. UNCHANGED <<context, edited>> /\ \A k \in Imports : k # i => job'[k] = job[k]
    BY ImportFrame
  <1>2. Resolved(db) /\ \A k \in Imports : Points(job[k], db)
    BY <1>1 DEF RefsInv, PointsInv, RefsResolve, Resolved, context
  <1>3. \A k \in Imports : Points(job'[k], db')
    BY <1>1, <1>2, ImportPoints, ImportAdds, PointsAdd
  <1> QED
    BY <1>2, <1>3, ImportResolved

LEMMA RefsStep ==
  ASSUME SoundTargets, Shape, RefsInv, [BackupNext]_backupVars
  PROVE  RefsInv'
  <1>1. CASE UNCHANGED backupVars
    BY <1>1 DEF backupVars, RefsInv, PointsInv, Points, RefsResolve
  <1> QED
    BY <1>1, ExportRefs, ImportRefs, OthersRefs DEF BackupNext

\* What an import writes refers to rows of the instance it is imported into, never
\* to ids of the source, however many imports run at once and however often they
\* fail, as long as others delete nothing and the target had no dangling reference.
THEOREM BackupRefsResolve == ASSUME SoundTargets PROVE BackupSpec => []RefsResolve
  <1>1. BackupInit => Shape /\ RefsInv
    BY ShapeInit, RefsInit
  <1>2. Shape /\ RefsInv /\ [BackupNext]_backupVars => (Shape /\ RefsInv)'
    BY SoundTargets, ShapeStep, RefsStep
  <1>3. RefsInv => RefsResolve
    BY DEF RefsInv
  <1> QED
    BY <1>1, <1>2, <1>3, PTL DEF BackupSpec

-----------------------------------------------------------------------------
(* Nothing is missing *)

LEMMA PointsInit == ASSUME BackupInit PROVE PointsInv
  <1>1. exp.pc # "done"
    BY NewExportType DEF BackupInit
  <1> QED
    BY <1>1 DEF PointsInv

\* That the ids of an import point to rows needs nothing of the references
\* among the rows.
LEMMA PointsStep ==
  ASSUME Shape, PointsInv, [BackupNext]_backupVars
  PROVE  PointsInv'
  <1> SUFFICES ASSUME exp'.pc = "done", "drop" \notin edited'
               PROVE  \A i \in Imports : Points(job'[i], db')
    BY DEF PointsInv
  <1>1. CASE UNCHANGED backupVars
    BY <1>1 DEF backupVars, PointsInv, Points
  <1>2. CASE Export
    <2>1. ListRules
      BY <1>2, ExportEnds
    <2>2. \A i \in Imports : job'[i] \in {NewJob, Ended("none")}
      BY <2>1 DEF Shape, Gate, ListRules
    <2> QED
      BY <2>2, NewPoints
  <1>3. ASSUME NEW i \in Imports, Import(i) PROVE \A k \in Imports : Points(job'[k], db')
    <2>1. UNCHANGED <<context, edited>> /\ \A k \in Imports : k # i => job'[k] = job[k]
      BY <1>3, ImportFrame
    <2>2. \A k \in Imports : Points(job[k], db)
      BY <2>1 DEF PointsInv, context
    <2> QED
      BY <1>3, <2>1, <2>2, ImportPoints, ImportAdds, PointsAdd
  <1>4. CASE Others
    <2>1. UNCHANGED <<context, job>> /\ exp.pc = "done" /\ "drop" \notin edited /\ Grows
      BY <1>4, OthersFields DEF context
    <2>2. \A i \in Imports : Points(job[i], db)
      BY <2>1 DEF PointsInv
    <2> QED
      BY <2>1, <2>2, PointsGrow
  <1> QED
    BY <1>1, <1>2, <1>3, <1>4 DEF BackupNext

\* Import i is through with section s.
Whole(i, s) ==
  job[i].pc \in Later[s] \/ (job[i].pc = s /\ \A n \in DOMAIN file[s] : n < job[i].pos)

LEMMA WholeIsPast ==
  ASSUME NEW i, NEW s, Whole(i, s)
  PROVE  Past(i, s) = DOMAIN file[s]
  BY DEF Whole, Past

LEMMA HasKeyStays ==
  ASSUME NEW n, HasKey(n), file' = file, db.keys \subseteq db'.keys
  PROVE  HasKey(n)'
  BY DEF HasKey

\* A section that is done stays done.
LEMMA KeysStay ==
  ASSUME NEW i, KeysSoFar(i), Whole(i, "keys"), file' = file, db.keys \subseteq db'.keys,
         job'[i].keyId = job[i].keyId, job'[i].pc # "keys"
  PROVE  KeysSoFar(i)'
  <1>1. \A n \in Names : job'[i].keyId[n] # 0 => HasKey(n)'
    BY HasKeyStays DEF KeysSoFar
  <1>2. \A n \in DOMAIN file.keys : job[i].keyId[Trim[file.keys[n].name]] # 0
    BY WholeIsPast DEF KeysSoFar
  <1> QED
    BY <1>1, <1>2 DEF KeysSoFar, Past

LEMMA MachinesStay ==
  ASSUME NEW i, MachinesSoFar(i), Whole(i, "machines"), file' = file,
         job'[i].machineId = job[i].machineId
  PROVE  MachinesSoFar(i)'
  <1>1. \A n \in DOMAIN file.machines : job[i].machineId[file.machines[n].name] # 0
    BY WholeIsPast DEF MachinesSoFar
  <1> QED
    BY <1>1 DEF MachinesSoFar, Past

LEMMA ProxiesStay ==
  ASSUME NEW i, ProxiesSoFar(i), Whole(i, "proxies"), file' = file, db.proxies \subseteq db'.proxies,
         job'[i].pc # "proxies"
  PROVE  ProxiesSoFar(i)'
  <1>1. \A n \in DOMAIN file.proxies : \E p \in db.proxies : p.name = file.proxies[n].name
    BY WholeIsPast DEF ProxiesSoFar
  <1> QED
    BY <1>1 DEF ProxiesSoFar, Past

LEMMA ChannelsStay ==
  ASSUME NEW i, ChannelsSoFar(i), Whole(i, "channels"), file' = file,
         db'.channels = db.channels, job'[i].pc # "channels"
  PROVE  ChannelsSoFar(i)'
  <1>1. \A n \in DOMAIN file.channels : db.channels[file.channels[n].type] # None
    BY WholeIsPast DEF ChannelsSoFar
  <1> QED
    BY <1>1 DEF ChannelsSoFar, Past

\* Nothing is said of a section the import has not come to.
LEMMA NotYet ==
  ASSUME NEW i, file \in Files, file' = file
  PROVE  /\ job'[i].pc = "keys" \/ (job'[i].pc = "machines" /\ job'[i].pos = 1) => MachinesSoFar(i)'
         /\ job'[i].pc \in {"keys", "machines"} => ProxiesSoFar(i)'
         /\ job'[i].pc \in {"keys", "machines", "proxies"} => ChannelsSoFar(i)'
         /\ job'[i].pc \in {"keys", "machines", "proxies", "channels"} => RulesSoFar(i)'
  <1>1. \A n \in DOMAIN file.machines : ~(n < 1)
    BY SectionTypes
  <1>2. job'[i].pc = "keys" \/ (job'[i].pc = "machines" /\ job'[i].pos = 1) => MachinesSoFar(i)'
    BY <1>1 DEF MachinesSoFar, Past, Later
  <1>3. job'[i].pc \in {"keys", "machines"} => ProxiesSoFar(i)'
    BY DEF ProxiesSoFar, Past, Later
  <1>4. job'[i].pc \in {"keys", "machines", "proxies"} => ChannelsSoFar(i)'
    BY DEF ChannelsSoFar, Past, Later
  <1>5. job'[i].pc \in {"keys", "machines", "proxies", "channels"} => RulesSoFar(i)'
    BY DEF RulesSoFar
  <1> QED
    BY <1>2, <1>3, <1>4, <1>5

LEMMA ReadKeysProgress ==
  ASSUME Shape, NEW i \in Imports, ReadKeys(i)
  PROVE  Progress(i)'
  <1>0. db \in Instances /\ file \in Files
    BY ShapeParts
  <1>1. /\ UNCHANGED <<db, file>> /\ job'[i].pc = "keys" /\ job'[i].pos = 1
        /\ job'[i].keyId = IdByName(db.keys) /\ job'[i].printId = IdByMaterial(db.keys)
    BY ReadKeysMoves DEF Moves, context
  <1>2. /\ \A n \in Names : IdByName(db.keys)[n] # 0 => \E k \in db.keys : k.name = n
        /\ \A x \in Materials : (\E k \in db.keys : k.mat = x) => IdByMaterial(db.keys)[x] # 0
        /\ \A k \in db.keys : k.mat \in Materials
    <2>1. \A k \in db.keys : k.id \in Ids /\ k.mat \in Materials
      BY <1>0, InstanceParts DEF Keys
    <2> QED
      BY <2>1, IdByNameFacts, IdByMaterialFacts
  <1>3. \A n \in DOMAIN file.keys : ~(n < 1)
    BY <1>0, SectionTypes
  <1>4. \A n \in Names : IdByName(db.keys)[n] # 0 => HasKey(n)'
    BY <1>1, <1>2 DEF HasKey
  <1>5. KeysSoFar(i)'
    BY <1>1, <1>2, <1>3, <1>4 DEF KeysSoFar, Past, Later
  <1> QED
    BY <1>0, <1>1, <1>5, NotYet DEF Progress

\* A key that is skipped has an id already, or gets the one its fingerprint had
\* when the keys were listed.
LEMMA ImportKeyProgress ==
  ASSUME Shape, NEW i \in Imports, ImportKey(i), Progress(i)
  PROVE  Progress(i)'
  <1> DEFINE item == file.keys[job[i].pos]
             name == Trim[item.name]
             new == [id |-> nextId, name |-> name, mat |-> item.mat]
  <1>0. db \in Instances /\ file \in Files /\ job[i] \in Jobs /\ nextId # 0
    BY ShapeParts DEF Ids
  <1>1. /\ Moves(i) /\ job[i].pc = "keys" /\ job'[i].pc = "keys" /\ job'[i].pos = job[i].pos + 1
        /\ job[i].pos \in DOMAIN file.keys /\ file' = file
    BY ImportKeyMoves, Zenon DEF Moves, context
  <1>2. item.mat \in Materials /\ name \in Names
    BY <1>0, <1>1, KeyItem DEF Moves
  <1>3. job[i].keyId \in [Names -> Nat] /\ job[i].printId \in [Materials -> Nat] /\ job[i].pos \in Nat
    BY <1>0, JobParts DEF Ids
  <1>4. /\ \A k \in db.keys : job[i].printId[k.mat] # 0
        /\ \A n \in Names : job[i].keyId[n] # 0 => HasKey(n)
        /\ \A n \in Past(i, "keys") : job[i].keyId[Trim[file.keys[n].name]] # 0
    BY <1>1 DEF Progress, KeysSoFar
  <1>5. \/ job[i].keyId[name] # 0 /\ db'.keys = db.keys /\ KeepsMaps(i)
        \/ /\ job[i].keyId[name] = 0 /\ \E k \in db.keys : k.mat = item.mat
           /\ db'.keys = db.keys
           /\ job'[i].keyId = [job[i].keyId EXCEPT ![name] = job[i].printId[item.mat]]
           /\ job'[i].printId = job[i].printId
        \/ /\ db'.keys = db.keys \cup {new}
           /\ job'[i].keyId = [job[i].keyId EXCEPT ![name] = nextId]
           /\ job'[i].printId = [job[i].printId EXCEPT ![item.mat] = nextId]
    BY ImportKeyMoves, Zenon
  <1>6. new.name = name /\ new.mat = item.mat
    OBVIOUS
  <1>7. \A n \in Past(i, "keys")' : n \in Past(i, "keys") \/ n = job[i].pos
    BY <1>0, <1>1, <1>3, SectionTypes DEF Past, Later
  <1>8. \A n \in DOMAIN file.keys : Trim[file.keys[n].name] \in Names
    BY <1>0, <1>1, KeyItem DEF Moves
  <1> HIDE DEF new
  <1>9. /\ db.keys \subseteq db'.keys
        /\ \A k \in db'.keys : job'[i].printId[k.mat] # 0
        /\ \A n \in Names : job[i].keyId[n] # 0 => job'[i].keyId[n] # 0
        /\ job'[i].keyId[name] # 0
        /\ \A n \in Names : job'[i].keyId[n] # 0 => job[i].keyId[n] # 0 \/ n = name
        /\ job[i].keyId[name] # 0 \/ \E k \in db'.keys : k.name = name \/ k.mat = item.mat
    <2> HIDE DEF item, name
    <2>1. CASE job[i].keyId[name] # 0 /\ db'.keys = db.keys /\ KeepsMaps(i)
      BY <1>4, <2>1 DEF KeepsMaps
    <2>2. CASE /\ \E k \in db.keys : k.mat = item.mat
               /\ db'.keys = db.keys
               /\ job'[i].keyId = [job[i].keyId EXCEPT ![name] = job[i].printId[item.mat]]
               /\ job'[i].printId = job[i].printId
      <3>1. job[i].printId[item.mat] # 0
        BY <1>4, <2>2
      <3> QED
        BY <1>2, <1>3, <1>4, <2>2, <3>1
    <2>3. CASE /\ db'.keys = db.keys \cup {new}
               /\ job'[i].keyId = [job[i].keyId EXCEPT ![name] = nextId]
               /\ job'[i].printId = [job[i].printId EXCEPT ![item.mat] = nextId]
      <3>1. \A k \in db.keys : k.mat \in Materials
        BY <1>0, InstanceParts DEF Keys
      <3>2. \A k \in db'.keys : job'[i].printId[k.mat] # 0
        BY <1>0, <1>2, <1>3, <1>4, <1>6, <2>3, <3>1
      <3> QED
        BY <1>0, <1>2, <1>3, <1>6, <2>3, <3>2
    <2> QED
      BY <1>5, <2>1, <2>2, <2>3
  <1>10. \A n \in Names : job'[i].keyId[n] # 0 => HasKey(n)'
    <2>1. ASSUME NEW n \in Names, job[i].keyId[n] # 0 PROVE HasKey(n)'
      BY <1>1, <1>4, <1>9, <2>1, HasKeyStays, Zenon
    <2>2. ASSUME NEW n \in Names, n = name PROVE HasKey(n)'
      <3>1. CASE job[i].keyId[name] # 0
        BY <2>1, <2>2, <3>1
      <3>2. CASE \E k \in db'.keys : k.name = name \/ k.mat = item.mat
        BY <1>1, <2>2, <3>2 DEF HasKey
      <3> QED
        BY <1>9, <3>1, <3>2, Zenon
    <2> QED
      BY <1>9, <2>1, <2>2, Zenon
  <1>11. \A n \in Past(i, "keys")' : job'[i].keyId[Trim[file.keys[n].name]] # 0
    BY <1>4, <1>7, <1>8, <1>9, Zenon DEF Past
  <1>12. KeysSoFar(i)'
    BY <1>1, <1>9, <1>10, <1>11, Zenon DEF KeysSoFar
  <1> QED
    BY <1>0, <1>1, <1>12, NotYet DEF Progress

LEMMA ReadMachinesProgress ==
  ASSUME Shape, NEW i \in Imports, ReadMachines(i), Progress(i)
  PROVE  Progress(i)'
  <1>1. /\ file \in Files /\ UNCHANGED <<db, file>>
        /\ job[i].pc = "keys" /\ \A n \in DOMAIN file.keys : n < job[i].pos
        /\ job'[i].pc = "machines" /\ job'[i].pos = 1 /\ job'[i].keyId = job[i].keyId
    BY ShapeParts, ReadMachinesMoves DEF Moves, context
  <1>2. KeysSoFar(i)'
    BY <1>1, KeysStay DEF Progress, Whole
  <1> QED
    BY <1>1, <1>2, NotYet DEF Progress

\* A machine is not skipped for want of its key: the file has the key, and all
\* keys of the file have been dealt with.
LEMMA ImportMachineProgress ==
  ASSUME Shape, NEW i \in Imports, ImportMachine(i), Progress(i)
  PROVE  Progress(i)'
  <1> DEFINE item == file.machines[job[i].pos]
             id == job[i].keyId[Trim[item.key]]
  <1>0. file \in Files /\ FileClosed /\ job[i] \in Jobs /\ nextId # 0
    BY ShapeParts DEF Ids
  <1>1. /\ Moves(i) /\ job[i].pc = "machines" /\ job'[i].pc = "machines"
        /\ job'[i].pos = job[i].pos + 1 /\ job[i].pos \in DOMAIN file.machines /\ file' = file
        /\ job'[i].keyId = job[i].keyId /\ db'.keys = db.keys
    BY ImportMachineMoves, Zenon DEF Moves, context
  <1>2. /\ \/ job[i].machineId[item.name] # 0 /\ job'[i].machineId = job[i].machineId
           \/ id = 0
           \/ job'[i].machineId = [job[i].machineId EXCEPT ![item.name] = nextId]
    BY ImportMachineMoves, Zenon
  <1>3. KeysSoFar(i)'
    BY <1>1, KeysStay DEF Progress, Whole, Later
  <1>4. id # 0
    <2>1. PICK x \in DOMAIN file.keys : Trim[file.keys[x].name] = Trim[item.key]
      BY <1>0, <1>1, MachineItem DEF Moves
    <2>2. x \in Past(i, "keys")
      BY <1>1 DEF Past, Later
    <2> QED
      BY <2>1, <2>2 DEF Progress, KeysSoFar
  <1>5. item.name \in Names /\ \A n \in DOMAIN file.machines : file.machines[n].name \in Names
    BY <1>0, <1>1, MachineItem DEF Moves
  <1>6. job[i].machineId \in [Names -> Nat] /\ job[i].pos \in Nat
    BY <1>0, JobParts DEF Ids
  <1>7. \A n \in Past(i, "machines")' : n \in Past(i, "machines") \/ n = job[i].pos
    BY <1>0, <1>1, <1>6, SectionTypes DEF Past, Later
  <1>8. \A n \in Past(i, "machines") : job[i].machineId[file.machines[n].name] # 0
    BY DEF Progress, MachinesSoFar
  <1> HIDE DEF id
  <1>9. /\ job'[i].machineId[item.name] # 0
        /\ \A n \in Names : job[i].machineId[n] # 0 => job'[i].machineId[n] # 0
    BY <1>0, <1>2, <1>4, <1>5, <1>6
  <1>10. MachinesSoFar(i)'
    <2>1. \A n \in Past(i, "machines")' : job'[i].machineId[file.machines[n].name] # 0
      BY <1>5, <1>7, <1>8, <1>9 DEF Past
    <2> QED
      BY <1>1, <2>1 DEF MachinesSoFar
  <1> QED
    BY <1>0, <1>1, <1>3, <1>10, NotYet DEF Progress

LEMMA ReadProxiesProgress ==
  ASSUME Shape, NEW i \in Imports, ReadProxies(i), Progress(i)
  PROVE  Progress(i)'
  <1>1. /\ file \in Files /\ UNCHANGED <<db, file>>
        /\ job[i].pc = "machines" /\ \A n \in DOMAIN file.machines : n < job[i].pos
        /\ job'[i].pc = "proxies" /\ job'[i].pos = 1 /\ job'[i].keyId = job[i].keyId
        /\ job'[i].machineId = job[i].machineId
        /\ job'[i].existing = { p.name : p \in db.proxies }
    BY ShapeParts, ReadProxiesMoves DEF Moves, context
  <1>2. KeysSoFar(i)' /\ MachinesSoFar(i)'
    BY <1>1, KeysStay, MachinesStay DEF Progress, Whole, Later
  <1>3. ProxiesSoFar(i)'
    <2>1. \A n \in DOMAIN file.proxies : ~(n < 1)
      BY <1>1, SectionTypes
    <2> QED
      BY <1>1, <2>1 DEF ProxiesSoFar, Past, Later
  <1> QED
    BY <1>1, <1>2, <1>3, NotYet DEF Progress

LEMMA ImportProxyProgress ==
  ASSUME Shape, NEW i \in Imports, ImportProxy(i), Progress(i)
  PROVE  Progress(i)'
  <1> DEFINE item == file.proxies[job[i].pos]
             new == [id |-> nextId, name |-> item.name, url |-> item.url]
  <1>0. file \in Files /\ job[i] \in Jobs /\ job[i].pos \in Nat
    BY ShapeParts, JobParts DEF Ids
  <1>1. /\ job[i].pc = "proxies" /\ job'[i].pc = "proxies"
        /\ job'[i].pos = job[i].pos + 1 /\ job[i].pos \in DOMAIN file.proxies /\ file' = file
        /\ job'[i].keyId = job[i].keyId /\ job'[i].machineId = job[i].machineId
        /\ job'[i].existing = job[i].existing /\ db'.keys = db.keys
    BY ImportProxyMoves DEF Moves, context
  <1>2. \/ item.name \in job[i].existing /\ db'.proxies = db.proxies
        \/ db'.proxies = db.proxies \cup {new}
    BY ImportProxyMoves
  <1>3. KeysSoFar(i)' /\ MachinesSoFar(i)'
    BY <1>1, KeysStay, MachinesStay DEF Progress, Whole, Later
  <1>4. new.name = item.name
    OBVIOUS
  <1>5. \A n \in Past(i, "proxies")' : n \in Past(i, "proxies") \/ n = job[i].pos
    BY <1>0, <1>1, SectionTypes DEF Past, Later
  <1>6. /\ job[i].existing \subseteq { p.name : p \in db.proxies }
        /\ \A n \in Past(i, "proxies") : \E p \in db.proxies : p.name = file.proxies[n].name
    BY <1>1 DEF Progress, ProxiesSoFar
  <1> HIDE DEF new
  <1>7. db.proxies \subseteq db'.proxies /\ \E p \in db'.proxies : p.name = item.name
    BY <1>2, <1>4, <1>6
  <1>8. \A n \in Past(i, "proxies")' : \E p \in db'.proxies : p.name = file.proxies[n].name
    BY <1>5, <1>6, <1>7
  <1>9. job'[i].existing \subseteq { p.name : p \in db'.proxies }
    BY <1>1, <1>6, <1>7
  <1>10. ProxiesSoFar(i)'
    BY <1>1, <1>8, <1>9 DEF ProxiesSoFar
  <1> QED
    BY <1>0, <1>1, <1>3, <1>10, NotYet DEF Progress

LEMMA ReadChannelsProgress ==
  ASSUME Shape, NEW i \in Imports, ReadChannels(i), Progress(i)
  PROVE  Progress(i)'
  <1>1. /\ file \in Files /\ UNCHANGED <<db, file>>
        /\ job[i].pc = "proxies" /\ \A n \in DOMAIN file.proxies : n < job[i].pos
        /\ job'[i].pc = "channels" /\ job'[i].pos = 1 /\ job'[i].keyId = job[i].keyId
        /\ job'[i].machineId = job[i].machineId
        /\ job'[i].existing = { t \in Types : db.channels[t] # None }
    BY ShapeParts, ReadChannelsMoves DEF Moves, context, KeepsMaps
  <1>2. KeysSoFar(i)' /\ MachinesSoFar(i)' /\ ProxiesSoFar(i)'
    BY <1>1, KeysStay, MachinesStay, ProxiesStay DEF Progress, Whole, Later
  <1>3. ChannelsSoFar(i)'
    <2>1. \A n \in DOMAIN file.channels : ~(n < 1)
      BY <1>1, SectionTypes
    <2> QED
      BY <1>1, <2>1 DEF ChannelsSoFar, Past, Later
  <1> QED
    BY <1>1, <1>2, <1>3, NotYet DEF Progress

LEMMA ImportChannelProgress ==
  ASSUME Shape, NEW i \in Imports, ImportChannel(i), Progress(i)
  PROVE  Progress(i)'
  <1> DEFINE item == file.channels[job[i].pos]
  <1>0. /\ file \in Files /\ job[i] \in Jobs /\ job[i].pos \in Nat /\ db.channels \in Channels
        /\ \A n \in DOMAIN file.channels : file.channels[n].type \in Types
    BY ShapeParts, JobParts, InstanceParts, ChannelItem DEF Ids
  <1>1. /\ job[i].pc = "channels" /\ job'[i].pc = "channels"
        /\ job'[i].pos = job[i].pos + 1 /\ job[i].pos \in DOMAIN file.channels /\ file' = file
        /\ job'[i].keyId = job[i].keyId /\ job'[i].machineId = job[i].machineId
        /\ job'[i].existing = job[i].existing
        /\ db'.keys = db.keys /\ db'.proxies = db.proxies
    BY ImportChannelMoves DEF Moves, context, KeepsMaps
  <1>2. \/ item.type \in job[i].existing /\ db'.channels = db.channels
        \/ \E c \in [on : BOOLEAN, proxy : Nat] :
             db'.channels = [db.channels EXCEPT ![item.type] = IF @ = None THEN c ELSE @]
    BY ImportChannelMoves
  <1>3. KeysSoFar(i)' /\ MachinesSoFar(i)' /\ ProxiesSoFar(i)'
    BY <1>1, KeysStay, MachinesStay, ProxiesStay DEF Progress, Whole, Later
  <1>4. \A n \in Past(i, "channels")' : n \in Past(i, "channels") \/ n = job[i].pos
    BY <1>0, <1>1, SectionTypes DEF Past, Later
  <1>5. /\ job[i].existing \subseteq { t \in Types : db.channels[t] # None }
        /\ \A n \in Past(i, "channels") : db.channels[file.channels[n].type] # None
    BY <1>1 DEF Progress, ChannelsSoFar
  <1>6. /\ item.type \in Types /\ db'.channels[item.type] # None
        /\ \A t \in Types : db.channels[t] # None => db'.channels[t] # None
    <2>0. item.type \in Types
      BY <1>0, <1>1
    <2> HIDE DEF item
    <2>1. CASE item.type \in job[i].existing /\ db'.channels = db.channels
      BY <1>5, <2>0, <2>1
    <2>2. ASSUME NEW c \in [on : BOOLEAN, proxy : Nat],
                 db'.channels = [db.channels EXCEPT ![item.type] = IF @ = None THEN c ELSE @]
          PROVE  /\ db'.channels[item.type] # None
                 /\ \A t \in Types : db.channels[t] # None => db'.channels[t] # None
      <3>1. c # None
        BY BackupAssumption DEF BackupAssumption
      <3>2. DOMAIN db.channels = Types
        BY <1>0 DEF Channels
      <3> QED
        BY <2>0, <2>2, <3>1, <3>2
    <2> QED
      BY <1>2, <2>0, <2>1, <2>2
  <1>7. \A n \in Past(i, "channels")' : db'.channels[file.channels[n].type] # None
    BY <1>0, <1>4, <1>5, <1>6 DEF Past
  <1>8. job'[i].existing \subseteq { t \in Types : db'.channels[t] # None }
    BY <1>1, <1>5, <1>6
  <1>9. ChannelsSoFar(i)'
    BY <1>1, <1>7, <1>8 DEF ChannelsSoFar
  <1> QED
    BY <1>0, <1>1, <1>3, <1>9, NotYet DEF Progress

LEMMA ReadGlobalsProgress ==
  ASSUME Shape, NEW i \in Imports, ReadGlobals(i), Progress(i)
  PROVE  Progress(i)'
  <1>1. /\ UNCHANGED <<db, file>>
        /\ job[i].pc = "channels" /\ \A n \in DOMAIN file.channels : n < job[i].pos
        /\ job'[i].pc = "globals" /\ job'[i].keyId = job[i].keyId
        /\ job'[i].machineId = job[i].machineId
        /\ job'[i].have = { d \in Dims : db.globals[d] # None }
    BY ReadGlobalsMoves DEF Moves, context, KeepsMaps
  <1>2. KeysSoFar(i)' /\ MachinesSoFar(i)' /\ ProxiesSoFar(i)' /\ ChannelsSoFar(i)'
    BY <1>1, KeysStay, MachinesStay, ProxiesStay, ChannelsStay DEF Progress, Whole, Later
  <1> QED
    BY <1>1, <1>2 DEF Progress, RulesSoFar

LEMMA WriteGlobalsProgress ==
  ASSUME Shape, NEW i \in Imports, WriteGlobals(i), Progress(i)
  PROVE  Progress(i)'
  <1>1. /\ file' = file /\ job[i].pc = "globals" /\ job'[i].pc = "listRules"
        /\ job'[i].keyId = job[i].keyId /\ job'[i].machineId = job[i].machineId
        /\ db'.keys = db.keys /\ db'.proxies = db.proxies /\ db'.channels = db.channels
        /\ db'.globals = [d \in Dims |-> IF d \in job[i].have \/ db.globals[d] # None
                                         THEN db.globals[d] ELSE file.globals[d]]
    BY WriteGlobalsMoves DEF Moves, context, KeepsMaps
  <1>2. KeysSoFar(i)' /\ MachinesSoFar(i)' /\ ProxiesSoFar(i)' /\ ChannelsSoFar(i)'
    BY <1>1, KeysStay, MachinesStay, ProxiesStay, ChannelsStay DEF Progress, Whole, Later
  <1>3. job[i].have \subseteq { d \in Dims : db.globals[d] # None }
    BY <1>1 DEF Progress, RulesSoFar
  <1>4. \A d \in Dims : file.globals[d] # None => db'.globals[d] # None
    BY <1>1, <1>3
  <1> QED
    BY <1>1, <1>2, <1>4 DEF Progress, RulesSoFar

LEMMA ReadRulesProgress ==
  ASSUME Shape, NEW i \in Imports, ReadRules(i), Progress(i)
  PROVE  Progress(i)'
  <1>1. /\ UNCHANGED <<db, file>> /\ job[i].pc = "listRules" /\ job'[i].pc = "rules"
        /\ job'[i].keyId = job[i].keyId /\ job'[i].machineId = job[i].machineId
        /\ job'[i].have = { <<r.machine, r.dim>> : r \in db.rules }
    BY ReadRulesMoves DEF Moves, context, KeepsMaps
  <1>2. KeysSoFar(i)' /\ MachinesSoFar(i)' /\ ProxiesSoFar(i)' /\ ChannelsSoFar(i)'
    BY <1>1, KeysStay, MachinesStay, ProxiesStay, ChannelsStay DEF Progress, Whole, Later
  <1>3. \A d \in Dims : file.globals[d] # None => db.globals[d] # None
    BY <1>1 DEF Progress, RulesSoFar
  <1> QED
    BY <1>1, <1>2, <1>3 DEF Progress, RulesSoFar

\* Of the rules for a machine and a dimension that was free, the first one in the
\* file is inserted.
LEMMA RulesInserted ==
  ASSUME Shape, NEW i \in Imports, NEW n \in DOMAIN file.rules, IdOfRule(i, n) # 0,
         <<IdOfRule(i, n), file.rules[n].dim>> \notin job[i].have
  PROVE  \E r \in db.rules \cup Inserted(i) : r.machine = IdOfRule(i, n) /\ r.dim = file.rules[n].dim
  <1> DEFINE S == { k \in DOMAIN file.rules :
                      IdOfRule(i, k) = IdOfRule(i, n) /\ file.rules[k].dim = file.rules[n].dim }
  <1>1. DOMAIN file.rules = 1..Len(file.rules) /\ Len(file.rules) \in Nat
    BY ShapeParts, SectionTypes
  <1>2. PICK f \in S : \A k \in S : f <= k
    <2>1. S \in SUBSET Nat /\ n \in S
      BY <1>1
    <2> HIDE DEF S
    <2> QED
      BY <2>1, LeastElement
  <1>3. f \in Firsts(i)
    <2>1. ASSUME NEW k \in 1..(f - 1)
          PROVE  IdOfRule(i, k) # IdOfRule(i, f) \/ file.rules[k].dim # file.rules[f].dim
      <3>1. k \in DOMAIN file.rules /\ k \notin S
        BY <1>1, <1>2
      <3> QED
        BY <1>2, <3>1
    <2> QED
      BY <1>2, <2>1 DEF Firsts
  <1> DEFINE r == [machine |-> IdOfRule(i, f), dim |-> file.rules[f].dim, value |-> file.rules[f].value]
  <1>4. r.machine = IdOfRule(i, n) /\ r.dim = file.rules[n].dim
    BY <1>2
  <1>5. r \in NewRules(i)
    BY <1>3 DEF NewRules
  <1> HIDE DEF r
  <1>6. CASE \E x \in db.rules : x.machine = r.machine /\ x.dim = r.dim
    BY <1>4, <1>6
  <1>7. CASE ~\E x \in db.rules : x.machine = r.machine /\ x.dim = r.dim
    BY <1>4, <1>5, <1>7 DEF Inserted
  <1> QED
    BY <1>6, <1>7

\* The last step of an import: the rules, and with them everything, is there.
LEMMA WriteRulesCompletes ==
  ASSUME Shape, NEW i \in Imports, WriteRules(i), Progress(i), Points(job[i], db)
  PROVE  Complete'
  <1>0. file \in Files /\ FileClosed
    BY ShapeParts
  <1>1. /\ Moves(i) /\ file' = file /\ job[i].pc = "rules"
        /\ db'.keys = db.keys /\ db'.machines = db.machines /\ db'.proxies = db.proxies
        /\ db'.channels = db.channels /\ db'.globals = db.globals
        /\ db'.rules = db.rules \cup Inserted(i)
    BY WriteRulesMoves DEF Moves, context
  <1>2. /\ Past(i, "keys") = DOMAIN file.keys /\ Past(i, "machines") = DOMAIN file.machines
        /\ Past(i, "proxies") = DOMAIN file.proxies /\ Past(i, "channels") = DOMAIN file.channels
    BY <1>1, WholeIsPast DEF Whole, Later
  <1>3. ASSUME NEW n \in DOMAIN file.keys PROVE HasKey(Trim[file.keys[n].name])'
    <2>1. Trim[file.keys[n].name] \in Names
      BY <1>0, <1>1, KeyItem DEF Moves
    <2>2. HasKey(Trim[file.keys[n].name])
      BY <1>2, <2>1 DEF Progress, KeysSoFar
    <2> QED
      BY <1>1, <2>2 DEF HasKey
  <1>4. ASSUME NEW n \in DOMAIN file.machines
        PROVE  /\ job[i].machineId[file.machines[n].name] # 0
               /\ \E m \in db.machines : /\ m.id = job[i].machineId[file.machines[n].name]
                                         /\ m.name = file.machines[n].name
    <2>1. file.machines[n].name \in Names
      BY <1>0, <1>1, MachineItem DEF Moves
    <2>2. job[i].machineId[file.machines[n].name] # 0
      BY <1>2 DEF Progress, MachinesSoFar
    <2> QED
      BY <2>1, <2>2 DEF Points
  <1>5. \A n \in DOMAIN file.proxies : \E p \in db.proxies : p.name = file.proxies[n].name
    BY <1>2 DEF Progress, ProxiesSoFar
  <1>6. \A n \in DOMAIN file.channels : db.channels[file.channels[n].type] # None
    BY <1>2 DEF Progress, ChannelsSoFar
  <1>7. /\ \A d \in Dims : file.globals[d] # None => db.globals[d] # None
        /\ job[i].have \subseteq { <<r.machine, r.dim>> : r \in db.rules }
    BY <1>1 DEF Progress, RulesSoFar
  <1>8. ASSUME NEW n \in DOMAIN file.rules
        PROVE  \E m \in db.machines, r \in db'.rules :
                 /\ m.name = file.rules[n].name /\ r.machine = m.id /\ r.dim = file.rules[n].dim
    <2>1. PICK x \in DOMAIN file.machines : file.machines[x].name = file.rules[n].name
      BY <1>0, RuleItem
    <2>2. /\ IdOfRule(i, n) # 0
          /\ \E m \in db.machines : m.id = IdOfRule(i, n) /\ m.name = file.rules[n].name
      BY <1>4, <2>1 DEF IdOfRule
    <2>3. \E r \in db'.rules : r.machine = IdOfRule(i, n) /\ r.dim = file.rules[n].dim
      <3>1. CASE <<IdOfRule(i, n), file.rules[n].dim>> \in job[i].have
        BY <1>1, <1>7, <3>1
      <3>2. CASE <<IdOfRule(i, n), file.rules[n].dim>> \notin job[i].have
        BY <1>1, <2>2, <3>2, RulesInserted
      <3> QED
        BY <3>1, <3>2
    <2> QED
      BY <2>2, <2>3
  <1> QED
    BY <1>1, <1>3, <1>4, <1>5, <1>6, <1>7, <1>8 DEF Complete

\* Where a step of import i leaves it.
LEMMA ImportPc ==
  ASSUME Shape, NEW i \in Imports, Import(i)
  PROVE  /\ job'[i].pc # "none" /\ job[i].pc # "none"
         /\ job'[i].pc = "ok" => WriteRules(i)
         /\ Under(i)' /\ ~Under(i) => ReadKeys(i)
  <1>1. CASE Refuse(i)
    BY <1>1, RefuseFields, NewJobType DEF JobStates, Under, Refuse
  <1>2. CASE WriteRules(i)
    BY <1>2, WriteRulesMoves, NewJobType DEF JobStates, Under
  <1>3. CASE ImportFails(i)
    BY <1>3, ImportFailsMoves, NewJobType DEF JobStates, Under, ImportFails
  <1>4. CASE ReadKeys(i)
    BY <1>4, ReadKeysMoves DEF ReadKeys
  <1>5. CASE ImportKey(i) \/ ReadMachines(i) \/ ImportMachine(i) \/ ReadProxies(i) \/ ImportProxy(i)
    BY <1>5, ImportKeyMoves, ReadMachinesMoves, ImportMachineMoves, ReadProxiesMoves, ImportProxyMoves, Zenon
       DEF Under
  <1>6. CASE ReadChannels(i) \/ ImportChannel(i) \/ ReadGlobals(i) \/ WriteGlobals(i) \/ ReadRules(i)
    BY <1>6, ReadChannelsMoves, ImportChannelMoves, ReadGlobalsMoves, WriteGlobalsMoves, ReadRulesMoves
       DEF Under
  <1> QED
    BY <1>1, <1>2, <1>3, <1>4, <1>5, <1>6 DEF Import

LEMMA ImportProgress ==
  ASSUME Shape, PointsInv, ProgressInv, NEW i \in Imports, Import(i)
  PROVE  ProgressInv'
  <1> SUFFICES ASSUME exp'.pc = "done", edited' \subseteq {"source"}, NEW k \in Imports, Alone(k)'
               PROVE  (Under(k)' => Progress(k)') /\ (job'[k].pc = "ok" => Complete')
    BY DEF ProgressInv
  <1>1. UNCHANGED <<context, edited>> /\ \A x \in Imports : x # i => job'[x] = job[x]
    BY ImportFrame
  <1>2. k = i
    BY ImportPc DEF Alone
  <1>3. Alone(i)
    BY <1>1, <1>2 DEF Alone
  <1>4. (Under(i) => Progress(i)) /\ Points(job[i], db)
    BY <1>1, <1>3 DEF ProgressInv, PointsInv, context
  <1>5. job'[i].pc = "ok" => Complete'
    <2> SUFFICES ASSUME WriteRules(i) PROVE Complete'
      BY ImportPc
    <2>1. Under(i)
      BY WriteRulesMoves DEF Under
    <2> QED
      BY <1>4, <2>1, WriteRulesCompletes
  <1>6. ASSUME Under(i)' PROVE Progress(i)'
    <2>1. CASE ReadKeys(i)
      BY <2>1, ReadKeysProgress
    <2>2. CASE ~ReadKeys(i)
      <3>1. Under(i) /\ Progress(i)
        BY <1>4, <1>6, <2>2, ImportPc
      <3>2. ~Refuse(i) /\ ~WriteRules(i) /\ ~ImportFails(i)
        BY <1>6, RefuseFields, WriteRulesMoves, ImportFailsMoves, NewJobType DEF JobStates, Under
      <3> QED
        BY <2>2, <3>1, <3>2, ImportKeyProgress, ReadMachinesProgress, ImportMachineProgress,
           ReadProxiesProgress, ImportProxyProgress, ReadChannelsProgress, ImportChannelProgress,
           ReadGlobalsProgress, WriteGlobalsProgress, ReadRulesProgress DEF Import
    <2> QED
      BY <2>1, <2>2
  <1> QED
    BY <1>2, <1>5, <1>6

LEMMA ProgressInit == ASSUME BackupInit PROVE ProgressInv
  <1>1. exp.pc # "done"
    BY NewExportType DEF BackupInit
  <1> QED
    BY <1>1 DEF ProgressInv

LEMMA ProgressStep ==
  ASSUME Shape, PointsInv, ProgressInv, [BackupNext]_backupVars
  PROVE  ProgressInv'
  <1>1. CASE UNCHANGED backupVars
    <2> SUFFICES ASSUME exp'.pc = "done", edited' \subseteq {"source"}, NEW i \in Imports, Alone(i)'
                 PROVE  (Under(i)' => Progress(i)') /\ (job'[i].pc = "ok" => Complete')
      BY DEF ProgressInv
    <2>1. (Under(i) => Progress(i)) /\ (job[i].pc = "ok" => Complete)
      BY <1>1 DEF ProgressInv, backupVars, Alone
    <2>2. job' = job /\ db' = db /\ file' = file
      BY <1>1 DEF backupVars
    <2>3. Under(i)' => Progress(i)'
      BY <2>1, <2>2 DEF Under, Progress, KeysSoFar, MachinesSoFar, ProxiesSoFar, ChannelsSoFar,
                        RulesSoFar, HasKey, Past
    <2>4. job'[i].pc = "ok" => Complete'
      BY <2>1, <2>2 DEF Complete, HasKey
    <2> QED
      BY <2>3, <2>4
  <1>2. CASE Export
    <2> SUFFICES ASSUME exp'.pc = "done", NEW i \in Imports
                 PROVE  ~Under(i)' /\ job'[i].pc # "ok"
      BY DEF ProgressInv
    <2>1. ListRules
      BY <1>2, ExportEnds
    <2>2. job'[i] \in {NewJob, Ended("none")}
      BY <2>1 DEF Shape, Gate, ListRules
    <2>3. job'[i].pc \in {"idle", "none"}
      BY <2>2, NewJobType DEF JobStates
    <2> QED
      BY <2>3 DEF Under
  <1>3. CASE \E i \in Imports : Import(i)
    BY <1>3, ImportProgress
  <1>4. CASE Others
    <2>1. exp' = exp /\ (exp.pc = "done" => "drop" \in edited' \/ "set" \in edited')
      BY <1>4, OthersFields DEF context
    <2> QED
      BY <2>1 DEF ProgressInv
  <1> QED
    BY <1>1, <1>2, <1>3, <1>4 DEF BackupNext

\* An import that is answered 200 has left nothing out: every key, machine, proxy,
\* channel and rule the file names is in the instance, whatever was there before
\* it and however many attempts failed half way.
THEOREM BackupNothingMissing == BackupSpec => []NothingMissing
  <1>1. BackupInit => Shape /\ PointsInv /\ ProgressInv
    BY ShapeInit, PointsInit, ProgressInit
  <1>2. Shape /\ PointsInv /\ ProgressInv /\ [BackupNext]_backupVars
          => (Shape /\ PointsInv /\ ProgressInv)'
    BY ShapeStep, PointsStep, ProgressStep
  <1>3. Shape /\ ProgressInv => NothingMissing
    <2> SUFFICES ASSUME Shape, ProgressInv, NEW i \in Imports, job[i].pc = "ok", Alone(i),
                        edited \subseteq {"source"}
                 PROVE  Complete
      BY DEF NothingMissing, Complete, HasKey
    <2>1. exp.pc = "done"
      BY NewJobType DEF JobStates, Shape, Gate
    <2> QED
      BY <2>1 DEF ProgressInv
  <1> QED
    BY <1>1, <1>2, <1>3, PTL DEF BackupSpec

-----------------------------------------------------------------------------
(* The round trip. What an import has written into an empty instance are      *)
(* copies of rows of the original, each of them once; NothingMissing adds     *)
(* that it has written all of them when it is answered 200.                   *)

\* No two rows of a table share an id or a name.
Distinct(rows) == \A a, b \in rows : a.id = b.id \/ a.name = b.name => a = b

\* What an instance o must be for a file to tell all of it. The unique indexes of
\* the tables see to the fingerprints and to the rules. Keys, machines and proxies
\* may share a name; the import then takes one of them for the other.
Unambiguous(o) ==
  /\ \A a, b \in o.keys : a.id = b.id \/ a.mat = b.mat \/ Trim[a.name] = Trim[b.name] => a = b
  /\ Distinct(o.machines) /\ Distinct(o.proxies)
  /\ \A r, s \in o.rules : r.machine = s.machine /\ r.dim = s.dim => r = s

\* What was asked for can be told apart, and the target has no settings yet.
Restorable ==
  /\ Unambiguous(Origin)
  /\ \A t \in Types : scn.target.channels[t] = None
  /\ \A d \in Dims : scn.target.globals[d] = None

\* As long as nobody edits the source, the export reads what was asked for.
ExportTells ==
  edited = {} =>
    /\ exp.pc # "done" => db = scn.source
    /\ exp.pc \in {"keys", "proxies", "channels", "globals", "rules"} => exp.machines = Origin.machines
    /\ exp.pc \in {"proxies", "channels", "globals", "rules"} => exp.keys = Origin.keys
    /\ exp.pc \in {"channels", "globals", "rules"} => exp.proxies = Origin.proxies
    /\ exp.pc \in {"globals", "rules"} => exp.channels = Origin.channels
    /\ exp.pc = "rules" => exp.globals = Origin.globals

\* File f tells of instance o all that has a name, and nothing else.
TellsKeys(f, o) ==
  /\ \A n \in DOMAIN f.keys : \E k \in o.keys : f.keys[n].name = k.name /\ f.keys[n].mat = k.mat
  /\ \A k \in o.keys : \E n \in DOMAIN f.keys : f.keys[n].name = k.name /\ f.keys[n].mat = k.mat
TellsMachines(f, o) ==
  /\ \A m \in o.machines : \E k \in o.keys : k.id = m.key
  /\ \A n \in DOMAIN f.machines :
       \E m \in o.machines, k \in o.keys :
         k.id = m.key /\ f.machines[n].name = m.name /\ f.machines[n].key = k.name
  /\ \A m \in o.machines : \E n \in DOMAIN f.machines : f.machines[n].name = m.name
TellsProxies(f, o) ==
  /\ \A n \in DOMAIN f.proxies : \E p \in o.proxies : f.proxies[n].name = p.name /\ f.proxies[n].url = p.url
  /\ \A p \in o.proxies : \E n \in DOMAIN f.proxies : f.proxies[n].name = p.name
  /\ \A n, x \in DOMAIN f.proxies : f.proxies[n].name = f.proxies[x].name => n = x
TellsChannels(f, o) ==
  /\ \A n \in DOMAIN f.channels :
       /\ o.channels[f.channels[n].type] # None
       /\ f.channels[n].cfg.on = o.channels[f.channels[n].type].on
       /\ \/ /\ f.channels[n].cfg.proxy = None
             /\ \A p \in o.proxies : p.id # o.channels[f.channels[n].type].proxy
          \/ \E p \in o.proxies :
               p.id = o.channels[f.channels[n].type].proxy /\ f.channels[n].cfg.proxy = p.name
  /\ \A t \in Types : o.channels[t] # None => \E n \in DOMAIN f.channels : f.channels[n].type = t
TellsRules(f, o) ==
  /\ \A n \in DOMAIN f.rules :
       \E m \in o.machines, r \in o.rules :
         /\ f.rules[n].name = m.name /\ r.machine = m.id
         /\ f.rules[n].dim = r.dim /\ f.rules[n].value = r.value
  /\ \A m \in o.machines, r \in o.rules :
       r.machine = m.id => \E n \in DOMAIN f.rules : f.rules[n].name = m.name /\ f.rules[n].dim = r.dim
Tells(f, o) ==
  /\ TellsKeys(f, o) /\ TellsMachines(f, o) /\ TellsProxies(f, o) /\ TellsChannels(f, o)
  /\ f.globals = o.globals /\ TellsRules(f, o)

\* Instance d holds nothing but copies of rows of o, that refer to each other as
\* the originals do.
CopiesKeys(d, o) == \A k \in d.keys : \E x \in o.keys : k.name = Trim[x.name] /\ k.mat = x.mat
CopiesMachines(d, o) ==
  \A m \in d.machines : \E x \in o.machines, y \in o.keys, k \in d.keys :
    m.name = x.name /\ y.id = x.key /\ k.id = m.key /\ k.mat = y.mat
CopiesProxies(d, o) == \A p \in d.proxies : \E x \in o.proxies : p.name = x.name /\ p.url = x.url
\* Channel setting c of d and its original b.
CopiesChannel(c, b, d, o) ==
  /\ b # None /\ c.on = b.on
  /\ \/ c.proxy = 0 /\ \A x \in o.proxies : x.id # b.proxy
     \/ \E p \in d.proxies, x \in o.proxies :
          p.id = c.proxy /\ x.id = b.proxy /\ p.name = x.name /\ p.url = x.url
CopiesChannels(d, o) ==
  \A t \in Types : d.channels[t] # None => CopiesChannel(d.channels[t], o.channels[t], d, o)
CopiesGlobals(d, o) == \A x \in Dims : d.globals[x] # None => d.globals[x] = o.globals[x]
CopiesRules(d, o) ==
  \A r \in d.rules : \E m \in d.machines, x \in o.machines, s \in o.rules :
    /\ m.id = r.machine /\ m.name = x.name /\ s.machine = x.id
    /\ s.dim = r.dim /\ s.value = r.value
Copied(d, o) ==
  /\ CopiesKeys(d, o) /\ CopiesMachines(d, o) /\ CopiesProxies(d, o)
  /\ CopiesChannels(d, o) /\ CopiesGlobals(d, o) /\ CopiesRules(d, o)

\* Nothing is there twice, and next is not the id of anything.
Once(d, next) ==
  /\ \A a, b \in d.keys : a.id = b.id \/ a.mat = b.mat => a = b
  /\ Distinct(d.machines) /\ Distinct(d.proxies)
  /\ \A x \in d.keys \cup d.machines \cup d.proxies : x.id < next

\* What an import j with file f has in memory: keys by their names and
\* fingerprints, and every machine and proxy once it has listed them.
Remembers(j, f, d) ==
  /\ \A n \in Names : j.keyId[n] # 0 => \E k \in d.keys : k.id = j.keyId[n] /\ k.name = n
  /\ \A x \in Materials : j.printId[x] # 0 => \E k \in d.keys : k.id = j.printId[x] /\ k.mat = x
  /\ j.pc \notin {"keys"} => \A m \in d.machines : j.machineId[m.name] # 0
  /\ j.pc \notin {"keys", "machines"} =>
       /\ \A p \in d.proxies : j.proxyId[p.name] = p.id
       /\ \A n \in Names : j.proxyId[n] # 0 => \E p \in d.proxies : p.id = j.proxyId[n] /\ p.name = n
  /\ j.pc = "proxies" =>
       \A p \in d.proxies :
         p.name \in j.existing \/ \E n \in DOMAIN f.proxies : n < j.pos /\ f.proxies[n].name = p.name

\* Nothing was edited, and import i is the only one.
Undisturbed(i) == exp.pc = "done" /\ edited = {} /\ Alone(i) /\ Restorable /\ IdsIn(scn.target) = {}

RestoreInv ==
  \A i \in Imports : Undisturbed(i) =>
    /\ Tells(file, Origin) /\ Copied(db, Origin) /\ Once(db, nextId)
    /\ Under(i) => Remembers(job[i], file, db)

\* Instance d has everything instance o has.
HasAll(d, o) ==
  /\ \A x \in o.keys : \E k \in d.keys : k.name = Trim[x.name] /\ k.mat = x.mat
  /\ \A x \in o.machines : \E m \in d.machines : m.name = x.name
  /\ \A x \in o.proxies : \E p \in d.proxies : p.name = x.name /\ p.url = x.url
  /\ \A t \in Types : o.channels[t] # None => d.channels[t] # None
  /\ d.globals = o.globals
  /\ \A x \in o.machines, s \in o.rules :
       s.machine = x.id =>
         \E m \in d.machines, r \in d.rules : m.name = x.name /\ r.machine = m.id /\ r.dim = s.dim

LEMMA OriginFacts ==
  ASSUME scn \in Scenarios
  PROVE  /\ Origin \in Instances
         /\ Origin.machines = { m \in scn.source.machines : m.id \in scn.asked.machines }
         /\ Origin.keys = { k \in scn.source.keys :
                              k.id \in scn.asked.keys \/ \E m \in Origin.machines : m.key = k.id }
         /\ Origin.proxies = scn.source.proxies /\ Origin.channels = scn.source.channels
         /\ Origin.globals = scn.source.globals
         /\ Origin.rules = { r \in scn.source.rules : r.machine \in scn.asked.machines }
  <1> DEFINE s == scn.source
             M == { m \in s.machines : m.id \in scn.asked.machines }
             K == { k \in s.keys : k.id \in scn.asked.keys \cup { m.key : m \in M } }
             R == { r \in s.rules : r.machine \in scn.asked.machines }
  <1>1. s \in Instances
    BY ScenarioParts
  <1>2. Origin = [s EXCEPT !.machines = M, !.keys = K, !.rules = R]
    BY <1>1 DEF Origin, Instances
  <1>3. K = { k \in s.keys : k.id \in scn.asked.keys \/ \E m \in M : m.key = k.id }
    OBVIOUS
  <1>4. M \in Finite(Machines) /\ K \in Finite(Keys) /\ R \in Finite(Rules)
    BY <1>1, InstanceParts, FiniteSub
  <1> HIDE DEF s, M, K, R
  <1>5. /\ Origin \in Instances /\ Origin.machines = M /\ Origin.keys = K /\ Origin.rules = R
        /\ Origin.proxies = s.proxies /\ Origin.channels = s.channels /\ Origin.globals = s.globals
    BY <1>1, <1>2, <1>4 DEF Instances
  <1> QED
    BY <1>3, <1>5 DEF s, M, R

\* Two tables with the same names, each of them once, have as many rows.
LEMMA SameNames ==
  ASSUME NEW S, NEW T, IsFiniteSet(S), Distinct(S), Distinct(T),
         \A x \in S : \E y \in T : x.name = y.name,
         \A y \in T : \E x \in S : x.name = y.name
  PROVE  Cardinality(S) = Cardinality(T)
  <1> DEFINE f == [x \in S |-> CHOOSE y \in T : x.name = y.name]
  <1>1. \A x \in S : f[x] \in T /\ x.name = f[x].name
    OBVIOUS
  <1>2. f \in [S -> T]
    BY <1>1
  <1> HIDE DEF f
  <1>3. \A a, b \in S : f[a] = f[b] => a = b
    BY <1>1 DEF Distinct
  <1>4. \A y \in T : \E x \in S : f[x] = y
    BY <1>1 DEF Distinct
  <1>5. f \in Bijection(S, T)
    BY <1>2, <1>3, <1>4, Fun_IsBij
  <1>6. ExistsBijection(S, T)
    BY <1>5 DEF ExistsBijection
  <1> QED
    BY <1>6, FS_Bijection

\* The names the services store have no spaces around them.
LEMMA TrimmedOnce ==
  ASSUME NEW n \in Names, Trim[n] \in Names
  PROVE  Trim[Trim[n]] = Trim[n]
  BY BackupAssumption DEF BackupAssumption, Trimmed

LEMMA SameKeys ==
  ASSUME NEW d \in Instances, NEW o \in Instances, CopiesKeys(d, o), HasAll(d, o)
  PROVE  { <<Trim[k.name], k.mat>> : k \in d.keys } = { <<Trim[k.name], k.mat>> : k \in o.keys }
  <1>1. \A k \in d.keys \cup o.keys : k.name \in Names
    BY InstanceParts DEF Keys
  <1>2. \A k \in d.keys : Trim[k.name] = k.name
    <2> SUFFICES ASSUME NEW k \in d.keys PROVE Trim[k.name] = k.name
      OBVIOUS
    <2>1. PICK x \in o.keys : k.name = Trim[x.name]
      BY DEF CopiesKeys
    <2> QED
      BY <1>1, <2>1, TrimmedOnce
  <1>3. \A k \in d.keys : \E x \in o.keys : Trim[k.name] = Trim[x.name] /\ k.mat = x.mat
    BY <1>2 DEF CopiesKeys
  <1>4. \A x \in o.keys : \E k \in d.keys : Trim[k.name] = Trim[x.name] /\ k.mat = x.mat
    BY <1>2 DEF HasAll
  <1> QED
    BY <1>3, <1>4

LEMMA SameProxies ==
  ASSUME NEW d, NEW o, CopiesProxies(d, o), HasAll(d, o)
  PROVE  { <<p.name, p.url>> : p \in d.proxies } = { <<p.name, p.url>> : p \in o.proxies }
  <1>1. \A x \in o.proxies : \E p \in d.proxies : p.name = x.name /\ p.url = x.url
    BY DEF HasAll
  <1> QED
    BY <1>1 DEF CopiesProxies

\* A machine and its copy have the same key ...
LEMMA SameMachineKey ==
  ASSUME NEW d, NEW o, NEW next, Unambiguous(o), Once(d, next), CopiesMachines(d, o),
         NEW m \in d.machines, NEW x \in o.machines, m.name = x.name
  PROVE  { k.mat : k \in Lookup(d.keys, m.key) } = { k.mat : k \in Lookup(o.keys, x.key) }
  <1>1. PICK z \in o.machines, y \in o.keys, k \in d.keys :
          m.name = z.name /\ y.id = z.key /\ k.id = m.key /\ k.mat = y.mat
    BY DEF CopiesMachines
  <1>2. z = x
    BY <1>1 DEF Unambiguous, Distinct
  <1>3. Lookup(o.keys, x.key) = {y}
    BY <1>1, <1>2 DEF Lookup, Unambiguous
  <1>4. Lookup(d.keys, m.key) = {k}
    BY <1>1 DEF Lookup, Once
  <1> QED
    BY <1>1, <1>3, <1>4

\* ... and the same rules.
LEMMA SameMachineRules ==
  ASSUME NEW d, NEW o, NEW next, Unambiguous(o), Once(d, next), CopiesRules(d, o), HasAll(d, o),
         NEW m \in d.machines, NEW x \in o.machines, m.name = x.name
  PROVE  { <<r.dim, r.value>> : r \in { r \in d.rules : r.machine = m.id } }
           = { <<r.dim, r.value>> : r \in { r \in o.rules : r.machine = x.id } }
  <1>0. /\ \A a, b \in d.machines : a.id = b.id \/ a.name = b.name => a = b
        /\ \A a, b \in o.machines : a.id = b.id \/ a.name = b.name => a = b
        /\ \A r, s \in o.rules : r.machine = s.machine /\ r.dim = s.dim => r = s
    BY DEF Unambiguous, Once, Distinct
  <1>1. ASSUME NEW r \in d.rules, r.machine = m.id
        PROVE  \E s \in o.rules : s.machine = x.id /\ s.dim = r.dim /\ s.value = r.value
    <2>1. PICK a \in d.machines, z \in o.machines, s \in o.rules :
            /\ a.id = r.machine /\ a.name = z.name /\ s.machine = z.id
            /\ s.dim = r.dim /\ s.value = r.value
      BY DEF CopiesRules
    <2>2. a = m
      BY <1>0, <1>1, <2>1
    <2>3. z = x
      BY <1>0, <2>1, <2>2
    <2> QED
      BY <2>1, <2>3
  <1>2. ASSUME NEW s \in o.rules, s.machine = x.id
        PROVE  \E r \in d.rules : r.machine = m.id /\ s.dim = r.dim /\ s.value = r.value
    <2>1. PICK a \in d.machines, r \in d.rules : a.name = x.name /\ r.machine = a.id /\ r.dim = s.dim
      BY <1>2 DEF HasAll
    <2>2. a = m
      BY <1>0, <2>1
    <2>3. PICK t \in o.rules : t.machine = x.id /\ t.dim = r.dim /\ t.value = r.value
      BY <1>1, <2>1, <2>2
    <2>4. t = s
      BY <1>0, <1>2, <2>1, <2>3
    <2> QED
      BY <2>1, <2>2, <2>3, <2>4
  <1>3. \A e : e \in { <<r.dim, r.value>> : r \in { r \in d.rules : r.machine = m.id } }
               <=> \E r \in d.rules : r.machine = m.id /\ e = <<r.dim, r.value>>
    OBVIOUS
  <1>4. \A e : e \in { <<r.dim, r.value>> : r \in { r \in o.rules : r.machine = x.id } }
               <=> \E r \in o.rules : r.machine = x.id /\ e = <<r.dim, r.value>>
    OBVIOUS
  <1>5. \A e : (\E r \in d.rules : r.machine = m.id /\ e = <<r.dim, r.value>>)
               <=> \E r \in o.rules : r.machine = x.id /\ e = <<r.dim, r.value>>
    BY <1>1, <1>2
  <1> QED
    BY <1>3, <1>4, <1>5

LEMMA SameMachines ==
  ASSUME NEW d, NEW o, NEW next, Unambiguous(o), Once(d, next), CopiesMachines(d, o),
         CopiesRules(d, o), HasAll(d, o)
  PROVE  { <<m.name, { k.mat : k \in Lookup(d.keys, m.key) },
             { <<r.dim, r.value>> : r \in { x \in d.rules : x.machine = m.id } }>> : m \in d.machines }
         = { <<m.name, { k.mat : k \in Lookup(o.keys, m.key) },
               { <<r.dim, r.value>> : r \in { x \in o.rules : x.machine = m.id } }>> : m \in o.machines }
  <1> DEFINE key(e, m) == { k.mat : k \in Lookup(e.keys, m.key) }
             limits(e, m) == { <<r.dim, r.value>> : r \in { x \in e.rules : x.machine = m.id } }
             told(e, m) == <<m.name, key(e, m), limits(e, m)>>
  <1>1. ASSUME NEW m \in d.machines, NEW x \in o.machines, m.name = x.name
        PROVE  told(d, m) = told(o, x)
    <2>1. key(d, m) = key(o, x)
      BY <1>1, SameMachineKey
    <2>2. limits(d, m) = limits(o, x)
      BY <1>1, SameMachineRules
    <2> HIDE DEF key, limits
    <2> QED
      BY <1>1, <2>1, <2>2
  <1> HIDE DEF told
  <1>2. \A m \in d.machines : \E x \in o.machines : m.name = x.name
    BY DEF CopiesMachines
  <1>3. \A x \in o.machines : \E m \in d.machines : m.name = x.name
    BY DEF HasAll
  <1>4. { told(d, m) : m \in d.machines } = { told(o, x) : x \in o.machines }
    BY <1>1, <1>2, <1>3
  <1> QED
    BY <1>4 DEF told

\* The proxy of a channel: nobody has the id 0.
LEMMA SameChannelProxy ==
  ASSUME NEW d \in Instances, NEW o, NEW next, Unambiguous(o), Once(d, next),
         NEW c, NEW b, CopiesChannel(c, b, d, o)
  PROVE  { p.url : p \in Lookup(d.proxies, c.proxy) } = { p.url : p \in Lookup(o.proxies, b.proxy) }
  <1>1. CASE c.proxy = 0 /\ \A x \in o.proxies : x.id # b.proxy
    <2>1. \A p \in d.proxies : p.id # 0
      BY InstanceParts DEF Proxies, Ids
    <2>2. Lookup(d.proxies, c.proxy) = {} /\ Lookup(o.proxies, b.proxy) = {}
      BY <1>1, <2>1 DEF Lookup
    <2> QED
      BY <2>2
  <1>2. CASE \E p \in d.proxies, x \in o.proxies :
               p.id = c.proxy /\ x.id = b.proxy /\ p.name = x.name /\ p.url = x.url
    <2>1. PICK p \in d.proxies, x \in o.proxies : p.id = c.proxy /\ x.id = b.proxy /\ p.url = x.url
      BY <1>2
    <2>2. Lookup(d.proxies, c.proxy) = {p} /\ Lookup(o.proxies, b.proxy) = {x}
      BY <2>1 DEF Lookup, Once, Unambiguous, Distinct
    <2> QED
      BY <2>1, <2>2
  <1> QED
    BY <1>1, <1>2 DEF CopiesChannel

LEMMA SameChannels ==
  ASSUME NEW d \in Instances, NEW o, NEW next, Unambiguous(o), Once(d, next), CopiesChannels(d, o),
         HasAll(d, o)
  PROVE  [t \in Types |->
            IF d.channels[t] = None THEN {}
            ELSE {<<d.channels[t].on, { p.url : p \in Lookup(d.proxies, d.channels[t].proxy) }>>}]
         = [t \in Types |->
              IF o.channels[t] = None THEN {}
              ELSE {<<o.channels[t].on, { p.url : p \in Lookup(o.proxies, o.channels[t].proxy) }>>}]
  <1> DEFINE urls(e, t) == { p.url : p \in Lookup(e.proxies, e.channels[t].proxy) }
             told(e, t) == IF e.channels[t] = None THEN {} ELSE {<<e.channels[t].on, urls(e, t)>>}
  <1>1. ASSUME NEW t \in Types PROVE told(d, t) = told(o, t)
    <2>1. CASE d.channels[t] = None
      <3>1. o.channels[t] = None
        BY <2>1 DEF HasAll
      <3> QED
        BY <2>1, <3>1
    <2>2. CASE d.channels[t] # None
      <3>1. CopiesChannel(d.channels[t], o.channels[t], d, o)
        BY <2>2 DEF CopiesChannels
      <3>2. urls(d, t) = urls(o, t)
        BY <3>1, SameChannelProxy
      <3>3. o.channels[t] # None /\ d.channels[t].on = o.channels[t].on
        BY <3>1 DEF CopiesChannel
      <3> HIDE DEF urls
      <3> QED
        BY <2>2, <3>2, <3>3
    <2> QED
      BY <2>1, <2>2
  <1> HIDE DEF told
  <1>2. [t \in Types |-> told(d, t)] = [t \in Types |-> told(o, t)]
    BY <1>1
  <1> QED
    BY <1>2 DEF told

\* An instance that holds copies and nothing else, each of them once, and lacks
\* nothing cannot be told from the original but by its ids.
LEMMA CopiesAreTheSame ==
  ASSUME NEW d \in Instances, NEW o \in Instances, NEW next,
         Unambiguous(o), Once(d, next), Copied(d, o), HasAll(d, o)
  PROVE  /\ View(d) = View(o)
         /\ Cardinality(d.machines) = Cardinality(o.machines)
         /\ Cardinality(d.proxies) = Cardinality(o.proxies)
  <1> USE DEF Copied
  <1>1. View(d) = View(o)
    <2> DEFINE keys(e) == { <<Trim[k.name], k.mat>> : k \in e.keys }
               machines(e) ==
                 { <<m.name, { k.mat : k \in Lookup(e.keys, m.key) },
                     { <<r.dim, r.value>> : r \in { x \in e.rules : x.machine = m.id } }>> :
                   m \in e.machines }
               proxies(e) == { <<p.name, p.url>> : p \in e.proxies }
               channels(e) ==
                 [t \in Types |->
                    IF e.channels[t] = None THEN {}
                    ELSE {<<e.channels[t].on, { p.url : p \in Lookup(e.proxies, e.channels[t].proxy) }>>}]
               told(e) == [keys |-> keys(e), machines |-> machines(e), proxies |-> proxies(e),
                           channels |-> channels(e), globals |-> e.globals]
    <2>1. View(d) = told(d) /\ View(o) = told(o)
      BY Zenon DEF View
    <2>2. keys(d) = keys(o)
      BY SameKeys
    <2>3. machines(d) = machines(o)
      BY SameMachines
    <2>4. proxies(d) = proxies(o)
      BY SameProxies
    <2>5. channels(d) = channels(o)
      BY SameChannels
    <2>6. d.globals = o.globals
      BY DEF HasAll
    <2> HIDE DEF keys, machines, proxies, channels
    <2> QED
      BY <2>1, <2>2, <2>3, <2>4, <2>5, <2>6
  <1>2. IsFiniteSet(d.machines) /\ IsFiniteSet(d.proxies)
    BY InstanceParts DEF Finite
  <1>3. Cardinality(d.machines) = Cardinality(o.machines)
    <2>1. \A m \in d.machines : \E x \in o.machines : m.name = x.name
      BY DEF CopiesMachines
    <2>2. \A x \in o.machines : \E m \in d.machines : m.name = x.name
      BY DEF HasAll
    <2> QED
      BY <1>2, <2>1, <2>2, SameNames DEF Once, Unambiguous
  <1>4. Cardinality(d.proxies) = Cardinality(o.proxies)
    <2>1. \A p \in d.proxies : \E x \in o.proxies : p.name = x.name
      BY DEF CopiesProxies
    <2>2. \A x \in o.proxies : \E p \in d.proxies : p.name = x.name
      BY DEF HasAll
    <2> QED
      BY <1>2, <2>1, <2>2, SameNames DEF Once, Unambiguous
  <1> QED
    BY <1>1, <1>3, <1>4

\* What the file tells is there when an import is through, and what is there are
\* copies: so nothing of the original is missing.
LEMMA CompleteHasAll ==
  ASSUME Shape, validateBackupPayload(file), Complete, NEW o \in Instances, Unambiguous(o),
         Tells(file, o), Copied(db, o)
  PROVE  HasAll(db, o)
  <1>0. db \in Instances /\ file \in Files
    BY ShapeParts
  <1>1. ASSUME NEW x \in o.keys PROVE \E k \in db.keys : k.name = Trim[x.name] /\ k.mat = x.mat
    <2>1. PICK n \in DOMAIN file.keys : file.keys[n].name = x.name /\ file.keys[n].mat = x.mat
      BY DEF Tells, TellsKeys
    <2>2. PICK k \in db.keys :
            \/ k.name = Trim[x.name]
            \/ \E j \in DOMAIN file.keys : Trim[file.keys[j].name] = Trim[x.name] /\ k.mat = file.keys[j].mat
      BY <2>1 DEF Complete, HasKey
    <2>3. PICK y \in o.keys : k.name = Trim[y.name] /\ k.mat = y.mat
      BY DEF Copied, CopiesKeys
    <2>4. CASE k.name = Trim[x.name]
      BY <2>3, <2>4 DEF Unambiguous
    <2>5. CASE \E j \in DOMAIN file.keys : Trim[file.keys[j].name] = Trim[x.name] /\ k.mat = file.keys[j].mat
      <3>1. PICK j \in DOMAIN file.keys : Trim[file.keys[j].name] = Trim[x.name] /\ k.mat = file.keys[j].mat
        BY <2>5
      <3>2. PICK z \in o.keys : file.keys[j].name = z.name /\ file.keys[j].mat = z.mat
        BY DEF Tells, TellsKeys
      <3>3. z = x /\ z = y
        BY <2>3, <3>1, <3>2 DEF Unambiguous
      <3> QED
        BY <2>3, <3>3
    <2> QED
      BY <2>2, <2>4, <2>5
  <1>2. ASSUME NEW x \in o.machines PROVE \E m \in db.machines : m.name = x.name
    BY DEF Tells, TellsMachines, Complete
  <1>3. ASSUME NEW x \in o.proxies PROVE \E p \in db.proxies : p.name = x.name /\ p.url = x.url
    <2>1. PICK p \in db.proxies : p.name = x.name
      BY DEF Tells, TellsProxies, Complete
    <2>2. PICK y \in o.proxies : p.name = y.name /\ p.url = y.url
      BY DEF Copied, CopiesProxies
    <2> QED
      BY <2>1, <2>2 DEF Unambiguous, Distinct
  <1>4. ASSUME NEW t \in Types, o.channels[t] # None PROVE db.channels[t] # None
    BY <1>4 DEF Tells, TellsChannels, Complete
  <1>5. db.globals = o.globals
    <2>1. \A x \in Dims : db.globals[x] = o.globals[x]
      BY DEF Tells, Complete, Copied, CopiesGlobals
    <2>2. db.globals \in Globals /\ o.globals \in Globals
      BY <1>0, InstanceParts
    <2> QED
      BY <2>1, <2>2 DEF Globals
  <1>6. ASSUME NEW x \in o.machines, NEW s \in o.rules, s.machine = x.id
        PROVE  \E m \in db.machines, r \in db.rules : m.name = x.name /\ r.machine = m.id /\ r.dim = s.dim
    <2>1. PICK n \in DOMAIN file.rules : file.rules[n].name = x.name /\ file.rules[n].dim = s.dim
      BY <1>6 DEF Tells, TellsRules
    <2> QED
      BY <2>1 DEF Complete
  <1> QED
    BY <1>1, <1>2, <1>3, <1>4, <1>5, <1>6 DEF HasAll

LEMMA OthersEdit == ASSUME Others PROVE edited' # {}
  BY DEF Others, AddKey, DropKey, Rebind, DropMachine, DropProxy, SetChannel, SetGlobal, SetRule, Edit

LEMMA ImportIsAfter ==
  ASSUME Shape, NEW i \in Imports, Import(i)
  PROVE  exp.pc = "done" /\ exp' = exp /\ scn' = scn /\ file' = file /\ edited' = edited
  <1>1. exp' = exp /\ scn' = scn /\ file' = file /\ edited' = edited
    BY ImportFrame DEF context
  <1>2. Refuse(i) \/ Moves(i)
    BY ReadKeysMoves, ImportKeyMoves, ReadMachinesMoves, ImportMachineMoves,
       ReadProxiesMoves, ImportProxyMoves, ReadChannelsMoves, ImportChannelMoves, ReadGlobalsMoves,
       WriteGlobalsMoves, ReadRulesMoves, WriteRulesMoves, ImportFailsMoves
       DEF Import
  <1> QED
    BY <1>1, <1>2 DEF Refuse, Moves

LEMMA OriginStays ==
  ASSUME scn' = scn
  PROVE  Origin' = Origin
  BY DEF Origin

LEMMA ExportTellsInit == ASSUME BackupInit PROVE ExportTells
  BY NewExportType DEF BackupInit, ExportTells

LEMMA ExportTellsStep ==
  ASSUME Shape, ExportTells, [BackupNext]_backupVars
  PROVE  ExportTells'
  <1> SUFFICES
        ASSUME edited' = {}
        PROVE  /\ exp'.pc # "done" => db' = scn'.source
               /\ exp'.pc \in {"keys", "proxies", "channels", "globals", "rules"} =>
                    exp'.machines = Origin'.machines
               /\ exp'.pc \in {"proxies", "channels", "globals", "rules"} => exp'.keys = Origin'.keys
               /\ exp'.pc \in {"channels", "globals", "rules"} => exp'.proxies = Origin'.proxies
               /\ exp'.pc \in {"globals", "rules"} => exp'.channels = Origin'.channels
               /\ exp'.pc = "rules" => exp'.globals = Origin'.globals
    BY DEF ExportTells
  <1>1. CASE UNCHANGED backupVars
    BY <1>1, OriginStays DEF ExportTells, backupVars
  <1>2. CASE \E i \in Imports : Import(i)
    BY <1>2, ImportIsAfter
  <1>3. CASE Others
    BY <1>3, OthersEdit
  <1>4. CASE Export
    <2>0. exp \in Exports /\ scn \in Scenarios /\ NewExport.pc = "machines"
          /\ [NewExport EXCEPT !.pc = "refused"].pc = "refused" /\ [NewExport EXCEPT !.pc = "done"].pc = "done"
      BY ShapeParts, NewExportType DEF NewExport
    <2>1. /\ scn' = scn /\ Origin' = Origin /\ edited = {}
      <3>1. scn' = scn /\ edited' = edited
        BY <1>4 DEF Export, ListMachines, ListKeys, ListProxies, ListChannels, ListGlobals, ListRules,
                    ExportFails, KeepsImports, bounds
      <3> QED
        BY <3>1, OriginStays
    <2>2. /\ exp.pc # "done" => db = scn.source
          /\ exp.pc \in {"keys", "proxies", "channels", "globals", "rules"} => exp.machines = Origin.machines
          /\ exp.pc \in {"proxies", "channels", "globals", "rules"} => exp.keys = Origin.keys
          /\ exp.pc \in {"channels", "globals", "rules"} => exp.proxies = Origin.proxies
          /\ exp.pc \in {"globals", "rules"} => exp.channels = Origin.channels
          /\ exp.pc = "rules" => exp.globals = Origin.globals
      BY <2>1 DEF ExportTells
    <2>3. CASE ListMachines
      BY <2>0, <2>1, <2>2, <2>3, OriginFacts DEF ListMachines, selectBackupMachines, Exports
    <2>4. CASE ListKeys
      <3>1. exp.machines = Origin.machines /\ db = scn.source /\ db' = db /\ exp.pc = "keys"
        BY <2>2, <2>4 DEF ListKeys
      <3>2. selectBackupSSHKeys(db.keys, exp.machines) = Origin.keys
        BY <2>0, <3>1, OriginFacts DEF selectBackupSSHKeys
      <3>3. \/ exp' = [NewExport EXCEPT !.pc = "refused"]
            \/ exp' = [exp EXCEPT !.pc = "proxies", !.keys = Origin.keys]
        BY <2>4, <3>2 DEF ListKeys
      <3>4. CASE exp' = [NewExport EXCEPT !.pc = "refused"]
        BY <2>0, <2>1, <3>1, <3>4
      <3>5. CASE exp' = [exp EXCEPT !.pc = "proxies", !.keys = Origin.keys]
        BY <2>0, <2>1, <3>1, <3>5 DEF Exports
      <3> QED
        BY <3>3, <3>4, <3>5
    <2>5. CASE ListProxies
      BY <2>0, <2>1, <2>2, <2>5, OriginFacts DEF ListProxies, Exports
    <2>6. CASE ListChannels
      BY <2>0, <2>1, <2>2, <2>6, OriginFacts DEF ListChannels, Exports
    <2>7. CASE ListGlobals
      BY <2>0, <2>1, <2>2, <2>7, OriginFacts DEF ListGlobals, Exports
    <2>8. CASE ListRules
      BY <2>0, <2>8 DEF ListRules
    <2>9. CASE ExportFails
      BY <2>0, <2>1, <2>2, <2>9 DEF ExportFails
    <2> QED
      BY <1>4, <2>3, <2>4, <2>5, <2>6, <2>7, <2>8, <2>9 DEF Export
  <1> QED
    BY <1>1, <1>2, <1>3, <1>4 DEF BackupNext

\* A listing has no row twice: it is as long as the table.
LEMMA ListingOnce ==
  ASSUME NEW S, IsFiniteSet(S), NEW s \in Listing(S), NEW a \in DOMAIN s, NEW b \in DOMAIN s, s[a] = s[b]
  PROVE  a = b
  <1> DEFINE n == Cardinality(S)
  <1>1. n \in Nat
    BY FS_CardinalityType
  <1>2. s \in [1..n -> S] /\ { s[i] : i \in DOMAIN s } = S
    BY DEF Listing
  <1>3. IsFiniteSet(1..n) /\ Cardinality(1..n) = n
    BY <1>1, FS_Interval
  <1>4. s \in Surjection(1..n, S)
    BY <1>2 DEF Surjection
  <1>5. s \in Injection(1..n, S)
    BY <1>3, <1>4, FS_Surjection
  <1> QED
    BY <1>2, <1>5 DEF Injection, IsInjective

\* An id names its row when no two rows share one.
LEMMA NameOfRow ==
  ASSUME NEW rows, NEW r \in rows, \A a, b \in rows : a.id = b.id => a = b
  PROVE  NameOf(rows, r.id) = r.name
  <1>1. PICK x \in rows : x.id = r.id /\ NameOf(rows, r.id) = x.name
    BY NameOfFacts
  <1> QED
    BY <1>1

\* The file made of an export that has read instance o tells of o.
LEMMA PayloadTells ==
  ASSUME NEW o \in Instances, Unambiguous(o),
         NEW e \in Exports, e.machines = o.machines, e.keys = o.keys, e.proxies = o.proxies,
         e.channels = o.channels, e.globals = o.globals,
         \A m \in o.machines : \E k \in o.keys : k.id = m.key,
         NEW R \in Finite(Rules),
         \A r : r \in R <=> r \in o.rules /\ \E m \in o.machines : m.id = r.machine,
         NEW f, Yields(e, R, f)
  PROVE  Tells(f, o)
  <1> DEFINE T == { t \in Types : e.channels[t] # None }
  <1>1. PICK ks \in Listing(e.keys), ms \in Listing(e.machines), ps \in Listing(e.proxies),
             ts \in Listing(T), rs \in Listing(R) :
          f = buildBackupPayload(e, ks, ms, ps, ts, rs)
    BY DEF Yields
  <1>2. /\ IsFiniteSet(o.keys) /\ IsFiniteSet(o.machines) /\ IsFiniteSet(o.proxies)
        /\ IsFiniteSet(T) /\ IsFiniteSet(R)
    <2>1. IsFiniteSet(T)
      BY FS_Subset, BackupAssumption DEF BackupAssumption
    <2> QED
      BY <2>1, InstanceParts DEF Finite
  <1> HIDE DEF T
  <1>3. /\ \A i \in DOMAIN ks : ks[i] \in o.keys
        /\ \A x \in o.keys : \E i \in DOMAIN ks : ks[i] = x
    BY <1>2, ListingFacts
  <1>4. /\ \A i \in DOMAIN ms : ms[i] \in o.machines
        /\ \A x \in o.machines : \E i \in DOMAIN ms : ms[i] = x
    BY <1>2, ListingFacts
  <1>5. /\ \A i \in DOMAIN ps : ps[i] \in o.proxies
        /\ \A x \in o.proxies : \E i \in DOMAIN ps : ps[i] = x
        /\ \A a, b \in DOMAIN ps : ps[a] = ps[b] => a = b
    BY <1>2, ListingFacts, ListingOnce
  <1>6. /\ \A i \in DOMAIN ts : ts[i] \in T
        /\ \A x \in T : \E i \in DOMAIN ts : ts[i] = x
    BY <1>2, ListingFacts
  <1>7. /\ \A i \in DOMAIN rs : rs[i] \in R
        /\ \A x \in R : \E i \in DOMAIN rs : rs[i] = x
    BY <1>2, ListingFacts
  <1>8. /\ f.keys = [i \in DOMAIN ks |-> [name |-> ks[i].name, mat |-> ks[i].mat]]
        /\ f.machines = [i \in DOMAIN ms |-> [name |-> ms[i].name, key |-> NameOf(e.keys, ms[i].key)]]
        /\ f.proxies = [i \in DOMAIN ps |-> [name |-> ps[i].name, url |-> ps[i].url]]
        /\ f.channels = [i \in DOMAIN ts |->
                           [type |-> ts[i], cfg |-> buildBackupChannelPayload(e.channels[ts[i]], e.proxies)]]
        /\ f.globals = e.globals
        /\ f.rules = [i \in DOMAIN rs |-> [name |-> NameOf(e.machines, rs[i].machine),
                                           dim |-> rs[i].dim, value |-> rs[i].value]]
    BY <1>1 DEF buildBackupPayload
  <1>9. /\ \A a, b \in o.keys : a.id = b.id => a = b
        /\ \A a, b \in o.machines : a.id = b.id \/ a.name = b.name => a = b
        /\ \A a, b \in o.proxies : a.id = b.id \/ a.name = b.name => a = b
    BY DEF Unambiguous, Distinct
  <1>10. TellsKeys(f, o)
    <2>1. DOMAIN f.keys = DOMAIN ks /\ \A i \in DOMAIN ks : f.keys[i].name = ks[i].name /\ f.keys[i].mat = ks[i].mat
      BY <1>8
    <2> QED
      BY <1>3, <2>1 DEF TellsKeys
  <1>11. TellsMachines(f, o)
    <2>1. ASSUME NEW m \in o.machines, NEW k \in o.keys, k.id = m.key PROVE NameOf(e.keys, m.key) = k.name
      BY <1>9, <2>1, NameOfRow
    <2>2. \A n \in DOMAIN f.machines :
            \E m \in o.machines, k \in o.keys :
              k.id = m.key /\ f.machines[n].name = m.name /\ f.machines[n].key = k.name
      BY <1>4, <1>8, <2>1
    <2>3. \A m \in o.machines : \E n \in DOMAIN f.machines : f.machines[n].name = m.name
      BY <1>4, <1>8
    <2> QED
      BY <2>2, <2>3 DEF TellsMachines
  <1>12. TellsProxies(f, o)
    BY <1>5, <1>8, <1>9 DEF TellsProxies
  <1>13. TellsChannels(f, o)
    <2>1. ASSUME NEW n \in DOMAIN ts
          PROVE  /\ ts[n] \in Types /\ o.channels[ts[n]] # None
                 /\ f.channels[n].type = ts[n]
                 /\ f.channels[n].cfg.on = o.channels[ts[n]].on
                 /\ f.channels[n].cfg.proxy = NameOf(o.proxies, o.channels[ts[n]].proxy)
      BY <1>6, <1>8 DEF T, buildBackupChannelPayload
    <2>2. ASSUME NEW id
          PROVE  \/ NameOf(o.proxies, id) = None /\ \A p \in o.proxies : p.id # id
                 \/ \E p \in o.proxies : p.id = id /\ NameOf(o.proxies, id) = p.name
      <3>1. CASE \E p \in o.proxies : p.id = id
        BY <3>1, NameOfFacts
      <3>2. CASE ~\E p \in o.proxies : p.id = id
        BY <3>2 DEF NameOf
      <3> QED
        BY <3>1, <3>2
    <2>3. DOMAIN f.channels = DOMAIN ts
      BY <1>8
    <2>4. ASSUME NEW t \in Types, o.channels[t] # None PROVE \E n \in DOMAIN ts : f.channels[n].type = t
      BY <1>6, <2>1, <2>4 DEF T
    <2> QED
      BY <2>1, <2>2, <2>3, <2>4 DEF TellsChannels
  <1>14. TellsRules(f, o)
    <2>1. ASSUME NEW m \in o.machines PROVE NameOf(e.machines, m.id) = m.name
      BY <1>9, NameOfRow
    <2>2. /\ DOMAIN f.rules = DOMAIN rs
          /\ \A i \in DOMAIN rs : /\ f.rules[i].name = NameOf(e.machines, rs[i].machine)
                                 /\ f.rules[i].dim = rs[i].dim /\ f.rules[i].value = rs[i].value
      BY <1>8
    <2>3. \A i \in DOMAIN rs : rs[i] \in o.rules /\ \E m \in o.machines : m.id = rs[i].machine
      BY <1>7
    <2>4. \A m \in o.machines, r \in o.rules : r.machine = m.id => \E i \in DOMAIN rs : rs[i] = r
      BY <1>7
    <2> QED
      BY <2>1, <2>2, <2>3, <2>4 DEF TellsRules
  <1> QED
    BY <1>8, <1>10, <1>11, <1>12, <1>13, <1>14 DEF Tells

LEMMA ListRulesTells ==
  ASSUME Shape, ExportTells, ListRules, edited = {}, Unambiguous(Origin)
  PROVE  Tells(file', Origin)
  <1> DEFINE T == { t \in Types : exp.channels[t] # None }
             R == { r \in db.rules : \E m \in exp.machines : m.id = r.machine }
  <1>0. /\ scn \in Scenarios /\ db \in Instances /\ exp \in Exports /\ Origin \in Instances
        /\ exp.pc = "rules"
    BY ShapeParts, OriginFacts DEF ListRules
  <1>1. PICK ks \in List(exp.keys, Newest), ms \in List(exp.machines, Newest),
             ps \in List(exp.proxies, Oldest), ts \in List(T, ByType), rs \in List(R, ByMachine) :
          file' = buildBackupPayload(exp, ks, ms, ps, ts, rs)
    BY DEF ListRules
  <1>2. /\ ks \in Listing(exp.keys) /\ ms \in Listing(exp.machines) /\ ps \in Listing(exp.proxies)
        /\ ts \in Listing(T) /\ rs \in Listing(R)
    BY <1>1, Zenon DEF List, Listing
  <1>3. Yields(exp, R, file')
    BY <1>1, <1>2, Zenon DEF Yields
  <1>4. /\ db = scn.source /\ exp.machines = Origin.machines /\ exp.keys = Origin.keys
        /\ exp.proxies = Origin.proxies /\ exp.channels = Origin.channels /\ exp.globals = Origin.globals
    BY <1>0 DEF ExportTells
  <1>5. \A m \in Origin.machines : \E k \in Origin.keys : k.id = m.key
    BY <1>0, <1>4 DEF Shape, ExportClosed
  <1>6. R \in Finite(Rules)
    BY <1>0, InstanceParts, FiniteSub
  <1>7. \A r : r \in R <=> r \in Origin.rules /\ \E m \in Origin.machines : m.id = r.machine
    BY <1>0, <1>4, OriginFacts
  <1> HIDE DEF T, R
  <1> QED
    BY <1>0, <1>3, <1>4, <1>5, <1>6, <1>7, PayloadTells

LEMMA SameInstance ==
  ASSUME NEW d \in Instances, NEW e \in Instances, d.keys = e.keys, d.machines = e.machines,
         d.proxies = e.proxies, d.channels = e.channels, d.globals = e.globals, d.rules = e.rules
  PROVE  d = e
  BY DEF Instances

\* An import takes the ids of its rows one after the other.
LEMMA NextIdFollows ==
  ASSUME Shape, NEW i \in Imports, Import(i)
  PROVE  /\ nextId' \in {nextId, nextId + 1}
         /\ db'.keys # db.keys \/ db'.machines # db.machines \/ db'.proxies # db.proxies
              => nextId' = nextId + 1
  <1>1. CASE ImportKey(i)
    BY <1>1 DEF ImportKey, Skip, NewKey
  <1>2. CASE ImportMachine(i)
    BY <1>2 DEF ImportMachine, Skip, NewMachine
  <1>3. CASE ImportProxy(i)
    BY <1>3 DEF ImportProxy, Skip
  <1>4. CASE ImportChannel(i)
    BY <1>4, ImportChannelMoves DEF ImportChannel
  <1>5. CASE WriteGlobals(i)
    BY <1>5, WriteGlobalsMoves DEF WriteGlobals
  <1>6. CASE WriteRules(i)
    BY <1>6, WriteRulesMoves, Zenon DEF WriteRules
  <1>7. CASE Refuse(i) \/ ReadKeys(i) \/ ReadMachines(i) \/ ReadProxies(i) \/ ReadChannels(i)
             \/ ReadGlobals(i) \/ ReadRules(i) \/ ImportFails(i)
    BY <1>7 DEF Refuse, ReadKeys, ReadMachines, ReadProxies, ReadChannels, ReadGlobals, ReadRules, ImportFails
  <1> QED
    BY <1>1, <1>2, <1>3, <1>4, <1>5, <1>6, <1>7 DEF Import

LEMMA IdTypes ==
  ASSUME Shape
  PROVE  /\ nextId \in Nat /\ nextId # 0
         /\ \A x \in db.keys \cup db.machines \cup db.proxies : x.id \in Nat /\ x.id # 0
         /\ \A x \in db.keys : x.name \in Names /\ x.mat \in Materials
         /\ \A x \in db.machines : x.name \in Names
         /\ \A x \in db.proxies : x.name \in Names
  BY ShapeParts, InstanceParts DEF Keys, Machines, Proxies, Ids, Trimmed

LEMMA OnceLater ==
  ASSUME Shape, NEW i \in Imports, Import(i), Once(db, nextId), db'.keys = db.keys,
         db'.machines = db.machines, db'.proxies = db.proxies
  PROVE  Once(db', nextId')
  <1>1. nextId' \in {nextId, nextId + 1} /\ nextId \in Nat
    BY NextIdFollows, IdTypes
  <1>2. \A x \in db.keys \cup db.machines \cup db.proxies : x.id < nextId'
    BY <1>1, IdTypes DEF Once
  <1> QED
    BY <1>2 DEF Once

\* A step that changes no table leaves the copies as they are.
LEMMA CopiedStays ==
  ASSUME Shape, NEW i \in Imports, Import(i), NEW o, Copied(db, o), Once(db, nextId), db' = db
  PROVE  Copied(db', o) /\ Once(db', nextId')
  BY OnceLater

LEMMA ReadKeysRemembers ==
  ASSUME Shape, NEW i \in Imports, ReadKeys(i)
  PROVE  db' = db /\ Remembers(job'[i], file, db')
  <1>1. /\ db' = db /\ job'[i].pc = "keys"
        /\ job'[i].keyId = IdByName(db.keys) /\ job'[i].printId = IdByMaterial(db.keys)
    BY ReadKeysMoves
  <1>2. \A k \in db.keys : k.id \in Ids
    BY ShapeParts, InstanceParts DEF Keys
  <1>3. \A n \in Names : IdByName(db.keys)[n] # 0 => \E k \in db.keys : k.id = IdByName(db.keys)[n] /\ k.name = n
    BY <1>2, IdByNameFacts
  <1>4. \A x \in Materials :
          IdByMaterial(db.keys)[x] # 0 => \E k \in db.keys : k.id = IdByMaterial(db.keys)[x] /\ k.mat = x
    BY <1>2, IdByMaterialFacts
  <1> QED
    BY <1>1, <1>3, <1>4 DEF Remembers

\* An imported key is a copy: one whose fingerprint is there already is the copy
\* of the same key, from an attempt before this one.
LEMMA ImportKeyCopies ==
  ASSUME Shape, NEW i \in Imports, ImportKey(i), NEW o \in Instances, Unambiguous(o), Tells(file, o),
         Copied(db, o), Once(db, nextId), Remembers(job[i], file, db)
  PROVE  Copied(db', o) /\ Once(db', nextId') /\ Remembers(job'[i], file, db')
  <1> DEFINE item == file.keys[job[i].pos]
             name == Trim[item.name]
             copied == [id |-> nextId, name |-> name, mat |-> item.mat]
  <1>1. /\ Moves(i) /\ job'[i].pc = "keys"
        /\ job[i].pos \in DOMAIN file.keys
        /\ db'.machines = db.machines /\ db'.proxies = db.proxies /\ db'.channels = db.channels
        /\ db'.globals = db.globals /\ db'.rules = db.rules
    BY ImportKeyMoves, Zenon
  <1>2. \/ job[i].keyId[name] # 0 /\ db'.keys = db.keys /\ KeepsMaps(i)
        \/ /\ job[i].keyId[name] = 0 /\ (\E k \in db.keys : k.mat = item.mat) /\ db'.keys = db.keys
           /\ job'[i].keyId = [job[i].keyId EXCEPT ![name] = job[i].printId[item.mat]]
           /\ job'[i].printId = job[i].printId
        \/ /\ job[i].keyId[name] = 0 /\ ~(\E k \in db.keys : k.mat = item.mat)
           /\ db'.keys = db.keys \cup {copied}
           /\ job'[i].keyId = [job[i].keyId EXCEPT ![name] = nextId]
           /\ job'[i].printId = [job[i].printId EXCEPT ![item.mat] = nextId]
    BY ImportKeyMoves, Zenon
  <1>3. PICK x \in o.keys : item.name = x.name /\ item.mat = x.mat
    BY <1>1 DEF Tells, TellsKeys
  <1>4. file \in Files /\ validateBackupPayload(file)
    BY <1>1, ShapeParts DEF Moves
  <1>5. name \in Names /\ item.mat \in Materials
    BY <1>1, <1>4, KeyItem
  <1>6. /\ nextId \in Nat /\ nextId # 0
        /\ job[i].keyId \in [Names -> Nat] /\ job[i].printId \in [Materials -> Nat]
    BY IdTypes, ShapeParts, JobParts
  <1>7. Import(i)
    BY DEF Import
  <1> HIDE DEF item, name
  <1>8. CASE db'.keys = db.keys
    <2>1. db' = db
      BY <1>1, <1>8, ShapeParts, SameInstance DEF Moves, Shape, BackupTypeOK
    <2>2. Copied(db', o) /\ Once(db', nextId')
      BY <1>7, <2>1, CopiedStays
    <2>3. job[i].printId[item.mat] # 0 =>
            \E k \in db.keys : k.id = job[i].printId[item.mat] /\ k.name = name
      <3> SUFFICES ASSUME job[i].printId[item.mat] # 0
                   PROVE  \E k \in db.keys : k.id = job[i].printId[item.mat] /\ k.name = name
        OBVIOUS
      <3>1. PICK k \in db.keys : k.id = job[i].printId[item.mat] /\ k.mat = item.mat
        BY <1>5 DEF Remembers
      <3>2. PICK y \in o.keys : k.name = Trim[y.name] /\ k.mat = y.mat
        BY DEF Copied, CopiesKeys
      <3>3. y = x
        BY <1>3, <3>1, <3>2 DEF Unambiguous
      <3> QED
        BY <1>3, <3>1, <3>2, <3>3 DEF name
    <2>4. /\ job'[i].printId = job[i].printId
          /\ \A n \in Names : job'[i].keyId[n] # 0 => \E k \in db.keys : k.id = job'[i].keyId[n] /\ k.name = n
      <3>1. CASE KeepsMaps(i)
        BY <3>1 DEF KeepsMaps, Remembers
      <3>2. CASE /\ job'[i].keyId = [job[i].keyId EXCEPT ![name] = job[i].printId[item.mat]]
                 /\ job'[i].printId = job[i].printId
        BY <1>5, <1>6, <2>3, <3>2 DEF Remembers
      <3>3. copied \notin db.keys
        BY <1>6, IdTypes DEF Once
      <3> QED
        BY <1>2, <1>8, <3>1, <3>2, <3>3
    <2> QED
      BY <1>1, <2>1, <2>2, <2>4 DEF Remembers
  <1>9. CASE /\ ~(\E k \in db.keys : k.mat = item.mat)
             /\ db'.keys = db.keys \cup {copied}
             /\ job'[i].keyId = [job[i].keyId EXCEPT ![name] = nextId]
             /\ job'[i].printId = [job[i].printId EXCEPT ![item.mat] = nextId]
    <2>0. copied.id = nextId /\ copied.name = name /\ copied.mat = item.mat /\ \A k \in db.keys : k.id < nextId
      BY DEF Once
    <2> HIDE DEF copied
    <2>1. CopiesKeys(db', o)
      BY <1>3, <1>9, <2>0 DEF Copied, CopiesKeys, name
    <2>2. CopiesMachines(db', o)
      BY <1>1, <1>9 DEF Copied, CopiesMachines
    <2>3. Copied(db', o)
      BY <1>1, <2>1, <2>2 DEF Copied, CopiesProxies, CopiesChannels, CopiesChannel, CopiesGlobals, CopiesRules
    <2>4. nextId' = nextId + 1
      <3>1. db'.keys # db.keys
        BY <1>6, <1>9, <2>0
      <3> QED
        BY <1>7, <3>1, NextIdFollows
    <2>5. \A a, b \in db'.keys : a.id = b.id \/ a.mat = b.mat => a = b
      BY <1>6, <1>9, <2>0, IdTypes DEF Once
    <2>6. \A y \in db'.keys \cup db'.machines \cup db'.proxies : y.id < nextId'
      BY <1>1, <1>6, <1>9, <2>0, <2>4, IdTypes DEF Once
    <2>7. Once(db', nextId')
      BY <1>1, <2>5, <2>6 DEF Once
    <2>8. \A n \in Names : job'[i].keyId[n] # 0 => \E k \in db'.keys : k.id = job'[i].keyId[n] /\ k.name = n
      BY <1>5, <1>6, <1>9, <2>0 DEF Remembers
    <2>9. \A y \in Materials : job'[i].printId[y] # 0 => \E k \in db'.keys : k.id = job'[i].printId[y] /\ k.mat = y
      BY <1>5, <1>6, <1>9, <2>0 DEF Remembers
    <2> QED
      BY <1>1, <2>3, <2>7, <2>8, <2>9 DEF Remembers
  <1> QED
    BY <1>2, <1>8, <1>9

LEMMA ReadMachinesCopies ==
  ASSUME Shape, NEW i \in Imports, ReadMachines(i), Remembers(job[i], file, db)
  PROVE  db' = db /\ Remembers(job'[i], file, db')
  <1>1. /\ db' = db /\ job'[i].pc = "machines"
        /\ job'[i].keyId = job[i].keyId /\ job'[i].printId = job[i].printId
        /\ job'[i].machineId = IdByName(db.machines)
    BY ReadMachinesMoves
  <1>2. \A m \in db.machines : m.id \in Ids /\ m.name \in Names
    BY ShapeParts, InstanceParts DEF Machines, Trimmed
  <1>3. \A m \in db.machines : IdByName(db.machines)[m.name] # 0
    BY <1>2, IdByNameFacts
  <1> QED
    BY <1>1, <1>3 DEF Remembers

\* An imported machine is a copy: the import knows the name of its key, and the
\* key of this name is the copy of the machine's key.
LEMMA ImportMachineCopies ==
  ASSUME Shape, NEW i \in Imports, ImportMachine(i), NEW o \in Instances, Unambiguous(o),
         Tells(file, o), Copied(db, o), Once(db, nextId), Remembers(job[i], file, db)
  PROVE  Copied(db', o) /\ Once(db', nextId') /\ Remembers(job'[i], file, db')
  <1> DEFINE item == file.machines[job[i].pos]
             key == job[i].keyId[Trim[item.key]]
             copied == [id |-> nextId, name |-> item.name, key |-> key]
  <1>1. /\ Moves(i) /\ job'[i].pc = "machines" /\ job[i].pc = "machines"
        /\ job[i].pos \in DOMAIN file.machines
        /\ job'[i].keyId = job[i].keyId /\ job'[i].printId = job[i].printId
        /\ db'.keys = db.keys /\ db'.proxies = db.proxies /\ db'.channels = db.channels
        /\ db'.globals = db.globals /\ db'.rules = db.rules
    BY ImportMachineMoves, Zenon
  <1>2. \/ db'.machines = db.machines /\ job'[i].machineId = job[i].machineId
        \/ /\ job[i].machineId[item.name] = 0 /\ key # 0
           /\ db'.machines = db.machines \cup {copied}
           /\ job'[i].machineId = [job[i].machineId EXCEPT ![item.name] = nextId]
    BY ImportMachineMoves, Zenon
  <1>3. PICK x \in o.machines, y \in o.keys : y.id = x.key /\ item.name = x.name /\ item.key = y.name
    BY <1>1 DEF Tells, TellsMachines
  <1>4. file \in Files /\ FileClosed /\ validateBackupPayload(file)
    BY <1>1, ShapeParts DEF Moves
  <1>5. item.name \in Names /\ Trim[item.key] \in Names
    BY <1>1, <1>4, MachineItem
  <1>6. nextId \in Nat /\ nextId # 0 /\ job[i].machineId \in [Names -> Nat]
    BY IdTypes, ShapeParts, JobParts
  <1>7. Import(i)
    BY DEF Import
  <1> HIDE DEF item
  <1>8. CASE db'.machines = db.machines /\ job'[i].machineId = job[i].machineId
    <2>1. db' = db
      BY <1>1, <1>8, ShapeParts, SameInstance DEF Moves, Shape, BackupTypeOK
    <2>2. Copied(db', o) /\ Once(db', nextId')
      BY <1>7, <2>1, CopiedStays
    <2> QED
      BY <1>1, <1>8, <2>1, <2>2 DEF Remembers
  <1>9. CASE /\ job[i].machineId[item.name] = 0 /\ key # 0
             /\ db'.machines = db.machines \cup {copied}
             /\ job'[i].machineId = [job[i].machineId EXCEPT ![item.name] = nextId]
    <2>0. /\ copied.id = nextId /\ copied.name = item.name /\ copied.key = key
          /\ \A m \in db.machines : m.id < nextId
      BY DEF Once
    <2>1. \E k \in db.keys : k.id = key /\ k.mat = y.mat
      <3>1. PICK k \in db.keys : k.id = key /\ k.name = Trim[item.key]
        BY <1>5, <1>9 DEF Remembers
      <3>2. PICK z \in o.keys : k.name = Trim[z.name] /\ k.mat = z.mat
        BY DEF Copied, CopiesKeys
      <3>3. z = y
        BY <1>3, <3>1, <3>2 DEF Unambiguous
      <3> QED
        BY <3>1, <3>2, <3>3
    <2> HIDE DEF copied, key
    <2>2. CopiesMachines(db', o)
      BY <1>1, <1>3, <1>9, <2>0, <2>1 DEF Copied, CopiesMachines
    <2>3. CopiesRules(db', o)
      BY <1>1, <1>9 DEF Copied, CopiesRules
    <2>4. Copied(db', o)
      BY <1>1, <2>2, <2>3 DEF Copied, CopiesKeys, CopiesProxies, CopiesChannels, CopiesChannel, CopiesGlobals
    <2>5. nextId' = nextId + 1
      <3>1. db'.machines # db.machines
        BY <1>6, <1>9, <2>0
      <3> QED
        BY <1>7, <3>1, NextIdFollows
    <2>6. \A m \in db.machines : m.name # item.name
      BY <1>1, <1>9 DEF Remembers
    <2>7. Distinct(db'.machines)
      BY <1>6, <1>9, <2>0, <2>6, IdTypes DEF Once, Distinct
    <2>8. \A r \in db'.keys \cup db'.machines \cup db'.proxies : r.id < nextId'
      BY <1>1, <1>6, <1>9, <2>0, <2>5, IdTypes DEF Once
    <2>9. Once(db', nextId')
      BY <1>1, <2>7, <2>8 DEF Once
    <2>10. \A m \in db'.machines : job'[i].machineId[m.name] # 0
      BY <1>1, <1>5, <1>6, <1>9, <2>0, IdTypes DEF Remembers
    <2> QED
      BY <1>1, <2>4, <2>9, <2>10 DEF Remembers
  <1> QED
    BY <1>2, <1>8, <1>9

LEMMA ReadProxiesCopies ==
  ASSUME Shape, NEW i \in Imports, ReadProxies(i), Once(db, nextId), Remembers(job[i], file, db)
  PROVE  db' = db /\ Remembers(job'[i], file, db')
  <1>1. /\ db' = db /\ job[i].pc = "machines" /\ job'[i].pc = "proxies"
        /\ job'[i].keyId = job[i].keyId /\ job'[i].printId = job[i].printId
        /\ job'[i].machineId = job[i].machineId /\ job'[i].proxyId = IdByName(db.proxies)
        /\ job'[i].existing = { p.name : p \in db.proxies }
    BY ReadProxiesMoves
  <1>2. \A p \in db.proxies : p.id \in Ids /\ p.name \in Names
    BY ShapeParts, InstanceParts DEF Proxies, Trimmed
  <1>3. \A n \in Names :
          IdByName(db.proxies)[n] # 0 => \E p \in db.proxies : p.id = IdByName(db.proxies)[n] /\ p.name = n
    BY <1>2, IdByNameFacts
  <1>4. \A p \in db.proxies : IdByName(db.proxies)[p.name] = p.id
    <2> SUFFICES ASSUME NEW p \in db.proxies PROVE IdByName(db.proxies)[p.name] = p.id
      OBVIOUS
    <2>1. IdByName(db.proxies)[p.name] # 0
      BY <1>2, IdByNameFacts
    <2>2. PICK q \in db.proxies : q.id = IdByName(db.proxies)[p.name] /\ q.name = p.name
      BY <1>2, <1>3, <2>1
    <2> QED
      BY <2>2 DEF Once, Distinct
  <1>5. \A m \in db.machines : job[i].machineId[m.name] # 0
    BY <1>1 DEF Remembers
  <1> QED
    BY <1>1, <1>3, <1>4, <1>5 DEF Remembers

\* An imported proxy is a copy, and the first of its name: it was not there when
\* the names were listed, and the file has the name once.
LEMMA ImportProxyCopies ==
  ASSUME Shape, NEW i \in Imports, ImportProxy(i), NEW o \in Instances, Unambiguous(o),
         Tells(file, o), Copied(db, o), Once(db, nextId), Remembers(job[i], file, db)
  PROVE  Copied(db', o) /\ Once(db', nextId') /\ Remembers(job'[i], file, db')
  <1> DEFINE n == job[i].pos
             item == file.proxies[n]
             copied == [id |-> nextId, name |-> item.name, url |-> item.url]
  <1>1. /\ Moves(i) /\ job'[i].pc = "proxies" /\ job[i].pc = "proxies"
        /\ n \in DOMAIN file.proxies /\ job'[i].pos = n + 1
        /\ job'[i].keyId = job[i].keyId /\ job'[i].printId = job[i].printId
        /\ job'[i].machineId = job[i].machineId /\ job'[i].existing = job[i].existing
        /\ db'.keys = db.keys /\ db'.machines = db.machines /\ db'.channels = db.channels
        /\ db'.globals = db.globals /\ db'.rules = db.rules
    BY ImportProxyMoves, Zenon
  <1>2. \/ db'.proxies = db.proxies /\ job'[i].proxyId = job[i].proxyId
        \/ /\ item.name \notin job[i].existing
           /\ db'.proxies = db.proxies \cup {copied}
           /\ job'[i].proxyId = [job[i].proxyId EXCEPT ![item.name] = IF @ = 0 THEN nextId ELSE @]
    BY ImportProxyMoves, Zenon
  <1>3. PICK x \in o.proxies : item.name = x.name /\ item.url = x.url
    BY <1>1 DEF Tells, TellsProxies
  <1>4. item.name \in Names
    BY <1>1, ShapeParts, ProxyItem
  <1>5. /\ nextId \in Nat /\ nextId # 0 /\ job[i].proxyId \in [Names -> Nat]
        /\ n \in Nat /\ DOMAIN file.proxies \subseteq Nat
    <2>1. DOMAIN file.proxies \subseteq Nat
      BY ShapeParts, SectionTypes
    <2> QED
      BY <2>1, IdTypes, ShapeParts, JobParts DEF Ids
  <1>6. Import(i)
    BY DEF Import
  <1>7. \A m \in db.machines : job[i].machineId[m.name] # 0
    BY <1>1 DEF Remembers
  <1>8. /\ \A p \in db.proxies : job[i].proxyId[p.name] = p.id
        /\ \A a \in Names : job[i].proxyId[a] # 0 => \E p \in db.proxies : p.id = job[i].proxyId[a] /\ p.name = a
        /\ \A p \in db.proxies :
             p.name \in job[i].existing \/ \E a \in DOMAIN file.proxies : a < n /\ file.proxies[a].name = p.name
    BY <1>1 DEF Remembers
  <1>9. \A a \in DOMAIN file.proxies : a < n => a < n + 1
    BY <1>5
  <1> HIDE DEF item
  <1>10. CASE db'.proxies = db.proxies /\ job'[i].proxyId = job[i].proxyId
    <2>1. db' = db
      BY <1>1, <1>10, ShapeParts, SameInstance DEF Moves, Shape, BackupTypeOK
    <2>2. Copied(db', o) /\ Once(db', nextId')
      BY <1>6, <2>1, CopiedStays
    <2>3. \A p \in db.proxies :
            p.name \in job[i].existing \/ \E a \in DOMAIN file.proxies : a < n + 1 /\ file.proxies[a].name = p.name
      BY <1>8, <1>9
    <2> QED
      BY <1>1, <1>7, <1>8, <1>10, <2>1, <2>2, <2>3 DEF Remembers
  <1>11. CASE /\ item.name \notin job[i].existing
              /\ db'.proxies = db.proxies \cup {copied}
              /\ job'[i].proxyId = [job[i].proxyId EXCEPT ![item.name] = IF @ = 0 THEN nextId ELSE @]
    <2>0. /\ copied.id = nextId /\ copied.name = item.name /\ copied.url = item.url
          /\ \A p \in db.proxies : p.id < nextId
      BY DEF Once
    <2> HIDE DEF copied
    <2>1. \A p \in db.proxies : p.name # item.name
      <3> SUFFICES ASSUME NEW p \in db.proxies, p.name = item.name PROVE FALSE
        OBVIOUS
      <3>1. PICK a \in DOMAIN file.proxies : a < n /\ file.proxies[a].name = p.name
        BY <1>8, <1>11
      <3>2. a = n
        BY <1>1, <3>1 DEF Tells, TellsProxies, item
      <3> QED
        BY <1>5, <3>1, <3>2
    <2>2. job[i].proxyId[item.name] = 0
      BY <1>4, <1>8, <2>1
    <2>3. job'[i].proxyId = [job[i].proxyId EXCEPT ![item.name] = nextId]
      BY <1>11, <2>2
    <2>4. CopiesProxies(db', o)
      BY <1>3, <1>11, <2>0 DEF Copied, CopiesProxies
    <2>5. CopiesChannels(db', o)
      BY <1>1, <1>11 DEF Copied, CopiesChannels, CopiesChannel
    <2>6. Copied(db', o)
      BY <1>1, <2>4, <2>5 DEF Copied, CopiesKeys, CopiesMachines, CopiesGlobals, CopiesRules
    <2>7. nextId' = nextId + 1
      <3>1. db'.proxies # db.proxies
        BY <1>5, <1>11, <2>0
      <3> QED
        BY <1>6, <3>1, NextIdFollows
    <2>8. Distinct(db'.proxies)
      BY <1>5, <1>11, <2>0, <2>1, IdTypes DEF Once, Distinct
    <2>9. \A r \in db'.keys \cup db'.machines \cup db'.proxies : r.id < nextId'
      BY <1>1, <1>5, <1>11, <2>0, <2>7, IdTypes DEF Once
    <2>10. Once(db', nextId')
      BY <1>1, <2>8, <2>9 DEF Once
    <2>11. /\ \A p \in db'.proxies : job'[i].proxyId[p.name] = p.id
           /\ \A a \in Names : job'[i].proxyId[a] # 0 =>
                \E p \in db'.proxies : p.id = job'[i].proxyId[a] /\ p.name = a
      BY <1>4, <1>5, <1>8, <1>11, <2>0, <2>1, <2>3, IdTypes
    <2>12. \A p \in db'.proxies :
             p.name \in job[i].existing \/ \E a \in DOMAIN file.proxies : a < n + 1 /\ file.proxies[a].name = p.name
      <3>1. n < n + 1
        BY <1>5
      <3> QED
        BY <1>1, <1>8, <1>9, <1>11, <2>0, <3>1 DEF item
    <2> QED
      BY <1>1, <1>7, <2>6, <2>10, <2>11, <2>12 DEF Remembers
  <1> QED
    BY <1>2, <1>10, <1>11

\* The next queries of an import neither write nor forget.
LEMMA LaterReadsCopies ==
  ASSUME Shape, NEW i \in Imports, ReadChannels(i) \/ ReadGlobals(i) \/ ReadRules(i),
         Remembers(job[i], file, db)
  PROVE  db' = db /\ Remembers(job'[i], file, db')
  <1>1. CASE ReadChannels(i)
    <2>1. db' = db /\ KeepsMaps(i) /\ job[i].pc = "proxies" /\ job'[i].pc = "channels"
      BY <1>1, ReadChannelsMoves
    <2> QED
      BY <2>1 DEF Remembers, KeepsMaps
  <1>2. CASE ReadGlobals(i)
    <2>1. db' = db /\ KeepsMaps(i) /\ job[i].pc = "channels" /\ job'[i].pc = "globals"
      BY <1>2, ReadGlobalsMoves
    <2> QED
      BY <2>1 DEF Remembers, KeepsMaps
  <1>3. CASE ReadRules(i)
    <2>1. db' = db /\ KeepsMaps(i) /\ job[i].pc = "listRules" /\ job'[i].pc = "rules"
      BY <1>3, ReadRulesMoves
    <2> QED
      BY <2>1 DEF Remembers, KeepsMaps
  <1> QED
    BY <1>1, <1>2, <1>3

\* An imported channel uses the copy of the proxy the original uses: all proxies
\* of the file are there by now.
LEMMA ImportChannelCopies ==
  ASSUME Shape, NEW i \in Imports, ImportChannel(i), NEW o \in Instances, Unambiguous(o), Tells(file, o),
         Copied(db, o), Once(db, nextId), Remembers(job[i], file, db), Progress(i)
  PROVE  Copied(db', o) /\ Once(db', nextId') /\ Remembers(job'[i], file, db')
  <1> DEFINE item == file.channels[job[i].pos]
             b == o.channels[item.type]
             copied == applyBackupChannelProxy(item.cfg, job[i].proxyId)
  <1>1. /\ KeepsMaps(i) /\ job'[i].pc = "channels" /\ job[i].pc = "channels"
        /\ job[i].pos \in DOMAIN file.channels
        /\ db'.keys = db.keys /\ db'.machines = db.machines /\ db'.proxies = db.proxies
        /\ db'.globals = db.globals /\ db'.rules = db.rules
    BY ImportChannelMoves
  <1>2. \/ db'.channels = db.channels
        \/ db'.channels = [db.channels EXCEPT ![item.type] = IF @ = None THEN copied ELSE @]
    BY ImportChannelMoves
  <1>3. /\ b # None /\ item.cfg.on = b.on
        /\ \/ item.cfg.proxy = None /\ \A p \in o.proxies : p.id # b.proxy
           \/ \E p \in o.proxies : p.id = b.proxy /\ item.cfg.proxy = p.name
    BY <1>1 DEF Tells, TellsChannels
  <1>4. \A p \in o.proxies : p.name # None /\ p.name \in Names /\ Trim[p.name] = p.name
    <2>1. \A p \in o.proxies : p.name \in Trimmed
      BY InstanceParts DEF Proxies
    <2>2. None \notin Names
      BY BackupAssumption DEF BackupAssumption
    <2> QED
      BY <2>1, <2>2 DEF Trimmed
  <1>5. db.channels \in Channels
    BY ShapeParts, InstanceParts
  <1>6. \A n \in DOMAIN file.proxies : \E p \in db.proxies : p.name = file.proxies[n].name
    <2>1. Past(i, "proxies") = DOMAIN file.proxies
      BY <1>1, WholeIsPast DEF Whole, Later
    <2> QED
      BY <2>1 DEF Progress, ProxiesSoFar
  <1>7. /\ \A m \in db.machines : job[i].machineId[m.name] # 0
        /\ \A p \in db.proxies : job[i].proxyId[p.name] = p.id
        /\ \A n \in Names : job[i].proxyId[n] # 0 => \E p \in db.proxies : p.id = job[i].proxyId[n] /\ p.name = n
    BY <1>1 DEF Remembers
  <1> HIDE DEF item, b
  <1>8. CopiesChannel(copied, b, db, o)
    <2>1. copied.on = item.cfg.on
      BY DEF applyBackupChannelProxy
    <2>2. copied.proxy = IF item.cfg.proxy = None THEN 0 ELSE job[i].proxyId[Trim[item.cfg.proxy]]
      BY DEF applyBackupChannelProxy
    <2> HIDE DEF copied
    <2>3. CASE item.cfg.proxy = None
      BY <1>3, <1>4, <2>1, <2>2, <2>3 DEF CopiesChannel
    <2>4. CASE item.cfg.proxy # None
      <3>1. PICK x \in o.proxies : x.id = b.proxy /\ item.cfg.proxy = x.name
        BY <1>3, <2>4
      <3>2. PICK n \in DOMAIN file.proxies : file.proxies[n].name = x.name
        BY DEF Tells, TellsProxies
      <3>3. PICK p \in db.proxies : p.name = x.name
        BY <1>6, <3>2
      <3>4. copied.proxy = p.id
        BY <1>4, <1>7, <2>2, <2>4, <3>1, <3>3
      <3>5. PICK y \in o.proxies : p.name = y.name /\ p.url = y.url
        BY DEF Copied, CopiesProxies
      <3>6. y = x
        BY <3>3, <3>5 DEF Unambiguous, Distinct
      <3> QED
        BY <1>3, <2>1, <3>1, <3>3, <3>4, <3>5, <3>6 DEF CopiesChannel
    <2> QED
      BY <2>3, <2>4
  <1> HIDE DEF copied
  <1>9. \A t \in Types :
          db'.channels[t] = db.channels[t] \/ (t = item.type /\ db'.channels[t] = copied)
    BY <1>2, <1>5 DEF Channels
  <1>10. CopiesChannels(db', o)
    <2> SUFFICES ASSUME NEW t \in Types, db'.channels[t] # None
                 PROVE  CopiesChannel(db'.channels[t], o.channels[t], db', o)
      BY DEF CopiesChannels
    <2>1. CopiesChannel(db'.channels[t], o.channels[t], db, o)
      BY <1>8, <1>9 DEF Copied, CopiesChannels, b
    <2> QED
      BY <1>1, <2>1 DEF CopiesChannel
  <1>11. Copied(db', o)
    BY <1>1, <1>10 DEF Copied, CopiesKeys, CopiesMachines, CopiesProxies, CopiesGlobals, CopiesRules
  <1>12. Once(db', nextId')
    BY <1>1, OnceLater DEF Import
  <1>13. Remembers(job'[i], file, db')
    <2>1. /\ job'[i].keyId = job[i].keyId /\ job'[i].printId = job[i].printId
          /\ job'[i].machineId = job[i].machineId /\ job'[i].proxyId = job[i].proxyId
      BY <1>1 DEF KeepsMaps
    <2> QED
      BY <1>1, <1>7, <2>1 DEF Remembers
  <1> QED
    BY <1>11, <1>12, <1>13

LEMMA WriteGlobalsCopies ==
  ASSUME Shape, NEW i \in Imports, WriteGlobals(i), NEW o, Tells(file, o),
         Copied(db, o), Once(db, nextId), Remembers(job[i], file, db)
  PROVE  Copied(db', o) /\ Once(db', nextId') /\ Remembers(job'[i], file, db')
  <1>1. /\ KeepsMaps(i) /\ job[i].pc = "globals" /\ job'[i].pc = "listRules"
        /\ db'.keys = db.keys /\ db'.machines = db.machines /\ db'.proxies = db.proxies
        /\ db'.channels = db.channels /\ db'.rules = db.rules
        /\ db'.globals = [d \in Dims |-> IF d \in job[i].have \/ db.globals[d] # None
                                         THEN db.globals[d] ELSE file.globals[d]]
    BY WriteGlobalsMoves
  <1>2. CopiesGlobals(db', o)
    BY <1>1 DEF Copied, CopiesGlobals, Tells
  <1>3. Copied(db', o)
    BY <1>1, <1>2 DEF Copied, CopiesKeys, CopiesMachines, CopiesProxies, CopiesChannels, CopiesChannel, CopiesRules
  <1>4. Once(db', nextId')
    BY <1>1, OnceLater DEF Import
  <1>5. Remembers(job'[i], file, db')
    BY <1>1 DEF Remembers, KeepsMaps
  <1> QED
    BY <1>3, <1>4, <1>5

\* An imported rule is for the machine of the name the file has it under.
LEMMA WriteRulesCopies ==
  ASSUME Shape, NEW i \in Imports, WriteRules(i), NEW o, Unambiguous(o), Tells(file, o),
         Copied(db, o), Once(db, nextId), Points(job[i], db)
  PROVE  Copied(db', o) /\ Once(db', nextId')
  <1>1. /\ db'.keys = db.keys /\ db'.machines = db.machines /\ db'.proxies = db.proxies
        /\ db'.channels = db.channels /\ db'.globals = db.globals
        /\ db'.rules = db.rules \cup Inserted(i)
    BY WriteRulesMoves
  <1>2. ASSUME NEW r \in Inserted(i)
        PROVE  \E m \in db.machines, x \in o.machines, s \in o.rules :
                 m.id = r.machine /\ m.name = x.name /\ s.machine = x.id /\ s.dim = r.dim /\ s.value = r.value
    <2>1. PICK n \in Firsts(i) :
            r = [machine |-> IdOfRule(i, n), dim |-> file.rules[n].dim, value |-> file.rules[n].value]
      BY DEF Inserted, NewRules
    <2>2. n \in DOMAIN file.rules /\ IdOfRule(i, n) # 0
      BY DEF Firsts
    <2>3. file.rules[n].name \in Names
      BY <2>2, ShapeParts, RuleItem
    <2>4. PICK m \in db.machines : m.id = IdOfRule(i, n) /\ m.name = file.rules[n].name
      BY <2>2, <2>3 DEF Points, IdOfRule
    <2>5. PICK x \in o.machines, s \in o.rules :
            /\ file.rules[n].name = x.name /\ s.machine = x.id
            /\ file.rules[n].dim = s.dim /\ file.rules[n].value = s.value
      BY <2>2 DEF Tells, TellsRules
    <2> QED
      BY <2>1, <2>4, <2>5
  <1>3. CopiesRules(db', o)
    BY <1>1, <1>2 DEF Copied, CopiesRules
  <1>4. Copied(db', o)
    BY <1>1, <1>3 DEF Copied, CopiesKeys, CopiesMachines, CopiesProxies, CopiesChannels, CopiesChannel, CopiesGlobals
  <1> QED
    BY <1>1, <1>4, OnceLater DEF Import

\* Whatever an import does, what it has written are copies.
LEMMA ImportCopies ==
  ASSUME Shape, NEW i \in Imports, Import(i), NEW o \in Instances, Unambiguous(o), Tells(file, o),
         Copied(db, o), Once(db, nextId), Points(job[i], db),
         Under(i) => Progress(i) /\ Remembers(job[i], file, db)
  PROVE  Copied(db', o) /\ Once(db', nextId') /\ (Under(i)' => Remembers(job'[i], file, db'))
  <1>1. CASE Refuse(i)
    BY <1>1, RefuseFields, CopiedStays, NewJobType DEF JobStates, Under
  <1>2. CASE ImportFails(i)
    <2>1. db' = db /\ job'[i] = Ended("failed")
      BY <1>2, ImportFailsMoves
    <2> QED
      BY <2>1, CopiedStays, NewJobType DEF JobStates, Under
  <1>3. CASE ReadKeys(i)
    BY <1>3, ReadKeysRemembers, CopiedStays
  <1>4. CASE ImportKey(i)
    <2>1. Under(i)
      BY <1>4, ImportKeyMoves, Zenon DEF Under
    <2> QED
      BY <1>4, <2>1, ImportKeyCopies
  <1>5. CASE ImportMachine(i)
    <2>1. Under(i)
      BY <1>5, ImportMachineMoves DEF Under
    <2> QED
      BY <1>5, <2>1, ImportMachineCopies
  <1>6. CASE ImportProxy(i)
    <2>1. Under(i)
      BY <1>6, ImportProxyMoves DEF Under
    <2> QED
      BY <1>6, <2>1, ImportProxyCopies
  <1>7. CASE ImportChannel(i)
    <2>1. Under(i)
      BY <1>7, ImportChannelMoves DEF Under
    <2> QED
      BY <1>7, <2>1, ImportChannelCopies
  <1>8. CASE WriteGlobals(i)
    <2>1. Under(i)
      BY <1>8, WriteGlobalsMoves DEF Under
    <2> QED
      BY <1>8, <2>1, WriteGlobalsCopies
  <1>9. CASE WriteRules(i)
    <2>1. job'[i] = Ended("ok")
      BY <1>9, WriteRulesMoves
    <2> QED
      BY <1>9, <2>1, WriteRulesCopies, NewJobType DEF JobStates, Under
  <1>10. CASE ReadMachines(i) \/ ReadProxies(i) \/ ReadChannels(i) \/ ReadGlobals(i) \/ ReadRules(i)
    <2>1. Under(i)
      BY <1>10, ReadMachinesMoves, ReadProxiesMoves, ReadChannelsMoves, ReadGlobalsMoves, ReadRulesMoves
         DEF Under
    <2>2. db' = db /\ Remembers(job'[i], file, db')
      BY <1>10, <2>1, ReadMachinesCopies, ReadProxiesCopies, LaterReadsCopies
    <2> QED
      BY <2>2, CopiedStays
  <1> QED
    BY <1>1, <1>2, <1>3, <1>4, <1>5, <1>6, <1>7, <1>8, <1>9, <1>10 DEF Import

LEMMA RestorableStays ==
  ASSUME scn' = scn
  PROVE  Restorable' <=> Restorable
  BY OriginStays DEF Restorable

LEMMA NothingIn ==
  ASSUME NEW d, IdsIn(d) = {}
  PROVE  d.keys = {} /\ d.machines = {} /\ d.proxies = {} /\ d.rules = {}
  <1>1. \A x \in d.keys \cup d.machines \cup d.proxies : x.id \in IdsIn(d)
    BY DEF IdsIn
  <1>2. \A r \in d.rules : r.machine \in IdsIn(d)
    BY DEF IdsIn
  <1> QED
    BY <1>1, <1>2

LEMMA RestoreInit == ASSUME BackupInit PROVE RestoreInv
  BY NewExportType DEF BackupInit, RestoreInv, Undisturbed

\* When the export is through, the file tells of the original, and the target has
\* nothing in it.
LEMMA ExportRestores ==
  ASSUME Shape, ExportTells, Export
  PROVE  RestoreInv'
  <1> SUFFICES ASSUME NEW i \in Imports, Undisturbed(i)'
               PROVE  /\ Tells(file', Origin') /\ Copied(db', Origin') /\ Once(db', nextId')
                      /\ ~Under(i)'
    BY DEF RestoreInv
  <1>1. exp'.pc = "done" /\ edited' = {} /\ Restorable' /\ IdsIn(scn'.target) = {}
    BY DEF Undisturbed
  <1>2. ListRules
    BY <1>1, ExportEnds
  <1>3. scn' = scn /\ db' = scn.target /\ edited = {} /\ UNCHANGED job
    BY <1>1, <1>2 DEF ListRules, bounds
  <1>4. Origin' = Origin /\ Restorable
    BY <1>1, <1>3, OriginStays, RestorableStays
  <1>5. Tells(file', Origin)
    BY <1>2, <1>3, <1>4, ListRulesTells DEF Restorable
  <1>6. /\ db'.keys = {} /\ db'.machines = {} /\ db'.proxies = {} /\ db'.rules = {}
        /\ \A t \in Types : db'.channels[t] = None
        /\ \A d \in Dims : db'.globals[d] = None
    BY <1>1, <1>3, <1>4, NothingIn DEF Restorable
  <1>7. Copied(db', Origin)
    BY <1>6 DEF Copied, CopiesKeys, CopiesMachines, CopiesProxies, CopiesChannels, CopiesGlobals, CopiesRules
  <1>8. Once(db', nextId')
    BY <1>6 DEF Once, Distinct
  <1>9. job'[i].pc \in {"idle", "none"}
    <2>1. job'[i] \in {NewJob, Ended("none")}
      BY <1>2, <1>3 DEF Shape, Gate, ListRules
    <2> QED
      BY <2>1, NewJobType DEF JobStates
  <1> QED
    BY <1>4, <1>5, <1>7, <1>8, <1>9 DEF Under

LEMMA ImportRestores ==
  ASSUME Shape, PointsInv, ProgressInv, RestoreInv, NEW k \in Imports, Import(k)
  PROVE  RestoreInv'
  <1> SUFFICES ASSUME NEW i \in Imports, Undisturbed(i)'
               PROVE  /\ Tells(file', Origin') /\ Copied(db', Origin') /\ Once(db', nextId')
                      /\ (Under(i)' => Remembers(job'[i], file', db'))
    BY DEF RestoreInv
  <1>1. /\ exp.pc = "done" /\ exp' = exp /\ scn' = scn /\ file' = file /\ edited' = edited
        /\ \A x \in Imports : x # k => job'[x] = job[x]
    BY ImportIsAfter, ImportFrame
  <1>2. Alone(i)' /\ edited = {} /\ Restorable /\ IdsIn(scn.target) = {}
    BY <1>1, RestorableStays DEF Undisturbed
  <1>3. k = i
    BY <1>2, ImportPc DEF Alone
  <1>4. Alone(i)
    BY <1>1, <1>2, <1>3 DEF Alone
  <1>5. Undisturbed(i)
    BY <1>1, <1>2, <1>4 DEF Undisturbed
  <1>6. /\ Tells(file, Origin) /\ Copied(db, Origin) /\ Once(db, nextId)
        /\ Under(i) => Remembers(job[i], file, db)
    BY <1>5 DEF RestoreInv
  <1>7. (Under(i) => Progress(i)) /\ Points(job[i], db)
    BY <1>1, <1>2, <1>4 DEF ProgressInv, PointsInv
  <1>8. Origin \in Instances /\ Unambiguous(Origin) /\ Origin' = Origin
    BY <1>1, <1>2, ShapeParts, OriginFacts, OriginStays DEF Restorable
  <1>9. Copied(db', Origin) /\ Once(db', nextId') /\ (Under(i)' => Remembers(job'[i], file, db'))
    BY <1>3, <1>6, <1>7, <1>8, ImportCopies
  <1> QED
    BY <1>1, <1>6, <1>8, <1>9

LEMMA RestoreStep ==
  ASSUME Shape, ExportTells, PointsInv, ProgressInv, RestoreInv, [BackupNext]_backupVars
  PROVE  RestoreInv'
  <1>1. CASE UNCHANGED backupVars
    <2> SUFFICES ASSUME NEW i \in Imports, Undisturbed(i)'
                 PROVE  /\ Tells(file', Origin') /\ Copied(db', Origin') /\ Once(db', nextId')
                        /\ (Under(i)' => Remembers(job'[i], file', db'))
      BY DEF RestoreInv
    <2>1. /\ scn' = scn /\ exp' = exp /\ edited' = edited /\ job' = job
          /\ file' = file /\ db' = db /\ nextId' = nextId
      BY <1>1 DEF backupVars
    <2>2. Undisturbed(i) /\ Origin' = Origin /\ (Under(i)' <=> Under(i))
      BY <2>1, RestorableStays, OriginStays DEF Undisturbed, Alone, Under
    <2> QED
      BY <2>1, <2>2 DEF RestoreInv
  <1>2. CASE Export
    BY <1>2, ExportRestores
  <1>3. CASE \E i \in Imports : Import(i)
    BY <1>3, ImportRestores
  <1>4. CASE Others
    BY <1>4, OthersEdit DEF RestoreInv, Undisturbed
  <1> QED
    BY <1>1, <1>2, <1>3, <1>4 DEF BackupNext

\* An import into an empty instance that is answered 200 restores what was asked
\* for, machine by machine with its key and its rules, however many attempts
\* failed half way before it, and creates nothing twice: for every source whose
\* rows their names, fingerprints and dimensions tell apart, and every target
\* without channels and global rules.
THEOREM BackupRoundTrip == BackupSpec => [](Restorable => RoundTrip)
  <1> DEFINE Inv == Shape /\ ExportTells /\ PointsInv /\ ProgressInv /\ RestoreInv
  <1>1. BackupInit => Inv
    BY ShapeInit, ExportTellsInit, PointsInit, ProgressInit, RestoreInit
  <1>2. Inv /\ [BackupNext]_backupVars => Inv'
    BY ShapeStep, ExportTellsStep, PointsStep, ProgressStep, RestoreStep
  <1>3. Inv => (Restorable => RoundTrip)
    <2> SUFFICES ASSUME Inv, Restorable, NEW i \in Imports, job[i].pc = "ok", Alone(i),
                        IdsIn(scn.target) = {}, edited = {}
                 PROVE  /\ View(db) = View(Origin)
                        /\ Cardinality(db.machines) = Cardinality(Origin.machines)
                        /\ Cardinality(db.proxies) = Cardinality(Origin.proxies)
      BY DEF RoundTrip
    <2>1. exp.pc = "done" /\ validateBackupPayload(file)
      BY NewJobType DEF JobStates, Shape, Gate
    <2>2. Complete
      BY <2>1 DEF ProgressInv
    <2>3. Tells(file, Origin) /\ Copied(db, Origin) /\ Once(db, nextId)
      BY <2>1 DEF RestoreInv, Undisturbed
    <2>4. Origin \in Instances /\ Unambiguous(Origin) /\ db \in Instances
      BY ShapeParts, OriginFacts DEF Restorable
    <2>5. HasAll(db, Origin)
      BY <2>1, <2>2, <2>3, <2>4, CompleteHasAll
    <2> QED
      BY <2>3, <2>4, <2>5, CopiesAreTheSame
  <1> QED
    BY <1>1, <1>2, <1>3, PTL DEF BackupSpec

=============================================================================
