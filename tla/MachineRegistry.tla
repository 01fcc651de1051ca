--------------------------- MODULE MachineRegistry ---------------------------
(***************************************************************************)
(* SSH keys and machines as the administration API edits them:             *)
(* internal/service/ssh_key_service.go, machine_service.go and their       *)
(* repositories. No transaction spans the statements of a request and the  *)
(* tables have no foreign keys, so requests interleave between a check and *)
(* the write that relies on it.                                            *)
(***************************************************************************)
EXTENDS Naturals, FiniteSets

CONSTANTS
  Clients,       \* concurrent requests
  KeyIds,        \* primary keys of ssh_keys, 1..n
  MachineIds,    \* primary keys of machines, 1..n
  Fingerprints,  \* key material
  Keep           \* a field a PATCH does not name

ASSUME RegistryAssumption ==
  /\ KeyIds \subseteq Nat /\ KeyIds # {} /\ MachineIds \subseteq Nat
  /\ Keep \notin KeyIds /\ Keep \notin BOOLEAN
  /\ Fingerprints # {}

VARIABLES
  keyRow,   \* rows of ssh_keys: "none" (not yet inserted), "live", "gone"
  print,    \* their fingerprint
  row,      \* rows of machines, likewise
  bound,    \* their ssh_key_id
  collect,  \* their collect_enabled
  pc,       \* progress of each request
  target,   \* the key or machine id a request is about
  copy,     \* the machine a request holds in memory
  change,   \* the fields its PATCH names
  crossed   \* history: requests under way that another one has overtaken

keyVars == <<keyRow, print>>
machineVars == <<row, bound, collect>>
requestVars == <<pc, target, copy, change>>
vars == <<keyVars, machineVars, requestVars, crossed>>

RowStates == {"none", "live", "gone"}
PCs == {"idle", "create", "check", "save", "deleteMachine", "deleteKey"}
Copies == [key : KeyIds, enabled : BOOLEAN]
Changes == [key : KeyIds \cup {Keep}, enabled : BOOLEAN \cup {Keep}]
NoChange == [key |-> Keep, enabled |-> Keep]
SomeKey == CHOOSE k \in KeyIds : TRUE
SomeCopy == [key |-> SomeKey, enabled |-> FALSE]

Init ==
  /\ keyRow = [k \in KeyIds |-> "none"]
  /\ print = [k \in KeyIds |-> CHOOSE f \in Fingerprints : TRUE]
  /\ row = [m \in MachineIds |-> "none"]
  /\ bound = [m \in MachineIds |-> SomeKey]
  /\ collect = [m \in MachineIds |-> FALSE]
  /\ pc = [c \in Clients |-> "idle"]
  /\ target = [c \in Clients |-> 0]
  /\ copy = [c \in Clients |-> SomeCopy]
  /\ change = [c \in Clients |-> NoChange]
  /\ crossed = {}

\* The id the sequence hands out next.
NextId(rows, id) ==
  rows[id] = "none" /\ \A j \in DOMAIN rows : j < id => rows[j] # "none"

Users(k) == { m \in MachineIds : row[m] = "live" /\ bound[m] = k }

Begin(c, next, id, held, chg) ==
  /\ pc[c] = "idle"
  /\ pc' = [pc EXCEPT ![c] = next]
  /\ target' = [target EXCEPT ![c] = id]
  /\ copy' = [copy EXCEPT ![c] = held]
  /\ change' = [change EXCEPT ![c] = chg]

\* The handler answers; what it held is dropped.
Answer(c) ==
  /\ pc' = [pc EXCEPT ![c] = "idle"]
  /\ target' = [target EXCEPT ![c] = 0]
  /\ copy' = [copy EXCEPT ![c] = SomeCopy]
  /\ change' = [change EXCEPT ![c] = NoChange]

\* This step changes something a request has read and relies on: the machines of
\* the key it deletes, the key it binds to, the row it holds a copy of.
Overtakes(c) ==
  LET m == target[c] IN
    \/ pc[c] = "deleteKey" /\ \E n \in MachineIds : row'[n] = "live" /\ bound'[n] = m
    \/ pc[c] \in {"create", "save"} /\ keyRow'[copy[c].key] # keyRow[copy[c].key]
    \/ /\ pc[c] \in {"check", "save"}
       /\ <<row'[m], bound'[m], collect'[m]>> # <<row[m], bound[m], collect[m]>>

\* History only: a request is crossed from the first such step to its answer.
NoteCrossed ==
  crossed' = { c \in Clients : pc[c] # "idle" /\ pc'[c] # "idle"
                                 /\ (c \in crossed \/ Overtakes(c)) }

-----------------------------------------------------------------------------
(* SSH keys *)

\* Import or Generate: one INSERT, under the unique index on the fingerprint.
CreateKey ==
  /\ \E k \in KeyIds, f \in Fingerprints :
       /\ NextId(keyRow, k)
       /\ \A j \in KeyIds : keyRow[j] = "live" => print[j] # f
       /\ keyRow' = [keyRow EXCEPT ![k] = "live"]
       /\ print' = [print EXCEPT ![k] = f]
  /\ UNCHANGED <<machineVars, requestVars>> /\ NoteCrossed

DeleteAnyKey(c, k) ==
  /\ Begin(c, "deleteKey", k, SomeCopy, NoChange)
  /\ UNCHANGED <<keyVars, machineVars>> /\ NoteCrossed

\* Delete lists the machines bound to the key; with any it answers
\* ErrSSHKeyInUse, otherwise it goes on to the DELETE.
ListBySSHKeyID(c, k) ==
  /\ Users(k) = {}
  /\ Begin(c, "deleteKey", k, SomeCopy, NoChange)
  /\ UNCHANGED <<keyVars, machineVars>> /\ NoteCrossed

DeleteKey(c) ==
  /\ pc[c] = "deleteKey"
  /\ keyRow' = [keyRow EXCEPT ![target[c]] = IF @ = "live" THEN "gone" ELSE @]
  /\ Answer(c)
  /\ UNCHANGED <<print, machineVars>> /\ NoteCrossed

-----------------------------------------------------------------------------
(* Machines *)

\* Create: validateMachine reads the key, and fails if it is not there.
ValidateNew(c, k) ==
  /\ keyRow[k] = "live"
  /\ \E e \in BOOLEAN : Begin(c, "create", 0, [key |-> k, enabled |-> e], NoChange)
  /\ UNCHANGED <<keyVars, machineVars>> /\ NoteCrossed

CreateMachine(c) ==
  /\ pc[c] = "create"
  /\ \E m \in MachineIds :
       /\ NextId(row, m)
       /\ row' = [row EXCEPT ![m] = "live"]
       /\ bound' = [bound EXCEPT ![m] = copy[c].key]
       /\ collect' = [collect EXCEPT ![m] = copy[c].enabled]
  /\ Answer(c)
  /\ UNCHANGED keyVars /\ NoteCrossed

ApplyAll(m, chg) ==
  [key |-> IF chg.key = Keep THEN SomeKey ELSE chg.key,
   enabled |-> IF chg.enabled = Keep THEN FALSE ELSE chg.enabled]

\* applyMachineUpdate on the row just read.
applyMachineUpdate(m, chg) ==
  [key |-> IF chg.key = Keep THEN bound[m] ELSE chg.key,
   enabled |-> IF chg.enabled = Keep THEN collect[m] ELSE chg.enabled]

LoadDeletedToo(c, m) ==
  /\ row[m] # "none"
  /\ \E chg \in Changes : Begin(c, "check", m, applyMachineUpdate(m, chg), chg)
  /\ UNCHANGED <<keyVars, machineVars>> /\ NoteCrossed

\* Update reads the row (404 without one) and applies the request to the copy.
LoadMachine(c, m) ==
  /\ row[m] = "live"
  /\ \E chg \in Changes : Begin(c, "check", m, applyMachineUpdate(m, chg), chg)
  /\ UNCHANGED <<keyVars, machineVars>> /\ NoteCrossed

\* validateMachine in Update.
CheckKey(c) ==
  /\ pc[c] = "check"
  /\ \/ /\ keyRow[copy[c].key] = "live"
        /\ pc' = [pc EXCEPT ![c] = "save"]
        /\ UNCHANGED <<target, copy, change>>
     \/ keyRow[copy[c].key] # "live" /\ Answer(c)
  /\ UNCHANGED <<keyVars, machineVars>> /\ NoteCrossed

\* gorm's Save: an UPDATE of every column, and an INSERT with the same id when
\* no row was there to update.
SaveMachine(c) ==
  /\ pc[c] = "save"
  /\ row' = [row EXCEPT ![target[c]] = "live"]
  /\ bound' = [bound EXCEPT ![target[c]] = copy[c].key]
  /\ collect' = [collect EXCEPT ![target[c]] = copy[c].enabled]
  /\ Answer(c)
  /\ UNCHANGED keyVars /\ NoteCrossed

\* Delete reads the row (404 without one), then deletes it by id.
LookUpMachine(c, m) ==
  /\ row[m] = "live"
  /\ Begin(c, "deleteMachine", m, SomeCopy, NoChange)
  /\ UNCHANGED <<keyVars, machineVars>> /\ NoteCrossed

DeleteMachine(c) ==
  /\ pc[c] = "deleteMachine"
  /\ row' = [row EXCEPT ![target[c]] = IF @ = "live" THEN "gone" ELSE @]
  /\ Answer(c)
  /\ UNCHANGED <<keyVars, bound, collect>> /\ NoteCrossed

\* The next statement fails, or the client goes away: 500, nothing written.
Fail(c) ==
  /\ pc[c] # "idle"
  /\ Answer(c)
  /\ UNCHANGED <<keyVars, machineVars>> /\ NoteCrossed

-----------------------------------------------------------------------------
StartRequest(c) ==
  \/ \E k \in KeyIds : ListBySSHKeyID(c, k) \/ ValidateNew(c, k)
  \/ \E m \in MachineIds : LoadMachine(c, m) \/ LookUpMachine(c, m)

Continue(c) ==
  \/ DeleteKey(c) \/ CreateMachine(c) \/ CheckKey(c) \/ SaveMachine(c)
  \/ DeleteMachine(c) \/ Fail(c)

Next == CreateKey \/ \E c \in Clients : StartRequest(c) \/ Continue(c)

Spec == Init /\ [][Next]_vars

-----------------------------------------------------------------------------
(* Properties *)

TypeOK ==
  /\ keyRow \in [KeyIds -> RowStates]
  /\ print \in [KeyIds -> Fingerprints]
  /\ row \in [MachineIds -> RowStates]
  /\ bound \in [MachineIds -> KeyIds]
  /\ collect \in [MachineIds -> BOOLEAN]
  /\ pc \in [Clients -> PCs]
  /\ target \in [Clients -> KeyIds \cup MachineIds \cup {0}]
  /\ copy \in [Clients -> Copies]
  /\ change \in [Clients -> Changes]
  /\ crossed \subseteq Clients
  /\ \A c \in Clients :
       /\ pc[c] \in {"check", "save", "deleteMachine"} => target[c] \in MachineIds
       /\ pc[c] = "deleteKey" => target[c] \in KeyIds
       /\ pc[c] \in {"idle", "create"} => target[c] = 0

\* A key that is "still referenced by machines" is not deleted
\* (ssh_key_service.go:26). Overlapping requests violate it.
KeysInUseExist ==
  \A m \in MachineIds : row[m] = "live" => keyRow[bound[m]] = "live"

\* Deleting a machine "cannot be undone" (web/src/lib/i18n.tsx:436). A late
\* Save violates it.
DeleteIsFinal ==
  [][\A m \in MachineIds : row[m] = "gone" => row'[m] = "gone"]_vars

Stranded == { m \in MachineIds : row[m] = "live" /\ keyRow[bound[m]] # "live" }

\* A machine is left without its key only by a request that was overtaken
\* between its check and its write: no other order of checks and writes does it.
OnlyCrossedStrands ==
  [][\A m \in Stranded' : m \notin Stranded =>
       \E c \in crossed : pc[c] # "idle" /\ pc'[c] = "idle"]_vars

\* A deleted machine comes back only by the Save of a request that had read it
\* before it was deleted.
OnlyCrossedRevives ==
  [][\A m \in MachineIds : row[m] = "gone" /\ row'[m] = "live" =>
       \E c \in crossed : pc[c] = "save" /\ target[c] = m /\ pc'[c] = "idle"]_vars

\* What other requests wrote is set back only by a PATCH that read the row before
\* they did; any other changes the fields it names and no others.
OnlyCrossedOverwrites ==
  [][\A c \in Clients \ crossed, m \in MachineIds :
       pc[c] = "save" /\ target[c] = m /\ pc'[c] = "idle" =>
         /\ change[c].key = Keep => bound'[m] = bound[m]
         /\ change[c].enabled = Keep => collect'[m] = collect[m]]_vars

=============================================================================
