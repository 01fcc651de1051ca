------------------------------- MODULE Backup -------------------------------
(***************************************************************************)
(* internal/service/backup_service.go: the configuration of one instance   *)
(* is exported to a file, which names things instead of giving their ids,  *)
(* and imported into another one. Neither is a transaction: they read and  *)
(* write table after table while others edit them, any statement may fail, *)
(* and the administrator then tries again, or imports twice at once.       *)
(* The encryption of the file is left out.                                 *)
(***************************************************************************)
EXTENDS Naturals, FiniteSets, Sequences, FiniteSetsExt

CONSTANTS
  Scenarios,  \* [source, asked, target, imports, fails, edits]: the instance the file
              \* comes from, the ids of the machines and keys the export asks for,
              \* the instance it is imported into, the requests that import it, and
              \* bounds on what disturbs them
  Imports,    \* import requests
  Names, Materials, Urls, Dims, Values,
  Types,      \* channel types, numbered in the order of channel_type
  Trim,       \* strings.TrimSpace on names; None if nothing is left
  None        \* no row, no value

Ids == Nat \ {0}

\* Names as the services for machines and proxies store them. The handler of
\* the SSH keys does not trim: a key's name may have spaces around it, or be
\* nothing but spaces.
Trimmed == { n \in Names : Trim[n] = n }

\* The tables. An id of 0 stands for no reference.
Keys == [id : Ids, name : Names, mat : Materials]
Machines == [id : Ids, name : Trimmed, key : Ids]
Proxies == [id : Ids, name : Trimmed, url : Urls]
Channels == [Types -> [on : BOOLEAN, proxy : Nat] \cup {None}]
Globals == [Dims -> Values \cup {None}]
Rules == [machine : Ids, dim : Dims, value : Values]
Finite(S) == { T \in SUBSET S : IsFiniteSet(T) }
Instances ==
  [keys : Finite(Keys), machines : Finite(Machines), proxies : Finite(Proxies),
   channels : Channels, globals : Globals, rules : Finite(Rules)]

ASSUME BackupAssumption ==
  /\ \A x \in Scenarios :
       /\ x.source \in Instances /\ x.target \in Instances
       /\ x.asked \in [machines : SUBSET Ids, keys : SUBSET Ids]
       /\ x.imports \in SUBSET Imports
       /\ x.fails \in Nat /\ x.edits \in Nat
  /\ Trim \in [Names -> Trimmed \cup {None}]
  /\ Types \subseteq Nat /\ IsFiniteSet(Types)
  /\ None \notin Values /\ None \notin Names /\ None \notin [on : BOOLEAN, proxy : Nat]

VARIABLES
  scn,      \* the scenario
  db,       \* the instance in use: the source until the export is through, then the target
  exp,      \* the export: the table it reads next, and what it has read
  file,     \* the decrypted backup
  job,      \* the imports: their positions and the maps they keep in memory
  nextId,   \* the next primary key; one sequence for all tables
  fails,    \* failures that may still happen
  edits,    \* edits others may still make
  edited    \* what they have done so far, for the properties: "source" during the
            \* export, "set" or "drop" during an import

backupVars == <<scn, db, exp, file, job, nextId, fails, edits, edited>>
context == <<scn, exp, file>>
bounds == <<fails, edits, edited>>

-----------------------------------------------------------------------------
(* The export, one query after the other *)

NewExport ==
  [pc |-> "machines", machines |-> {}, keys |-> {}, proxies |-> {},
   channels |-> [t \in Types |-> None], globals |-> [d \in Dims |-> None]]

selectBackupMachines(rows) == { m \in rows : m.id \in scn.asked.machines }

\* Beside the keys asked for, the ones the selected machines use.
selectBackupSSHKeys(rows, machines) ==
  { k \in rows : k.id \in scn.asked.keys \/ \E m \in machines : m.key = k.id }

KeepsImports == UNCHANGED <<scn, job, nextId, bounds>>

ListMachines ==
  /\ exp.pc = "machines"
  /\ exp' = [exp EXCEPT !.pc = "keys", !.machines = selectBackupMachines(db.machines)]
  /\ UNCHANGED <<db, file>> /\ KeepsImports

\* An export of nothing, or of a machine whose key is gone, is refused.
ListKeys ==
  /\ exp.pc = "keys"
  /\ LET keys == selectBackupSSHKeys(db.keys, exp.machines)
         nothing == exp.machines = {} /\ keys = {}
         missing == \E m \in exp.machines : ~\E k \in db.keys : k.id = m.key
     IN exp' = IF nothing \/ missing THEN [NewExport EXCEPT !.pc = "refused"]
                                     ELSE [exp EXCEPT !.pc = "proxies", !.keys = keys]
  /\ UNCHANGED <<db, file>> /\ KeepsImports

ListProxies ==
  /\ exp.pc = "proxies"
  /\ exp' = [exp EXCEPT !.pc = "channels", !.proxies = db.proxies]
  /\ UNCHANGED <<db, file>> /\ KeepsImports

ListChannels ==
  /\ exp.pc = "channels"
  /\ exp' = [exp EXCEPT !.pc = "globals", !.channels = db.channels]
  /\ UNCHANGED <<db, file>> /\ KeepsImports

ListGlobals ==
  /\ exp.pc = "globals"
  /\ exp' = [exp EXCEPT !.pc = "rules", !.globals = db.globals]
  /\ UNCHANGED <<db, file>> /\ KeepsImports

NameOf(rows, id) ==
  IF \E r \in rows : r.id = id THEN (CHOOSE r \in rows : r.id = id).name ELSE None

Newest(a, b) == a.id > b.id
Oldest(a, b) == a.id < b.id
ByType(a, b) == a < b
ByMachine(a, b) == a.machine < b.machine

\* What a query with an ORDER BY may return: every row once, and none before
\* one it comes after. The rules of one machine come in any order: they have
\* different dimensions.
List(rows, before(_, _)) ==
  { s \in [1..Cardinality(rows) -> rows] :
      /\ { s[i] : i \in DOMAIN s } = rows
      /\ \A i, j \in DOMAIN s : before(s[i], s[j]) => i < j }

ForgetProxy(c, proxies) == [on |-> c.on, proxy |-> None]

\* buildBackupChannelPayload: the proxy's id becomes its name, or nothing if
\* the proxy does not exist.
buildBackupChannelPayload(c, proxies) == [on |-> c.on, proxy |-> NameOf(proxies, c.proxy)]

\* The keys ks, machines ms, proxies ps, types ts and rules rs in the order
\* they were read in.
buildBackupPayload(e, ks, ms, ps, ts, rs) ==
  [keys |-> [i \in DOMAIN ks |-> [name |-> ks[i].name, mat |-> ks[i].mat]],
   machines |-> [i \in DOMAIN ms |->
                  [name |-> ms[i].name, key |-> NameOf(e.keys, ms[i].key)]],
   proxies |-> [i \in DOMAIN ps |-> [name |-> ps[i].name, url |-> ps[i].url]],
   channels |-> [i \in DOMAIN ts |->
                  [type |-> ts[i], cfg |-> buildBackupChannelPayload(e.channels[ts[i]], e.proxies)]],
   globals |-> e.globals,
   rules |-> [i \in DOMAIN rs |->
               [name |-> NameOf(e.machines, rs[i].machine),
                dim |-> rs[i].dim, value |-> rs[i].value]]]

IdsIn(inst) ==
  { r.id : r \in inst.keys \cup inst.machines \cup inst.proxies } \cup { r.machine : r \in inst.rules }
FirstFree(inst) == Max(IdsIn(inst) \cup {0}) + 1

\* ListMachineRulesByMachineIDs, the last query. The file is complete, and the
\* administrator turns to the instance it is for.
ListRules ==
  /\ exp.pc = "rules"
  /\ \E ks \in List(exp.keys, Newest), ms \in List(exp.machines, Newest),
        ps \in List(exp.proxies, Oldest),
        ts \in List({ t \in Types : exp.channels[t] # None }, ByType),
        rs \in List({ r \in db.rules : \E m \in exp.machines : m.id = r.machine }, ByMachine) :
       file' = buildBackupPayload(exp, ks, ms, ps, ts, rs)
  /\ exp' = [NewExport EXCEPT !.pc = "done"]
  /\ db' = scn.target
  /\ nextId' = FirstFree(scn.target)
  /\ UNCHANGED <<scn, job, bounds>>

\* A query or the decryption of a key fails: no file, and another try.
ExportFails ==
  /\ fails > 0 /\ exp.pc \notin {"done", "refused"}
  /\ exp' = NewExport
  /\ fails' = fails - 1
  /\ UNCHANGED <<scn, db, file, job, nextId, edits, edited>>

Export ==
  \/ ListMachines \/ ListKeys \/ ListProxies \/ ListChannels \/ ListGlobals \/ ListRules
  \/ ExportFails

-----------------------------------------------------------------------------
(* The imports *)

\* The map from names to ids that the loops over a List build. Keys and
\* machines come newest first and the last row of a name wins, proxies come
\* oldest first and the first one wins: in both cases the oldest.
OldestId(rows) == IF rows = {} THEN 0 ELSE Min({ r.id : r \in rows })
IdByName(rows) == [n \in Names |-> OldestId({ r \in rows : r.name = n })]
IdByMaterial(rows) == [x \in Materials |-> OldestId({ r \in rows : r.mat = x })]
Nowhere == [n \in Names |-> 0]

NewJob ==
  [pc |-> "idle", pos |-> 1, keyId |-> Nowhere, printId |-> [x \in Materials |-> 0],
   machineId |-> Nowhere, proxyId |-> Nowhere, existing |-> {}, have |-> {}]

\* No file is there before the export.
NoFile ==
  [keys |-> <<>>, machines |-> <<>>, proxies |-> <<>>, channels |-> <<>>,
   globals |-> [d \in Dims |-> None], rules |-> <<>>]

BackupInit ==
  /\ scn \in Scenarios
  /\ db = scn.source
  /\ exp = NewExport
  /\ file = NoFile
  /\ job = [i \in Imports |-> [NewJob EXCEPT !.pc = IF i \in scn.imports THEN "idle" ELSE "none"]]
  /\ nextId = FirstFree(scn.source)
  /\ fails = scn.fails /\ edits = scn.edits
  /\ edited = {}

\* Import i is at the next item of a section, or through with it.
At(i, section) == job[i].pc = section /\ job[i].pos <= Len(file[section])
Through(i, section) == job[i].pc = section /\ job[i].pos > Len(file[section])
Item(i, section) == file[section][job[i].pos]
Advance(i) == [job[i] EXCEPT !.pos = @ + 1]
Set(i, j) == job' = [job EXCEPT ![i] = j]
Ended(pc) == [NewJob EXCEPT !.pc = pc]

ValidateNothing(f) == TRUE

\* validateBackupPayload. Of all it looks at, only a key's name can be
\* something that the services of an instance store and an import refuses.
validateBackupPayload(f) ==
  /\ \A n \in DOMAIN f.keys : Trim[f.keys[n].name] # None
  /\ \A n \in DOMAIN f.machines : Trim[f.machines[n].name] # None
  /\ \A n \in DOMAIN f.proxies : Trim[f.proxies[n].name] # None

Refuse(i) ==
  /\ exp.pc = "done"
  /\ job[i].pc = "idle"
  /\ ~validateBackupPayload(file)
  /\ Set(i, Ended("refused"))
  /\ UNCHANGED <<context, db, nextId, bounds>>

\* validateBackupPayload has accepted the file, and the keys are listed.
ReadKeys(i) ==
  /\ exp.pc = "done"
  /\ job[i].pc \in {"idle", "failed"}
  /\ validateBackupPayload(file)
  /\ Set(i, [NewJob EXCEPT
               !.pc = "keys", !.keyId = IdByName(db.keys), !.printId = IdByMaterial(db.keys)])
  /\ UNCHANGED <<context, db, nextId, bounds>>

\* One statement of an import that inserts a row, or that skips it.
Skip(i) == Set(i, Advance(i)) /\ UNCHANGED <<db, nextId>>
NewKey(name, mat) ==
  /\ db' = [db EXCEPT !.keys = @ \cup {[id |-> nextId, name |-> name, mat |-> mat]}]
  /\ nextId' = nextId + 1
NewMachine(name, key) ==
  /\ db' = [db EXCEPT !.machines = @ \cup {[id |-> nextId, name |-> name, key |-> key]}]
  /\ nextId' = nextId + 1

SkipTakenKey(i) ==
  /\ At(i, "keys")
  /\ LET item == Item(i, "keys")
         name == Trim[item.name]
         skip == job[i].keyId[name] # 0 \/ \E k \in db.keys : k.mat = item.mat
     IN \/ skip /\ Skip(i)
        \/ ~skip /\ NewKey(name, item.mat) /\ Set(i, [Advance(i) EXCEPT !.keyId[name] = nextId])
  /\ UNCHANGED <<context, bounds>>

\* A key whose name is taken is skipped; one whose fingerprint is taken stands
\* for the key that was listed with it. The loop tests the name once more.
ImportKey(i) ==
  /\ At(i, "keys")
  /\ LET item == Item(i, "keys")
         name == Trim[item.name]
         taken == \E k \in db.keys : k.mat = item.mat
     IN IF name = None
        THEN Set(i, Ended("refused")) /\ UNCHANGED <<db, nextId>>
        ELSE \/ job[i].keyId[name] # 0 /\ Skip(i)
             \/ /\ job[i].keyId[name] = 0 /\ taken
                /\ Set(i, [Advance(i) EXCEPT !.keyId[name] = job[i].printId[item.mat]])
                /\ UNCHANGED <<db, nextId>>
             \/ /\ job[i].keyId[name] = 0 /\ ~taken
                /\ NewKey(name, item.mat)
                /\ Set(i, [Advance(i) EXCEPT !.keyId[name] = nextId, !.printId[item.mat] = nextId])
  /\ UNCHANGED <<context, bounds>>

ReadMachines(i) ==
  /\ Through(i, "keys")
  /\ Set(i, [job[i] EXCEPT !.pc = "machines", !.pos = 1, !.machineId = IdByName(db.machines)])
  /\ UNCHANGED <<context, db, nextId, bounds>>

CreateAnyMachine(i) ==
  /\ At(i, "machines")
  /\ LET item == Item(i, "machines") IN
       /\ NewMachine(item.name, job[i].keyId[Trim[item.key]])
       /\ Set(i, [Advance(i) EXCEPT !.machineId[item.name] = nextId])
  /\ UNCHANGED <<context, bounds>>

\* A machine whose name is taken, or whose key is unknown, is skipped. The loop
\* and validateBackupMachine test the fields once more.
ImportMachine(i) ==
  /\ At(i, "machines")
  /\ LET item == Item(i, "machines")
         name == Trim[item.name]
         key == job[i].keyId[Trim[item.key]]
         skip == job[i].machineId[name] # 0 \/ key = 0
     IN IF name = None
        THEN Set(i, Ended("refused")) /\ UNCHANGED <<db, nextId>>
        ELSE \/ skip /\ Skip(i)
             \/ /\ ~skip
                /\ NewMachine(name, key)
                /\ Set(i, [Advance(i) EXCEPT !.machineId[name] = nextId])
  /\ UNCHANGED <<context, bounds>>

\* importNotificationProxies: names of the instance are skipped, names that
\* occur twice in the file are not.
ReadProxies(i) ==
  /\ Through(i, "machines")
  /\ Set(i, [job[i] EXCEPT !.pc = "proxies", !.pos = 1, !.proxyId = IdByName(db.proxies),
                           !.existing = { p.name : p \in db.proxies }])
  /\ UNCHANGED <<context, db, nextId, bounds>>

ImportProxy(i) ==
  /\ At(i, "proxies")
  /\ LET item == Item(i, "proxies")
         name == Trim[item.name]
     IN \/ name \in job[i].existing /\ Skip(i)
        \/ /\ name \notin job[i].existing
           /\ db' = [db EXCEPT !.proxies = @ \cup {[id |-> nextId, name |-> name, url |-> item.url]}]
           /\ nextId' = nextId + 1
           /\ Set(i, [Advance(i) EXCEPT !.proxyId[name] = IF @ = 0 THEN nextId ELSE @])
  /\ UNCHANGED <<context, bounds>>

\* importNotificationChannels.
ReadChannels(i) ==
  /\ Through(i, "proxies")
  /\ Set(i, [job[i] EXCEPT !.pc = "channels", !.pos = 1,
                           !.existing = { t \in Types : db.channels[t] # None }])
  /\ UNCHANGED <<context, db, nextId, bounds>>

\* The proxy by its name; a name this instance does not know is no proxy.
applyBackupChannelProxy(cfg, proxyId) ==
  [on |-> cfg.on, proxy |-> IF cfg.proxy = None THEN 0 ELSE proxyId[Trim[cfg.proxy]]]

\* CreateIfAbsent: ON CONFLICT DO NOTHING.
ImportChannel(i) ==
  /\ At(i, "channels")
  /\ LET item == Item(i, "channels") IN
       \/ item.type \in job[i].existing /\ UNCHANGED db
       \/ /\ item.type \notin job[i].existing
          /\ db' = [db EXCEPT !.channels[item.type] =
                      IF @ = None THEN applyBackupChannelProxy(item.cfg, job[i].proxyId) ELSE @]
  /\ Set(i, Advance(i))
  /\ UNCHANGED <<context, nextId, bounds>>

ReadGlobals(i) ==
  /\ Through(i, "channels")
  /\ Set(i, [job[i] EXCEPT !.pc = "globals", !.have = { d \in Dims : db.globals[d] # None }])
  /\ UNCHANGED <<context, db, nextId, bounds>>

UpsertGlobals(i) ==
  /\ job[i].pc = "globals"
  /\ db' = [db EXCEPT !.globals =
              [d \in Dims |-> IF d \in job[i].have \/ file.globals[d] = None
                              THEN @[d] ELSE file.globals[d]]]
  /\ Set(i, [job[i] EXCEPT !.pc = "listRules"])
  /\ UNCHANGED <<context, nextId, bounds>>

\* CreateGlobalRulesIfAbsent: one INSERT ... ON CONFLICT DO NOTHING.
WriteGlobals(i) ==
  /\ job[i].pc = "globals"
  /\ db' = [db EXCEPT !.globals =
              [d \in Dims |-> IF d \in job[i].have \/ @[d] # None THEN @[d] ELSE file.globals[d]]]
  /\ Set(i, [job[i] EXCEPT !.pc = "listRules"])
  /\ UNCHANGED <<context, nextId, bounds>>

\* importMachineThresholdRules: the rules of the machines the file names.
ReadRules(i) ==
  /\ job[i].pc = "listRules"
  /\ Set(i, [job[i] EXCEPT !.pc = "rules", !.have = { <<r.machine, r.dim>> : r \in db.rules }])
  /\ UNCHANGED <<context, db, nextId, bounds>>

\* Of the file's rules for a machine and a dimension the first one counts, and
\* only if there was none; CreateMachineRulesIfAbsent is again DO NOTHING.
WriteRules(i) ==
  /\ job[i].pc = "rules"
  /\ LET id(n) == job[i].machineId[Trim[file.rules[n].name]]
         first == { n \in DOMAIN file.rules :
                      /\ id(n) # 0
                      /\ <<id(n), file.rules[n].dim>> \notin job[i].have
                      /\ \A k \in 1..(n - 1) : id(k) # id(n) \/ file.rules[k].dim # file.rules[n].dim }
         new == { [machine |-> id(n), dim |-> file.rules[n].dim, value |-> file.rules[n].value] :
                    n \in first }
     IN db' = [db EXCEPT !.rules =
                 @ \cup { r \in new : ~\E x \in @ : x.machine = r.machine /\ x.dim = r.dim }]
  /\ Set(i, Ended("ok"))
  /\ UNCHANGED <<context, nextId, bounds>>

Under(i) == job[i].pc \notin {"none", "idle", "failed", "refused", "ok"}

\* A statement fails, or the process ends: what was written stays.
ImportFails(i) ==
  /\ fails > 0 /\ Under(i)
  /\ Set(i, Ended("failed"))
  /\ fails' = fails - 1
  /\ UNCHANGED <<context, db, nextId, edits, edited>>

Import(i) ==
  \/ Refuse(i) \/ ReadKeys(i) \/ ImportKey(i) \/ ReadMachines(i) \/ ImportMachine(i)
  \/ ReadProxies(i) \/ ImportProxy(i) \/ ReadChannels(i) \/ ImportChannel(i)
  \/ ReadGlobals(i) \/ WriteGlobals(i) \/ ReadRules(i) \/ WriteRules(i) \/ ImportFails(i)

-----------------------------------------------------------------------------
(* What others do meanwhile *)

\* Others edit the source while it is read, and the target during an import.
Edit(kind) ==
  /\ edits > 0
  /\ \/ /\ exp.pc \notin {"machines", "done", "refused"}
        /\ edited' = edited \cup {"source"}
     \/ /\ exp.pc = "done" /\ \E i \in Imports : Under(i) \/ job[i].pc = "failed"
        /\ edited' = edited \cup {kind}
  /\ edits' = edits - 1
  /\ UNCHANGED <<context, job, fails>>

AddKey ==
  /\ Edit("set")
  /\ \E n \in Names, x \in Materials :
       /\ ~\E k \in db.keys : k.mat = x
       /\ NewKey(n, x)

DropKey ==
  /\ Edit("drop")
  /\ \E k \in db.keys :
       /\ ~\E m \in db.machines : m.key = k.id
       /\ db' = [db EXCEPT !.keys = @ \ {k}]
  /\ UNCHANGED nextId

\* A PATCH binds a machine to another key.
Rebind ==
  /\ Edit("set")
  /\ \E m \in db.machines, k \in db.keys :
       db' = [db EXCEPT !.machines = (@ \ {m}) \cup {[m EXCEPT !.key = k.id]}]
  /\ UNCHANGED nextId

DropMachine ==
  /\ Edit("drop")
  /\ \E m \in db.machines : db' = [db EXCEPT !.machines = @ \ {m}]
  /\ UNCHANGED nextId

DropProxy ==
  /\ Edit("drop")
  /\ \E p \in db.proxies : db' = [db EXCEPT !.proxies = @ \ {p}]
  /\ UNCHANGED nextId

SetChannel ==
  /\ Edit("set")
  /\ \E t \in Types, p \in { r.id : r \in db.proxies } \cup {0}, on \in BOOLEAN :
       db' = [db EXCEPT !.channels[t] = [on |-> on, proxy |-> p]]
  /\ UNCHANGED nextId

SetGlobal ==
  /\ Edit("set")
  /\ \E d \in Dims, v \in Values : db' = [db EXCEPT !.globals[d] = v]
  /\ UNCHANGED nextId

SetRule ==
  /\ Edit("set")
  /\ \E m \in db.machines, d \in Dims, v \in Values :
       db' = [db EXCEPT !.rules =
                { r \in @ : r.machine # m.id \/ r.dim # d }
                  \cup {[machine |-> m.id, dim |-> d, value |-> v]}]
  /\ UNCHANGED nextId

Others ==
  AddKey \/ DropKey \/ Rebind \/ DropMachine \/ DropProxy \/ SetChannel \/ SetGlobal \/ SetRule

BackupNext == Export \/ (\E i \in Imports : Import(i)) \/ Others

BackupSpec == BackupInit /\ [][BackupNext]_backupVars

-----------------------------------------------------------------------------
(* Properties *)

\* Types of all variables.
Exports ==
  [pc : {"machines", "keys", "proxies", "channels", "globals", "rules", "done", "refused"},
   machines : Finite(Machines), keys : Finite(Keys), proxies : Finite(Proxies),
   channels : Channels, globals : Globals]
Files ==
  [keys : Seq([name : Names, mat : Materials]), machines : Seq([name : Trimmed, key : Names]),
   proxies : Seq([name : Trimmed, url : Urls]),
   channels : Seq([type : Types, cfg : [on : BOOLEAN, proxy : Trimmed \cup {None}]]),
   globals : Globals, rules : Seq([name : Trimmed, dim : Dims, value : Values])]
Jobs ==
  [pc : {"none", "idle", "keys", "machines", "proxies", "channels", "globals",
         "listRules", "rules", "ok", "failed", "refused"},
   pos : Ids, keyId : [Names -> Nat], printId : [Materials -> Nat],
   machineId : [Names -> Nat], proxyId : [Names -> Nat],
   existing : SUBSET (Names \cup Types), have : SUBSET (Dims \cup (Ids \X Dims))]
BackupTypeOK ==
  /\ scn \in Scenarios
  /\ db \in Instances
  /\ exp \in Exports
  /\ file \in Files
  /\ job \in [Imports -> Jobs]
  /\ nextId \in Ids /\ fails \in Nat /\ edits \in Nat
  /\ edited \subseteq {"source", "set", "drop"}

\* "Does not overwrite what is there" (threshold_rule_repo.go:44,92 and
\* notification_repo.go:48): no step of an import changes or removes a row,
\* also not one that appeared after the import had read the table.
ImportOnlyAdds ==
  [][exp.pc = "done" /\ edits' = edits =>
       /\ db.keys \subseteq db'.keys /\ db.machines \subseteq db'.machines
       /\ db.proxies \subseteq db'.proxies /\ db.rules \subseteq db'.rules
       /\ \A t \in Types : db.channels[t] # None => db'.channels[t] = db.channels[t]
       /\ \A d \in Dims : db.globals[d] # None => db'.globals[d] = db.globals[d]]_backupVars

\* What an import writes refers to rows of this instance, never to ids of the
\* source (the comment at backup_service.go:952), also when two imports run at
\* once, as long as others add and change rows but delete none.
RefsResolve ==
  exp.pc = "done" /\ "drop" \notin edited =>
    /\ \A m \in db.machines : \E k \in db.keys : k.id = m.key
    /\ \A r \in db.rules : \E m \in db.machines : m.id = r.machine
    /\ \A t \in Types : db.channels[t] = None \/ db.channels[t].proxy = 0
                        \/ \E p \in db.proxies : p.id = db.channels[t].proxy

\* Import i is the only one.
Alone(i) == \A j \in Imports \ {i} : job[j].pc = "none"

\* The part of the source that was asked for.
Origin ==
  LET q == scn.asked
      machines == { m \in scn.source.machines : m.id \in q.machines }
  IN [scn.source EXCEPT !.machines = machines,
                        !.keys = { k \in @ : k.id \in q.keys \cup { m.key : m \in machines } },
                        !.rules = { r \in @ : r.machine \in q.machines }]

\* An instance without its ids.
Lookup(rows, id) == { r \in rows : r.id = id }
View(inst) ==
  [keys |-> { <<Trim[k.name], k.mat>> : k \in inst.keys },
   machines |-> { <<m.name, { k.mat : k \in Lookup(inst.keys, m.key) },
                    { <<r.dim, r.value>> : r \in { x \in inst.rules : x.machine = m.id } }>> :
                  m \in inst.machines },
   proxies |-> { <<p.name, p.url>> : p \in inst.proxies },
   channels |-> [t \in Types |->
                  IF inst.channels[t] = None THEN {}
                  ELSE {<<inst.channels[t].on,
                          { p.url : p \in Lookup(inst.proxies, inst.channels[t].proxy) }>>}],
   globals |-> inst.globals]

\* An import into an empty instance that is answered 200 restores what was
\* exported, machine by machine with its key and its rules, however many
\* attempts failed half way before it; nothing is created twice.
RoundTrip ==
  \A i \in Imports :
    job[i].pc = "ok" /\ Alone(i) /\ IdsIn(scn.target) = {} /\ edited = {} =>
      /\ View(db) = View(Origin)
      /\ Cardinality(db.machines) = Cardinality(Origin.machines)
      /\ Cardinality(db.proxies) = Cardinality(Origin.proxies)

\* Importing into an instance in use: after a 200 every thing the file names
\* is there, its own or the one that had the name before; for the name of a key
\* also one with the fingerprint of a key the file has under this name. Also
\* when the source was edited between two queries of the export.
NothingMissing ==
  \A i \in Imports :
    job[i].pc = "ok" /\ Alone(i) /\ edited \subseteq {"source"} =>
      /\ \A n \in DOMAIN file.keys :
           LET name == Trim[file.keys[n].name] IN
             \E k \in db.keys :
               \/ k.name = name
               \/ \E j \in DOMAIN file.keys : Trim[file.keys[j].name] = name /\ k.mat = file.keys[j].mat
      /\ \A n \in DOMAIN file.machines : \E m \in db.machines : m.name = file.machines[n].name
      /\ \A n \in DOMAIN file.proxies : \E p \in db.proxies : p.name = file.proxies[n].name
      /\ \A n \in DOMAIN file.channels : db.channels[file.channels[n].type] # None
      /\ \A d \in Dims : file.globals[d] # None => db.globals[d] # None
      /\ \A n \in DOMAIN file.rules :
           \E m \in db.machines, r \in db.rules :
             /\ m.name = file.rules[n].name /\ r.machine = m.id /\ r.dim = file.rules[n].dim

\* "All validation must precede the first write" (the comment at
\* backup_service.go:337): an import that is answered "invalid backup payload"
\* has left the instance as it was.
RefusalWritesNothing ==
  \A i \in Imports : job[i].pc = "refused" /\ Alone(i) /\ edited \subseteq {"source"} => db = scn.target

=============================================================================
