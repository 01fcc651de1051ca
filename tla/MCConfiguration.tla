--------------------------- MODULE MCConfiguration ---------------------------
(* Small instances of Backup (two keys, machines and proxies, one dimension) *)
(* and of MachineRegistry, side by side.                                     *)
EXTENDS MachineRegistry, Backup, TLC

CONSTANTS n1, n2, n2pad, blank, i1, i2, ka, kb, u1, u2, webhook, telegram, day, v1, v2

Key(i, n, x) == [id |-> i, name |-> n, mat |-> x]
Machine(i, n, k) == [id |-> i, name |-> n, key |-> k]
Proxy(i, n, u) == [id |-> i, name |-> n, url |-> u]
Channel(p) == [on |-> TRUE, proxy |-> p]

\* n2pad is n2 with spaces around it, blank consists of spaces.
MCTrim == (n1 :> n1) @@ (n2 :> n2) @@ (n2pad :> n2) @@ (blank :> None)

NoChannels == [t \in Types |-> None]
NoGlobals == [d \in Dims |-> None]
EmptyInstance ==
  [keys |-> {}, machines |-> {}, proxies |-> {}, channels |-> NoChannels,
   globals |-> NoGlobals, rules |-> {}]
MCEmpty == {EmptyInstance}

\* Names are used once per table. Proxy 3 does not exist: a channel may name a
\* proxy that was deleted.
MCUnique ==
  { [keys |-> {Key(1, n1, ka), Key(2, n2, kb)},
     machines |-> {Machine(1, n1, k1), Machine(2, n2, k2)},
     proxies |-> ps,
     channels |-> (webhook :> IF p = None THEN None ELSE Channel(p)) @@ (telegram :> Channel(2)),
     globals |-> [d \in Dims |-> g],
     rules |-> rs] :
    k1 \in {1, 2}, k2 \in {1, 2},
    ps \in SUBSET {Proxy(1, n1, u1), Proxy(2, n2, u2)},
    p \in {None, 0, 1, 2, 3}, g \in {None, v1},
    rs \in SUBSET {[machine |-> 1, dim |-> day, value |-> v1],
                   [machine |-> 2, dim |-> day, value |-> v2]} }
MCAsked == { [machines |-> a, keys |-> b] : a \in SUBSET {1, 2}, b \in SUBSET {1, 2} }

\* One source with a row of everything, and the targets it collides with.
MCFull ==
  { [keys |-> {Key(1, n1, ka), Key(2, n2, kb)},
     machines |-> {Machine(1, n1, 2), Machine(2, n2, 1)},
     proxies |-> {Proxy(1, n1, u1), Proxy(2, n2, u2)},
     channels |-> (webhook :> Channel(1)) @@ (telegram :> Channel(2)),
     globals |-> [d \in Dims |-> v1],
     rules |-> {[machine |-> 1, dim |-> day, value |-> v1],
                [machine |-> 2, dim |-> day, value |-> v2]}] }
MCAskAll == {[machines |-> {1, 2}, keys |-> {1, 2}]}

MCInUse ==
  { [keys |-> ks, machines |-> ms, proxies |-> ps,
     channels |-> (webhook :> c) @@ (telegram :> None),
     globals |-> [d \in Dims |-> g],
     rules |-> { r \in rs : \E m \in ms : m.id = r.machine }] :
    ks \in { {Key(7, x, y)} : x \in {n1, n2}, y \in {ka, kb} }
            \cup { {Key(7, n1, ka), Key(8, n1, kb)}, {Key(7, n2, ka), Key(8, n1, kb)} },
    ms \in {{}, {Machine(7, n1, 7)}, {Machine(7, n1, 7), Machine(8, n1, 7)}},
    ps \in {{}, {Proxy(7, n1, u2)}, {Proxy(7, n2, u1), Proxy(8, n2, u2)}},
    c \in {None, Channel(0)}, g \in {None, v2},
    rs \in {{}, {[machine |-> 7, dim |-> day, value |-> v2]}} }

\* A target for the edits others make during the import.
MCEdited ==
  { [EmptyInstance EXCEPT !.keys = {Key(7, n2, kb)}, !.machines = {Machine(7, n1, 7)},
                          !.proxies = ps] :
    ps \in {{}, {Proxy(7, n2, u1)}} }

\* Two proxies with one name; a channel's proxy is known by its name only, so
\* both channels use the first.
MCSameName ==
  { [s EXCEPT !.proxies = {Proxy(1, n1, u1), Proxy(2, n1, u2)},
              !.channels[telegram] = Channel(1)] : s \in MCFull }

\* Keys with names that are not trimmed.
MCPadded == { [s EXCEPT !.keys = {Key(1, n, ka), Key(2, n1, kb)}] : s \in MCFull, n \in {n2pad, blank} }

\* Two keys with one name.
MCTwins == { [s EXCEPT !.keys = {Key(1, n1, ka), Key(2, n1, kb)}] : s \in MCFull }

\* Every row in its turn, into an empty instance; rows that share a name only
\* when nothing fails.
Restores ==
  [source : MCUnique, asked : MCAsked, target : MCEmpty, imports : {{i1}}, fails : {1}, edits : {0}]
    \cup [source : MCSameName, asked : MCAskAll, target : MCEmpty, imports : {{i1}},
          fails : {0}, edits : {0}]
    \cup [source : MCPadded, asked : MCAskAll, target : MCEmpty, imports : {{i1}},
          fails : {1}, edits : {0}]
Merges ==
  [source : MCFull, asked : MCAskAll, target : MCInUse, imports : {{i1}}, fails : {2}, edits : {0}]
    \cup [source : MCTwins, asked : MCAskAll, target : MCEdited, imports : {{i1}},
          fails : {2}, edits : {0}]
Disturbed ==
  [source : MCFull, asked : MCAskAll, target : MCEdited, imports : {{i1}}, fails : {1}, edits : {2}]
Twice ==
  [source : MCFull, asked : MCAskAll, target : MCEmpty \cup MCEdited, imports : {{i1, i2}},
   fails : {1}, edits : {0}]
MCScenarios == Restores \cup Merges \cup Disturbed \cup Twice

-----------------------------------------------------------------------------
VARIABLE part  \* the module this behaviour is about; the other one stays in its initial state

ConfigurationInit ==
  \/ part = "registry" /\ Init /\ BackupInit /\ scn = CHOOSE x \in Twice : TRUE
  \/ part = "backup" /\ Init /\ BackupInit

ConfigurationNext ==
  \/ part = "registry" /\ Next /\ UNCHANGED <<part, backupVars>>
  \/ part = "backup" /\ BackupNext /\ UNCHANGED <<part, vars>>

ConfigurationSpec == ConfigurationInit /\ [][ConfigurationNext]_<<part, vars, backupVars>>

=============================================================================
