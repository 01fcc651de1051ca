------------------------ MODULE HistoryCleanupProofs ------------------------
(***************************************************************************)
(* For any tables' contents, batch size, retention and set of concurrent   *)
(* requests: a cleanup that ran alone and succeeded is complete, and only  *)
(* expired rows in scope are ever deleted.                                 *)
(*                                                                         *)
(* The argument follows one cleanup. While it is alone, the rows it still  *)
(* owes lie in the current table or the ones after it (DueInv); a short    *)
(* batch contains all that it owes in the current table (BatchInv); and    *)
(* since ids are never reused, no collection can bring a due row back      *)
(* (IdInv). OldInv carries the age of a row from its selection to its      *)
(* deletion.                                                               *)
(***************************************************************************)
EXTENDS HistoryCleanup, TLAPS

\* Retentions in use.
Retentions == {Days} \cup { q.days : q \in Asked }

IdInv ==
  /\ \A x \in rows : x[4] < nextId
  /\ \A c \in Cleaners : \A x \in due[c] : x[4] < nextId

AloneInv ==
  \A c, d \in Cleaners : Busy(c) /\ ~raced[c] /\ Busy(d) => c = d

DueInv ==
  \A c \in Cleaners : Busy(c) /\ ~raced[c] =>
    \A x \in due[c] \cap rows :
      /\ x[1] \in {table[c]} \cup todo[c]
      /\ scope[c] = All \/ x[2] = scope[c]
      /\ x[3] < cutoff[c][x[1]]

BatchInv ==
  \A c \in Cleaners : pc[c] = "delete" /\ ~raced[c] =>
    /\ ids[c] \subseteq rows
    /\ Cardinality(ids[c]) < BatchSize =>
         \A x \in due[c] \cap rows : x[1] = table[c] => x \in ids[c]

Aged(x) == \E r \in Retentions : x[3] + r[x[1]] < now

OldInv ==
  \A c \in Cleaners :
    /\ Busy(c) => \A t \in Tables :
         cutoff[c][t] = 0 \/ \E r \in Retentions : cutoff[c][t] + r[t] <= now
    /\ \A x \in ids[c] :
         pc[c] = "delete" /\ InScope(x, table[c], scope[c]) /\ Aged(x)

IInv == TypeOK /\ IdInv /\ AloneInv /\ DueInv /\ BatchInv /\ OldInv /\ UnracedIsComplete

LEMMA RetentionsPositive == \A r \in Retentions : r \in [Tables -> Nat \ {0}]
  BY CleanupAssumption DEF CleanupAssumption, Retentions

LEMMA InitIInv == Init => IInv
  <1> SUFFICES ASSUME Init PROVE IInv
    OBVIOUS
  <1> USE CleanupAssumption DEF CleanupAssumption, Init
  <1>1. raced \in [Cleaners -> BOOLEAN] /\ cutoff \in [Cleaners -> [Tables -> 0..MaxTime]]
    OBVIOUS
  <1>2. TypeOK
    BY <1>1 DEF TypeOK, Tables
  <1>3. IdInv /\ AloneInv /\ DueInv /\ BatchInv /\ OldInv /\ UnracedIsComplete
    BY DEF IdInv, AloneInv, DueInv, BatchInv, OldInv, UnracedIsComplete, Busy
  <1> QED
    BY <1>2, <1>3 DEF IInv

\* Starting a cleanup, by the loop or by a request.
LEMMA CleanupIInv ==
  ASSUME IInv, NEW c \in Cleaners, ~Busy(c),
         NEW T \in SUBSET Tables, T # {}, NEW m \in Machines \cup {All},
         NEW days \in Retentions, Cleanup(c, T, m, days),
         UNCHANGED <<now, rows, nextId, hook, loop>>
  PROVE  IInv'
  <1> USE CleanupAssumption DEF CleanupAssumption
  <1> DEFINE cut == [t \in Tables |-> IF days[t] <= now THEN now - days[t] ELSE 0]
             first == IF "samples" \in T THEN "samples" ELSE "alerts"
             owed == UNION { Matching(t, m, cut[t]) : t \in T }
  <1>1. days \in [Tables -> Nat \ {0}] /\ now \in 0..MaxTime
    BY RetentionsPositive DEF IInv, TypeOK
  <1>2. /\ cut \in [Tables -> 0..MaxTime]
        /\ \A t \in Tables : cut[t] = 0 \/ cut[t] + days[t] <= now
    BY <1>1
  <1>3. /\ first \in T /\ first \in Tables /\ T \ {first} \subseteq {"alerts"}
    BY DEF Tables
  <1>4. /\ owed \subseteq rows
        /\ \A x \in owed : /\ x[1] \in T
                           /\ m = All \/ x[2] = m
                           /\ x[3] < cut[x[1]]
    BY DEF Matching, InScope
  <1>5. /\ pc' = [pc EXCEPT ![c] = "select"]
        /\ table' = [table EXCEPT ![c] = first]
        /\ todo' = [todo EXCEPT ![c] = T \ {first}]
        /\ scope' = [scope EXCEPT ![c] = m]
        /\ cutoff' = [cutoff EXCEPT ![c] = cut]
        /\ answer' = [answer EXCEPT ![c] = "none"]
        /\ due' = [due EXCEPT ![c] = owed]
        /\ raced' = [d \in Cleaners |->
                       IF d = c THEN { e \in Cleaners \ {c} : Busy(e) } # {}
                       ELSE raced[d] \/ d \in { e \in Cleaners \ {c} : Busy(e) }]
        /\ ids' = ids
        /\ UNCHANGED <<now, rows, nextId, hook, loop>>
    BY DEF Cleanup
  <1> HIDE DEF cut, first, owed
  <1>6. raced' \in [Cleaners -> BOOLEAN]
    BY <1>5 DEF IInv, TypeOK
  <1>7. TypeOK'
    BY <1>2, <1>3, <1>4, <1>5, <1>6 DEF IInv, TypeOK
  <1>8. IdInv'
    BY <1>4, <1>5 DEF IInv, TypeOK, IdInv
  <1>9. /\ \A d \in Cleaners : Busy(d)' <=> (d = c \/ Busy(d))
        /\ \A d \in Cleaners : d # c => (~raced'[d] <=> ~raced[d] /\ ~Busy(d))
        /\ ~raced'[c] <=> \A d \in Cleaners : Busy(d) => d = c
    BY <1>5 DEF IInv, TypeOK, Busy
  <1>10. AloneInv'
    BY <1>9 DEF AloneInv
  <1>11. DueInv'
    BY <1>3, <1>4, <1>5, <1>9 DEF IInv, TypeOK, DueInv
  <1>12. BatchInv'
    BY <1>5, <1>9 DEF IInv, TypeOK, BatchInv, Busy
  <1>13. OldInv'
    <2>1. ids[c] = {}
      BY DEF IInv, OldInv, Busy
    <2>2. \A d \in Cleaners : \A x \in ids[d] : d # c
      BY <2>1
    <2> QED
      BY <1>2, <1>5, <1>9, <2>2 DEF IInv, TypeOK, OldInv, Aged, InScope
  <1>14. UnracedIsComplete'
    BY <1>5, <1>9 DEF IInv, TypeOK, UnracedIsComplete
  <1> QED
    BY <1>7, <1>8, <1>10, <1>11, <1>12, <1>13, <1>14 DEF IInv

LEMMA SelectIInv ==
  ASSUME IInv, NEW c \in Cleaners, Select(c) PROVE IInv'
  <1> USE CleanupAssumption DEF CleanupAssumption
  <1> DEFINE expired == Matching(table[c], scope[c], cutoff[c][table[c]])
  <1>1. PICK S \in SUBSET expired :
          /\ Cardinality(S) = BatchSize \/ (S = expired /\ Cardinality(S) < BatchSize)
          /\ ids' = [ids EXCEPT ![c] = S]
    BY DEF Select
  <1>2. /\ pc[c] = "select"
        /\ pc' = [pc EXCEPT ![c] = "delete"]
        /\ UNCHANGED <<now, rows, nextId, hook, loop, table, todo, scope, cutoff, answer, due, raced>>
    BY DEF Select
  <1>3. \A x : x \in expired <=> /\ x \in rows /\ InScope(x, table[c], scope[c])
                                 /\ x[3] < cutoff[c][table[c]]
    BY DEF Matching
  <1> HIDE DEF expired
  <1>4. TypeOK'
    BY <1>1, <1>2, <1>3 DEF IInv, TypeOK
  <1>5. IdInv' /\ UnracedIsComplete'
    BY <1>2 DEF IInv, IdInv, UnracedIsComplete
  <1>6. \A d \in Cleaners : Busy(d)' <=> Busy(d)
    BY <1>2 DEF IInv, TypeOK, Busy
  <1>7. AloneInv' /\ DueInv'
    BY <1>2, <1>6 DEF IInv, AloneInv, DueInv
  <1>8. BatchInv'
    <2>1. Busy(c)
      BY <1>2 DEF Busy
    <2>2. ~raced[c] /\ Cardinality(S) < BatchSize =>
            \A x \in due[c] \cap rows : x[1] = table[c] => x \in S
      BY <1>1, <1>3, <2>1 DEF IInv, DueInv, InScope
    <2>3. ids'[c] = S /\ \A d \in Cleaners : d # c => ids'[d] = ids[d]
      BY <1>1 DEF IInv, TypeOK
    <2>4. \A d \in Cleaners : d # c => pc'[d] = pc[d]
      BY <1>2 DEF IInv, TypeOK
    <2> QED
      BY <1>1, <1>2, <1>3, <2>2, <2>3, <2>4 DEF IInv, BatchInv
  <1>9. OldInv'
    <2>1. Busy(c)
      BY <1>2 DEF Busy
    <2>2. \A x \in S : Aged(x)
      <3> SUFFICES ASSUME NEW x \in S PROVE Aged(x)
        OBVIOUS
      <3>1. x \in Rows /\ x[1] = table[c] /\ x[3] < cutoff[c][x[1]] /\ x[3] \in Nat
        BY <1>1, <1>3 DEF IInv, TypeOK, Rows, InScope
      <3>2. table[c] \in Tables /\ cutoff[c][table[c]] \in Nat /\ now \in Nat
        BY DEF IInv, TypeOK
      <3>3. PICK r \in Retentions : cutoff[c][x[1]] + r[x[1]] <= now
        BY <2>1, <3>1, <3>2 DEF IInv, OldInv
      <3>4. r[x[1]] \in Nat
        BY <3>1, <3>2, RetentionsPositive
      <3> QED
        BY <3>1, <3>2, <3>3, <3>4 DEF Aged
    <2>3. ids'[c] = S /\ \A d \in Cleaners : d # c => ids'[d] = ids[d]
      BY <1>1 DEF IInv, TypeOK
    <2>4. \A x : Aged(x)' <=> Aged(x)
      BY <1>2 DEF Aged
    <2>5. \A d \in Cleaners : d # c => pc'[d] = pc[d]
      BY <1>2 DEF IInv, TypeOK
    <2>6. pc'[c] = "delete"
      BY <1>2 DEF IInv, TypeOK
    <2> QED
      BY <1>1, <1>2, <1>3, <1>6, <2>2, <2>3, <2>4, <2>5, <2>6 DEF IInv, OldInv, InScope
  <1> QED
    BY <1>4, <1>5, <1>7, <1>8, <1>9 DEF IInv

\* What a step of cleanup c may do to the tables and to the other cleanups:
\* it only removes rows, and if it was alone nobody else is at work.
LEMMA OthersKeep ==
  ASSUME IInv, NEW c \in Cleaners, Busy(c), rows' \subseteq rows,
         UNCHANGED <<now, nextId, raced>>,
         NEW d \in Cleaners, d # c, pc'[d] = pc[d], table'[d] = table[d],
         todo'[d] = todo[d], scope'[d] = scope[d], cutoff'[d] = cutoff[d],
         ids'[d] = ids[d], answer'[d] = answer[d], due'[d] = due[d]
  PROVE  /\ Busy(d) => raced[d]
         /\ answer'[d] = "ok" /\ ~raced'[d] => due'[d] \cap rows' = {}
         /\ Busy(d)' => \A t \in Tables :
              cutoff'[d][t] = 0 \/ \E r \in Retentions : cutoff'[d][t] + r[t] <= now'
         /\ \A x \in ids'[d] :
              pc'[d] = "delete" /\ InScope(x, table'[d], scope'[d]) /\ Aged(x)'
  <1>1. Busy(d) => raced[d]
    BY DEF IInv, AloneInv
  <1>2. answer'[d] = "ok" /\ ~raced'[d] => due'[d] \cap rows' = {}
    BY DEF IInv, UnracedIsComplete
  <1>3. Busy(d)' <=> Busy(d)
    BY DEF Busy
  <1>4. \A x : Aged(x)' <=> Aged(x)
    BY DEF Aged
  <1> QED
    BY <1>1, <1>2, <1>3, <1>4 DEF IInv, OldInv

\* A cleanup ends; if it reports success alone, it owes nothing.
LEMMA ReturnIInv ==
  ASSUME IInv, NEW c \in Cleaners, Busy(c), NEW result \in {"ok", "error"},
         Return(c, result), rows' \subseteq rows,
         UNCHANGED <<now, nextId, hook, raced>>,
         result = "ok" /\ ~raced[c] => due[c] \cap rows' = {}
  PROVE  IInv'
  <1> USE CleanupAssumption DEF CleanupAssumption
  <1>0. [t \in Tables |-> 0] \in [Tables -> 0..MaxTime]
    OBVIOUS
  <1>1. TypeOK'
    BY <1>0 DEF IInv, TypeOK, Return, Tables
  <1>2. /\ pc'[c] = "idle" /\ ids'[c] = {} /\ answer'[c] = result
        /\ due'[c] = IF result = "ok" THEN due[c] ELSE {}
    BY DEF IInv, TypeOK, Return
  <1>3. \A d \in Cleaners : d # c =>
          /\ pc'[d] = pc[d] /\ table'[d] = table[d] /\ todo'[d] = todo[d]
          /\ scope'[d] = scope[d] /\ cutoff'[d] = cutoff[d] /\ ids'[d] = ids[d]
          /\ answer'[d] = answer[d] /\ due'[d] = due[d]
    BY DEF IInv, TypeOK, Return
  <1>4. \A d \in Cleaners : d # c =>
         /\ Busy(d) => raced[d]
         /\ answer'[d] = "ok" /\ ~raced'[d] => due'[d] \cap rows' = {}
         /\ Busy(d)' => \A t \in Tables :
              cutoff'[d][t] = 0 \/ \E r \in Retentions : cutoff'[d][t] + r[t] <= now'
         /\ \A x \in ids'[d] :
              pc'[d] = "delete" /\ InScope(x, table'[d], scope'[d]) /\ Aged(x)'
    BY <1>3, OthersKeep
  <1>5. ~Busy(c)' /\ \A d \in Cleaners : d # c => (Busy(d)' <=> Busy(d))
    BY <1>2, <1>3 DEF Busy
  <1>6. IdInv'
    BY <1>2, <1>3 DEF IInv, IdInv
  <1>7. \A d \in Cleaners : Busy(d)' => raced'[d]
    BY <1>4, <1>5
  <1>8. AloneInv' /\ DueInv'
    BY <1>7 DEF AloneInv, DueInv
  <1>9. BatchInv'
    BY <1>7 DEF BatchInv, Busy
  <1>10. OldInv'
    BY <1>2, <1>4, <1>5 DEF OldInv, InScope
  <1>11. UnracedIsComplete'
    BY <1>2, <1>4 DEF UnracedIsComplete
  <1> QED
    BY <1>1, <1>6, <1>8, <1>9, <1>10, <1>11 DEF IInv

LEMMA FailIInv ==
  ASSUME IInv, NEW c \in Cleaners, Fail(c) PROVE IInv'
  <1>1. /\ Busy(c) /\ Return(c, "error") /\ rows' \subseteq rows
        /\ UNCHANGED <<now, nextId, hook, raced>>
    BY DEF Fail
  <1> QED
    BY <1>1, ReturnIInv

LEMMA DeleteIInv ==
  ASSUME IInv, NEW c \in Cleaners, Delete(c) PROVE IInv'
  <1> USE CleanupAssumption DEF CleanupAssumption
  <1> DEFINE deleted == ids[c] \cap rows
  <1>1. /\ pc[c] = "delete" /\ Busy(c)
        /\ rows' = rows \ deleted
        /\ UNCHANGED <<now, nextId, hook, raced>>
    BY DEF Delete, Busy
  <1>2. ~raced[c] => deleted = ids[c]
    BY <1>1 DEF IInv, BatchInv
  <1>3. ~raced[c] /\ LastBatch(deleted) =>
          \A x \in due[c] \cap rows' : x[1] \in todo[c]
    <2> SUFFICES ASSUME ~raced[c], LastBatch(deleted),
                        NEW x \in due[c] \cap rows'
                 PROVE  x[1] \in todo[c]
      OBVIOUS
    <2>1. Cardinality(ids[c]) < BatchSize
      BY <1>2 DEF LastBatch
    <2>2. x[1] = table[c] => x \in ids[c]
      BY <1>1, <2>1 DEF IInv, BatchInv
    <2>3. x \notin ids[c] /\ x \in due[c] \cap rows
      BY <1>1
    <2>4. x[1] \in {table[c]} \cup todo[c]
      BY <1>1, <2>3 DEF IInv, DueInv
    <2> QED
      BY <2>2, <2>3, <2>4
  <1>4. \A x : Aged(x)' <=> Aged(x)
    BY <1>1 DEF Aged
  <1>5. CASE ~LastBatch(deleted)
    <2>1. /\ pc' = [pc EXCEPT ![c] = "select"]
          /\ ids' = [ids EXCEPT ![c] = {}]
          /\ UNCHANGED <<loop, table, todo, scope, cutoff, answer, due>>
      BY <1>5 DEF Delete
    <2>2. TypeOK'
      BY <1>1, <2>1 DEF IInv, TypeOK
    <2>3. IdInv' /\ UnracedIsComplete'
      BY <1>1, <2>1 DEF IInv, IdInv, UnracedIsComplete
    <2>4. \A d \in Cleaners : Busy(d)' <=> Busy(d)
      BY <1>1, <2>1 DEF IInv, TypeOK, Busy
    <2>5. AloneInv' /\ DueInv'
      BY <1>1, <2>1, <2>4 DEF IInv, AloneInv, DueInv
    <2>6. BatchInv'
      <3>1. \A d \in Cleaners : pc'[d] = "delete" => d # c /\ pc[d] = "delete"
        BY <2>1 DEF IInv, TypeOK
      <3>2. \A d \in Cleaners : pc'[d] = "delete" => raced[d]
        BY <1>1, <3>1 DEF IInv, AloneInv, Busy
      <3> QED
        BY <1>1, <3>2 DEF BatchInv
    <2>7. OldInv'
      <3>1. \A d \in Cleaners : d # c => ids'[d] = ids[d] /\ pc'[d] = pc[d]
        BY <2>1 DEF IInv, TypeOK
      <3>2. ids'[c] = {}
        BY <2>1 DEF IInv, TypeOK
      <3> QED
        BY <1>1, <1>4, <2>1, <2>4, <3>1, <3>2 DEF IInv, OldInv, InScope
    <2> QED
      BY <2>2, <2>3, <2>5, <2>6, <2>7 DEF IInv
  <1>6. CASE LastBatch(deleted) /\ todo[c] # {}
    <2>1. /\ pc' = [pc EXCEPT ![c] = "select"]
          /\ table' = [table EXCEPT ![c] = "alerts"]
          /\ todo' = [todo EXCEPT ![c] = {}]
          /\ ids' = [ids EXCEPT ![c] = {}]
          /\ UNCHANGED <<loop, scope, cutoff, answer, due>>
      BY <1>6 DEF Delete
    <2>2. TypeOK'
      BY <1>1, <2>1 DEF IInv, TypeOK, Tables
    <2>3. IdInv' /\ UnracedIsComplete'
      BY <1>1, <2>1 DEF IInv, IdInv, UnracedIsComplete
    <2>4. \A d \in Cleaners : Busy(d)' <=> Busy(d)
      BY <1>1, <2>1 DEF IInv, TypeOK, Busy
    <2>5. AloneInv'
      BY <1>1, <2>1, <2>4 DEF IInv, AloneInv
    <2>6. \A d \in Cleaners : d # c /\ Busy(d) => raced[d]
      BY <1>1 DEF IInv, AloneInv
    <2>7. DueInv'
      <3> SUFFICES ASSUME NEW d \in Cleaners, Busy(d)', ~raced'[d],
                          NEW x \in due'[d] \cap rows'
                   PROVE  /\ x[1] \in {table'[d]} \cup todo'[d]
                          /\ scope'[d] = All \/ x[2] = scope'[d]
                          /\ x[3] < cutoff'[d][x[1]]
        BY DEF DueInv
      <3>1. d = c
        BY <1>1, <2>4, <2>6
      <3>2. x[1] = "alerts"
        BY <1>1, <1>3, <1>6, <2>1, <3>1 DEF IInv, TypeOK
      <3>3. table'[c] = "alerts"
        BY <2>1 DEF IInv, TypeOK
      <3> QED
        BY <1>1, <2>1, <2>4, <3>1, <3>2, <3>3 DEF IInv, DueInv
    <2>8. BatchInv'
      <3>1. \A d \in Cleaners : pc'[d] = "delete" => d # c /\ pc[d] = "delete"
        BY <2>1 DEF IInv, TypeOK
      <3>2. \A d \in Cleaners : pc'[d] = "delete" => raced[d]
        BY <2>6, <3>1 DEF Busy
      <3> QED
        BY <1>1, <3>2 DEF BatchInv
    <2>9. OldInv'
      <3>1. \A d \in Cleaners : d # c =>
              ids'[d] = ids[d] /\ pc'[d] = pc[d] /\ table'[d] = table[d]
        BY <2>1 DEF IInv, TypeOK
      <3>2. ids'[c] = {}
        BY <2>1 DEF IInv, TypeOK
      <3> QED
        BY <1>1, <1>4, <2>1, <2>4, <3>1, <3>2 DEF IInv, OldInv, InScope
    <2> QED
      BY <2>2, <2>3, <2>5, <2>7, <2>8, <2>9 DEF IInv
  <1>7. CASE LastBatch(deleted) /\ todo[c] = {}
    <2>1. Return(c, "ok")
      BY <1>7 DEF Delete
    <2>2. ~raced[c] => due[c] \cap rows' = {}
      BY <1>3, <1>7
    <2> QED
      BY <1>1, <2>1, <2>2, ReturnIInv
  <1> QED
    BY <1>5, <1>6, <1>7

LEMMA InsertIInv == IInv /\ Insert => IInv'
  <1> SUFFICES ASSUME IInv, Insert PROVE IInv'
    OBVIOUS
  <1> USE CleanupAssumption DEF CleanupAssumption
  <1>1. PICK t \in Tables, m \in Machines, d \in 0..now :
          rows' = rows \cup {<<t, m, d, nextId>>}
    BY DEF Insert
  <1> DEFINE new == <<t, m, d, nextId>>
  <1>2. /\ nextId \in 1..MaxRows /\ nextId' = nextId + 1
        /\ UNCHANGED <<now, hook, loop, pc, table, todo, scope, cutoff, ids, answer, due, raced>>
    BY DEF Insert, jobVars, IInv, TypeOK
  <1>3. new \in Rows /\ new[4] = nextId
    BY <1>1, <1>2 DEF IInv, TypeOK, Rows
  <1>4. \A x \in Rows : x[4] \in Nat
    BY DEF Rows
  <1>5. /\ rows \subseteq Rows /\ \A c \in Cleaners : due[c] \subseteq Rows
        /\ new \notin rows /\ \A c \in Cleaners : new \notin due[c]
    BY <1>2, <1>3, <1>4 DEF IInv, TypeOK, IdInv
  <1> HIDE DEF new
  <1>6. rows' = rows \cup {new}
    BY <1>1 DEF new
  <1>7. TypeOK'
    BY <1>2, <1>3, <1>6 DEF IInv, TypeOK
  <1>8. IdInv'
    <2>1. \A x \in rows \cup {new} : x[4] < nextId + 1
      BY <1>2, <1>3, <1>4, <1>5 DEF IInv, IdInv
    <2>2. \A c \in Cleaners : \A x \in due[c] : x[4] < nextId + 1
      BY <1>2, <1>4, <1>5 DEF IInv, IdInv
    <2> QED
      BY <1>2, <1>6, <2>1, <2>2 DEF IdInv
  <1>9. \A c \in Cleaners : due[c] \cap rows' = due[c] \cap rows
    BY <1>5, <1>6
  <1>10. AloneInv' /\ DueInv' /\ UnracedIsComplete'
    BY <1>2, <1>9 DEF IInv, AloneInv, DueInv, UnracedIsComplete, Busy
  <1>11. BatchInv'
    BY <1>2, <1>6, <1>9 DEF IInv, BatchInv
  <1>12. OldInv'
    BY <1>2 DEF IInv, OldInv, Busy, Aged, InScope
  <1> QED
    BY <1>7, <1>8, <1>10, <1>11, <1>12 DEF IInv

LEMMA NextDayIInv == IInv /\ NextDay => IInv'
  <1> SUFFICES ASSUME IInv, NextDay PROVE IInv'
    OBVIOUS
  <1> USE CleanupAssumption DEF CleanupAssumption
  <1>1. /\ now' = now + 1 /\ now < MaxTime /\ now \in 0..MaxTime
        /\ UNCHANGED <<rows, nextId, hook, loop, pc, table, todo, scope, cutoff,
                       ids, answer, due, raced>>
    BY DEF NextDay, jobVars, IInv, TypeOK
  <1>2. TypeOK'
    BY <1>1 DEF IInv, TypeOK
  <1>3. IdInv' /\ AloneInv' /\ DueInv' /\ BatchInv' /\ UnracedIsComplete'
    BY <1>1 DEF IInv, IdInv, AloneInv, DueInv, BatchInv, UnracedIsComplete, Busy
  <1>4. OldInv'
    <2>1. \A c \in Cleaners : Busy(c)' => \A t \in Tables :
            cutoff'[c][t] = 0 \/ \E r \in Retentions : cutoff'[c][t] + r[t] <= now'
      <3> SUFFICES ASSUME NEW c \in Cleaners, Busy(c), NEW t \in Tables,
                          cutoff[c][t] # 0
                   PROVE  \E r \in Retentions : cutoff[c][t] + r[t] <= now + 1
        BY <1>1 DEF Busy
      <3>1. PICK r \in Retentions : cutoff[c][t] + r[t] <= now
        BY DEF IInv, OldInv
      <3>2. cutoff[c][t] \in Nat /\ r[t] \in Nat
        BY RetentionsPositive DEF IInv, TypeOK
      <3> QED
        BY <1>1, <3>1, <3>2
    <2>2. \A x \in Rows : Aged(x) => Aged(x)'
      <3> SUFFICES ASSUME NEW x \in Rows, Aged(x) PROVE Aged(x)'
        OBVIOUS
      <3>1. PICK r \in Retentions : x[3] + r[x[1]] < now
        BY DEF Aged
      <3>2. x[3] \in Nat /\ r[x[1]] \in Nat
        BY RetentionsPositive DEF Rows
      <3>3. x[3] + r[x[1]] < now'
        BY <1>1, <3>1, <3>2
      <3> QED
        BY <3>3 DEF Aged
    <2>3. \A c \in Cleaners : ids[c] \subseteq Rows
      BY DEF IInv, TypeOK
    <2> QED
      BY <1>1, <2>1, <2>2, <2>3 DEF IInv, OldInv, InScope
  <1> QED
    BY <1>2, <1>3, <1>4 DEF IInv

LEMMA NextIInv == IInv /\ [Next]_vars => IInv'
  <1> SUFFICES ASSUME IInv, [Next]_vars PROVE IInv'
    OBVIOUS
  <1> USE CleanupAssumption DEF CleanupAssumption
  <1>1. CASE RunOnce
    <2>1. Sched \in Cleaners /\ Days \in Retentions /\ Tables # {}
      BY DEF Cleaners, Retentions, Tables
    <2> QED
      BY <1>1, <2>1, CleanupIInv DEF RunOnce
  <1>2. ASSUME NEW c \in Cleaners, Request(c) PROVE IInv'
    <2>1. PICK q \in Asked : Cleanup(c, q.tables, q.machine, q.days)
      BY <1>2 DEF Request
    <2>0. q.tables \in (SUBSET Tables) \ {{}} /\ q.machine \in Machines \cup {All}
      OBVIOUS
    <2>2. /\ q.tables \in SUBSET Tables /\ q.tables # {}
          /\ q.machine \in Machines \cup {All} /\ q.days \in Retentions
      BY <2>0 DEF Retentions
    <2>3. ~Busy(c) /\ UNCHANGED <<now, rows, nextId, hook, loop>>
      BY <1>2 DEF Request
    <2> QED
      BY <2>1, <2>2, <2>3, CleanupIInv
  <1>3. ASSUME NEW c \in Cleaners, Step(c) PROVE IInv'
    BY <1>3, SelectIInv, DeleteIInv, FailIInv DEF Step
  <1>4. CASE TakeTick \/ Stop \/ LeaveLoop \/ OnStopReturns \/ OnStopTimesOut
    <2>1. UNCHANGED <<now, rows, nextId, jobVars>>
      BY <1>4 DEF TakeTick, Stop, LeaveLoop, OnStopReturns, OnStopTimesOut
    <2>2. TypeOK'
      BY <1>4, <2>1 DEF TakeTick, Stop, LeaveLoop, OnStopReturns, OnStopTimesOut, jobVars, IInv, TypeOK
    <2>3. IdInv' /\ AloneInv' /\ DueInv' /\ BatchInv' /\ OldInv' /\ UnracedIsComplete'
      BY <2>1 DEF jobVars, IInv, IdInv, AloneInv, DueInv, BatchInv, OldInv, Aged,
                  InScope, UnracedIsComplete, Busy
    <2> QED
      BY <2>2, <2>3 DEF IInv
  <1>5. CASE Insert \/ NextDay
    BY <1>5, InsertIInv, NextDayIInv
  <1>6. CASE UNCHANGED vars
    BY <1>6 DEF vars, jobVars, IInv, TypeOK, IdInv, AloneInv, DueInv, BatchInv,
                OldInv, Aged, InScope, UnracedIsComplete, Busy
  <1> QED
    BY <1>1, <1>2, <1>3, <1>4, <1>5, <1>6 DEF Next

\* The inductive invariant of the cleanup.
THEOREM CleanupInvariant == Spec => []IInv
  BY InitIInv, NextIInv, PTL DEF Spec

\* The cleanup's state keeps its type.
THEOREM CleanupTypeCorrect == Spec => []TypeOK
  BY CleanupInvariant, PTL DEF IInv

\* A cleanup that no other one overlapped and that answered without an error
\* has deleted every row that was expired at its start, for every batch size.
THEOREM CleanupUnracedIsComplete == Spec => []UnracedIsComplete
  BY CleanupInvariant, PTL DEF IInv

LEMMA DeletesStep ==
  IInv /\ [Next]_vars =>
    [\A x \in rows \ rows' :
       \E c \in Cleaners, d \in {Days} \cup { q.days : q \in Asked } :
         Busy(c) /\ InScope(x, table[c], scope[c]) /\ x[3] + d[x[1]] < now]_vars
  <1> SUFFICES ASSUME IInv, Next, NEW x \in rows \ rows'
               PROVE  \E c \in Cleaners, d \in Retentions :
                        Busy(c) /\ InScope(x, table[c], scope[c]) /\ x[3] + d[x[1]] < now
    BY DEF vars, Retentions
  <1>1. PICK c \in Cleaners : pc[c] = "delete" /\ x \in ids[c]
    BY DEF Next, RunOnce, TakeTick, Stop, LeaveLoop, OnStopReturns, OnStopTimesOut, Request,
           Step, Select, Delete, Fail, Insert, NextDay
  <1>2. InScope(x, table[c], scope[c]) /\ Aged(x)
    BY <1>1 DEF IInv, OldInv
  <1> QED
    BY <1>1, <1>2 DEF Busy, Aged

\* No step of the service's cleanups deletes a row that is younger than every
\* retention in use, or outside the scope of a running cleanup.
THEOREM CleanupDeletesOnlyExpired == Spec => DeletesOnlyExpired
  BY CleanupInvariant, DeletesStep, PTL DEF Spec, DeletesOnlyExpired

=============================================================================
