------------------------- MODULE ServiceProcessProofs -------------------------
(***************************************************************************)
(* Proofs about ServiceProcess for any number of requests in flight, any   *)
(* administrators, configurations and restarts: the order of the fx hooks  *)
(* keeps the pool open under its users and an administrator behind every   *)
(* listening server, and only the holder of a password or restore mode     *)
(* changes it.                                                             *)
(***************************************************************************)
EXTENDS ServiceProcess, RestoreToken, TLAPS

NoneActive == \A r \in Requests : ~Active(r)

\* What has been started, by the hook the process has reached.
Reached(n) == phase = "up" \/ (phase \in {"starting", "stopping"} /\ hook >= n)

Lifecycle ==
  /\ phase = "starting" => hook >= 1
  /\ phase = "up" => hook = 5
  /\ pool = "closed" => phase = "down" \/ (phase = "stopping" /\ hook = 0)
  /\ worker["scheduler"] # "off" => Reached(4) /\ (phase = "starting" => hook = 5)
  /\ worker["cleanup"] # "off" => Reached(5) /\ phase # "starting"
  /\ phase = "down" \/ (phase = "starting" /\ hook <= 3) => ~listening /\ NoneActive
  /\ phase = "stopping" /\ hook <= 2 => ~listening /\ (gaveUp \/ NoneActive)

\* An account is there from the bootstrap hook on, and while the bootstrap is
\* about to insert one no request can.
Accounts ==
  /\ phase # "down" => Validate(cfg)
  /\ Reached(3) => \E u \in Users : admins[u] # None
  /\ phase = "starting" /\ boot = "create" =>
       hook = 2 /\ admins[BootstrapUser(cfg)] = None

\* What is known of a request q, given the tables and the configuration.
Good(q, a, g, restore) ==
  q.pc # "none" =>
    /\ guestEnabled(g) => q.wasOn
    /\ q.user # None => a[q.user] \in q.held
    /\ q.pc = "handler" => q.wasOn
    /\ q.kind = "reset" => restore
    /\ q.kind \in {"login", "password", "reset"} => q.user \in Users
    /\ q.kind \in {"password", "reset"} => q.new # None
    /\ q.pc = "update" =>
         /\ q.kind \in {"password", "reset"} /\ q.new # Short
         /\ q.kind = "password" => q.cur \in q.held

ReqInv == \A r \in Requests : Good(req[r], admins, guest, cfg.restore)

IInv == TypeOK /\ Lifecycle /\ Accounts /\ ReqInv

-----------------------------------------------------------------------------
\* The five hooks by position.
LEMMA HookOrder ==
  /\ Len(Hooks) = 5
  /\ Hooks[1] = "db" /\ Hooks[2] = "admin" /\ Hooks[3] = "http"
  /\ Hooks[4] = "scheduler" /\ Hooks[5] = "cleanup"
  BY DEF Hooks

\* The position of each hook.
LEMMA HookAt ==
  ASSUME NEW n \in 1..5
  PROVE  /\ Hooks[n] = "db" <=> n = 1
         /\ Hooks[n] = "admin" <=> n = 2
         /\ Hooks[n] = "http" <=> n = 3
         /\ Hooks[n] = "scheduler" <=> n = 4
         /\ Hooks[n] = "cleanup" <=> n = 5
  <1>1. n = 1 \/ n = 2 \/ n = 3 \/ n = 4 \/ n = 5
    OBVIOUS
  <1> QED
    BY <1>1, HookOrder

\* A slot without a request.
LEMMA NoReqFacts ==
  /\ NoReq \in RequestSpace /\ NoReq.pc = "none"
  /\ \A a, g, c : Good(NoReq, a, g, c)
  BY DEF NoReq, RequestSpace, Good

\* Before the first start nothing runs and nobody has an account.
LEMMA ServiceInit == Init => IInv
  <1> SUFFICES ASSUME Init PROVE IInv
    OBVIOUS
  <1> USE DEF Init
  <1>1. \A r \in Requests : req[r] = NoReq
    OBVIOUS
  <1>2. TypeOK
    <2>1. listening \in BOOLEAN /\ gaveUp \in BOOLEAN
      BY Zenon
    <2>2. req \in [Requests -> RequestSpace]
      BY NoReqFacts
    <2>3. hook \in 0..Len(Hooks) /\ starts \in 0..MaxStarts
      BY HookOrder, ServiceAssumption
    <2> QED
      BY <2>1, <2>2, <2>3 DEF TypeOK, Workers
  <1>3. NoneActive
    BY <1>1, NoReqFacts DEF NoneActive, Active
  <1>4. Lifecycle
    BY <1>3 DEF Lifecycle, Reached, Workers
  <1>5. Accounts /\ ReqInv
    BY <1>1, NoReqFacts DEF Accounts, Reached, ReqInv
  <1> QED
    BY <1>2, <1>4, <1>5 DEF IInv

\* The process ends: only the database is left.
LEMMA ServiceExited ==
  ASSUME IInv, Exited, UNCHANGED <<dbVars, cookies, starts>>
  PROVE  IInv'
  <1> USE DEF Exited
  <1>1. \A r \in Requests : req'[r] = NoReq
    OBVIOUS
  <1>2. TypeOK'
    <2>1. listening' \in BOOLEAN /\ gaveUp' \in BOOLEAN
      BY Zenon
    <2>2. req' \in [Requests -> RequestSpace]
      BY NoReqFacts
    <2>3. hook' \in 0..Len(Hooks)
      BY HookOrder
    <2> QED
      BY <2>1, <2>2, <2>3 DEF IInv, TypeOK, Workers, dbVars
  <1>3. NoneActive'
    BY <1>1, NoReqFacts DEF NoneActive, Active
  <1>4. Lifecycle'
    BY <1>3 DEF Lifecycle, Reached, Workers
  <1>5. Accounts' /\ ReqInv'
    BY <1>1, NoReqFacts DEF Accounts, Reached, ReqInv
  <1> QED
    BY <1>2, <1>4, <1>5 DEF IInv

\* The start: the configuration is valid and nothing is in flight.
LEMMA ServiceStart ==
  ASSUME IInv, Start
  PROVE  IInv'
  <1> USE DEF IInv, Start
  <1>1. cfg' \in Configs /\ Validate(cfg')
    OBVIOUS
  <1>2. TypeOK'
    <2>1. listening' \in BOOLEAN /\ gaveUp' \in BOOLEAN
      BY Zenon
    <2>2. hook' \in 0..Len(Hooks) /\ starts' \in 0..MaxStarts
      BY HookOrder, ServiceAssumption DEF TypeOK
    <2> QED
      BY <1>1, <2>1, <2>2, ServiceAssumption DEF TypeOK, dbVars
  <1>3. NoneActive /\ NoneActive'
    BY DEF Lifecycle, NoneActive, Active
  <1>4. Lifecycle'
    BY <1>3 DEF Lifecycle, Reached
  <1>5. Accounts'
    BY <1>1 DEF Accounts, Reached
  <1>6. ReqInv'
    BY <1>3 DEF ReqInv, Good, NoneActive, Active
  <1> QED
    BY <1>2, <1>4, <1>5, <1>6

\* A step of the process that leaves the requests and the tables alone.
LEMMA ServiceQuiet ==
  ASSUME IInv, UNCHANGED <<cfg, dbVars, cookies, req>>
  PROVE  ReqInv' /\ (NoneActive' <=> NoneActive)
  BY DEF IInv, ReqInv, NoneActive, Active, dbVars

\* OnStart of the hook at position n returned.
LEMMA ServiceHookStarted ==
  ASSUME IInv, phase = "starting", HookStarted
  PROVE  /\ hook \in 1..5
         /\ hook = 5 => phase' = "up" /\ hook' = 5
         /\ hook # 5 => phase' = "starting" /\ hook' = hook + 1
         /\ hook' \in 0..Len(Hooks) /\ phase' \in {"starting", "up"}
  <1>1. hook \in 0..5 /\ hook >= 1
    BY HookOrder DEF IInv, TypeOK, Lifecycle
  <1> QED
    BY <1>1, HookOrder DEF HookStarted

\* Hooks that start, the bootstrap's insert apart.
LEMMA ServiceStarting ==
  ASSUME IInv, StartDatabase \/ BootstrapCheck \/ StartServer \/ StartWorker \/ StartFailed
  PROVE  IInv'
  <1> USE DEF IInv
  <1>1. /\ phase = "starting" /\ hook \in 1..5
        /\ UNCHANGED <<cfg, pool, gaveUp, starts, dbVars, cookies, req>>
    BY HookOrder DEF TypeOK, Lifecycle, StartDatabase, BootstrapCheck, StartServer,
                     StartWorker, StartFailed
  <1>2. ReqInv' /\ (NoneActive' <=> NoneActive)
    BY <1>1, ServiceQuiet
  <1>3. pool = "open"
    BY <1>1 DEF TypeOK, Lifecycle
  <1>4. CASE StartDatabase
    <2>1. hook = 1 /\ phase' = "starting" /\ hook' = 2 /\ UNCHANGED <<boot, listening, worker>>
      BY <1>1, <1>4, HookAt, ServiceHookStarted DEF StartDatabase
    <2>2. TypeOK'
      BY <1>1, <2>1, HookOrder DEF TypeOK, dbVars
    <2>3. Lifecycle'
      BY <1>1, <1>2, <1>3, <2>1 DEF Lifecycle, Reached
    <2>4. Accounts'
      BY <1>1, <2>1 DEF Accounts, Reached, dbVars
    <2> QED
      BY <1>2, <2>2, <2>3, <2>4
  <1>5. CASE BootstrapCheck
    <2>1. hook = 2 /\ UNCHANGED <<listening, worker>>
      BY <1>1, <1>5, HookAt DEF BootstrapCheck
    <2>2. CASE /\ \/ cfg.user = None /\ cfg.pass # None
                  \/ admins[BootstrapUser(cfg)] # None
               /\ HookStarted /\ UNCHANGED boot
      <3>1. phase' = "starting" /\ hook' = 3
        BY <1>1, <2>1, <2>2, ServiceHookStarted
      <3>2. TypeOK'
        BY <1>1, <2>1, <2>2, <3>1, HookOrder DEF TypeOK, dbVars
      <3>3. Lifecycle'
        BY <1>1, <1>2, <1>3, <2>1, <3>1 DEF Lifecycle, Reached
      <3>4. Validate(cfg) /\ cfg \in Configs
        BY <1>1 DEF Accounts, TypeOK
      <3>5. BootstrapUser(cfg) \in Users /\ admins[BootstrapUser(cfg)] # None
        BY <2>2, <3>4, ServiceAssumption DEF Validate, BootstrapUser, ConfigSpace
      <3>6. boot = "check"
        BY <1>5 DEF BootstrapCheck
      <3>7. Accounts'
        BY <1>1, <2>2, <3>1, <3>4, <3>5, <3>6 DEF Accounts, Reached, dbVars
      <3> QED
        BY <1>2, <3>2, <3>3, <3>7
    <2>3. CASE /\ admins[BootstrapUser(cfg)] = None
               /\ boot' = "create" /\ UNCHANGED <<phase, hook>>
      <3>1. TypeOK'
        BY <1>1, <2>1, <2>3 DEF TypeOK, dbVars
      <3>2. Lifecycle'
        BY <1>1, <1>2, <2>1, <2>3 DEF Lifecycle, Reached
      <3>3. Accounts'
        BY <1>1, <2>1, <2>3 DEF Accounts, Reached, dbVars
      <3> QED
        BY <1>2, <3>1, <3>2, <3>3
    <2> QED
      BY <1>5, <2>2, <2>3 DEF BootstrapCheck
  <1>6. CASE StartServer
    <2>1. /\ hook = 3 /\ phase' = "starting" /\ hook' = 4
          /\ UNCHANGED <<boot, worker>> /\ listening' \in BOOLEAN
      BY <1>1, <1>6, HookAt, ServiceHookStarted DEF StartServer
    <2>2. TypeOK'
      BY <1>1, <2>1, HookOrder DEF TypeOK, dbVars
    <2>3. Lifecycle'
      BY <1>1, <1>2, <1>3, <2>1 DEF Lifecycle, Reached
    <2>4. Accounts'
      BY <1>1, <2>1 DEF Accounts, Reached, dbVars
    <2> QED
      BY <1>2, <2>2, <2>3, <2>4
  <1>7. CASE StartWorker
    <2>1. /\ hook \in {4, 5} /\ UNCHANGED <<boot, listening>>
          /\ hook = 4 => phase' = "starting" /\ hook' = 5
          /\ hook = 5 => phase' = "up" /\ hook' = 5
      BY <1>1, <1>7, HookAt, ServiceHookStarted DEF StartWorker, Workers
    <2>2. PICK st \in {"idle", "off"} : worker' = [worker EXCEPT ![Hooks[hook]] = st]
      BY <1>7 DEF StartWorker
    <2>3. TypeOK'
      <3>1. worker' \in [Workers -> {"off", "idle", "busy"}]
        BY <2>2 DEF TypeOK
      <3>2. hook' \in 0..Len(Hooks) /\ phase' \in {"starting", "up"}
        BY <2>1, HookOrder
      <3> QED
        BY <1>1, <2>1, <3>1, <3>2 DEF TypeOK, dbVars
    <2>4. hook = 4 => worker'["cleanup"] = worker["cleanup"]
      BY <2>2, HookOrder DEF TypeOK, Workers
    <2>5. Lifecycle'
      BY <1>1, <1>2, <1>3, <2>1, <2>4 DEF Lifecycle, Reached
    <2>6. Accounts'
      BY <1>1, <2>1 DEF Accounts, Reached, dbVars
    <2> QED
      BY <1>2, <2>3, <2>5, <2>6
  <1>8. CASE StartFailed
    <2>1. /\ hook \in {1, 2} /\ phase' = "stopping" /\ hook' = hook - 1
          /\ UNCHANGED <<boot, listening, worker>>
      BY <1>1, <1>8, HookAt DEF StartFailed
    <2>2. TypeOK'
      BY <1>1, <2>1, HookOrder DEF TypeOK, dbVars
    <2>3. Lifecycle'
      BY <1>1, <1>2, <1>3, <2>1 DEF Lifecycle, Reached
    <2>4. Accounts'
      BY <1>1, <2>1 DEF Accounts, Reached, dbVars
    <2> QED
      BY <1>2, <2>2, <2>3, <2>4
  <1> QED
    BY <1>4, <1>5, <1>6, <1>7, <1>8

\* What is known of a request stays known when it notes the new tables.
LEMMA NotedGood ==
  ASSUME IInv, NEW a \in [Users -> Secrets \cup {None}], NEW g \in {"absent", "true", "false"},
         NEW r \in Requests
  PROVE  /\ Noted(a, g)[r] \in RequestSpace
         /\ Noted(a, g)[r].pc = req[r].pc
         /\ Good(Noted(a, g)[r], a, g, cfg.restore)
  <1> DEFINE q == req[r]
             h == IF q.user = None THEN {} ELSE q.held \cup {a[q.user]}
             w == q.wasOn \/ guestEnabled(g)
             new == Noted(a, g)[r]
  <1>1. q \in RequestSpace /\ Good(q, admins, guest, cfg.restore)
    BY DEF IInv, TypeOK, ReqInv
  <1>2. CASE q.pc = "none"
    BY <1>1, <1>2 DEF Noted, Active, Good
  <1>3. CASE q.pc # "none"
    <2>1. new = [q EXCEPT !.held = h, !.wasOn = w]
      BY <1>3 DEF Noted, Active
    <2>2. h \in SUBSET (Secrets \cup {None})
      BY <1>1 DEF RequestSpace
    <2>3. w \in BOOLEAN
      BY <1>1 DEF RequestSpace, guestEnabled
    <2>4. PICK d \in BOOLEAN : d = w
      BY <2>3
    <2>41. h = (IF q.user = None THEN {} ELSE q.held \cup {a[q.user]}) /\ (d <=> q.wasOn \/ guestEnabled(g))
      BY <2>4
    <2>42. new = [q EXCEPT !.held = h, !.wasOn = d]
      BY <2>1, <2>4
    <2> HIDE DEF q, h, w, new
    <2>5. /\ new \in RequestSpace /\ new.held = h /\ new.wasOn = d
          /\ new.kind = q.kind /\ new.pc = q.pc /\ new.user = q.user
          /\ new.cur = q.cur /\ new.new = q.new
      <3> DEFINE mid == [q EXCEPT !.held = h]
      <3>1. q \in RequestSpace /\ new = [mid EXCEPT !.wasOn = d]
        BY <1>1, <2>42
      <3>2. /\ mid \in RequestSpace /\ mid.held = h /\ mid.kind = q.kind /\ mid.pc = q.pc
            /\ mid.user = q.user /\ mid.cur = q.cur /\ mid.new = q.new
        BY <2>2, <3>1 DEF RequestSpace
      <3> HIDE DEF mid
      <3>3. /\ new \in RequestSpace /\ new.held = mid.held /\ new.wasOn = d
            /\ new.kind = mid.kind /\ new.pc = mid.pc /\ new.user = mid.user
            /\ new.cur = mid.cur /\ new.new = mid.new
        BY <3>1, <3>2 DEF RequestSpace
      <3> QED
        BY <3>2, <3>3
    <2>6. q.user = None \/ q.user \in Users
      BY <1>1 DEF RequestSpace
    <2>7. guestEnabled(g) => new.wasOn
      BY <2>41, <2>5
    <2>8. q.wasOn => new.wasOn
      BY <2>41, <2>5
    <2>9. q.pc = "update" => q.user \in Users
      BY <1>1 DEF Good
    <2>10. Good(new, a, g, cfg.restore)
      BY <1>1, <1>3, <2>41, <2>5, <2>6, <2>7, <2>8, <2>9, ServiceAssumption DEF Good
    <2> QED
      BY <2>5, <2>10 DEF new, q
  <1> QED
    BY <1>2, <1>3

\* The bootstrap's insert: a password that is not None, for an absent account.
LEMMA ServiceBootstrap ==
  ASSUME IInv, BootstrapCreate
  PROVE  IInv'
  <1> USE DEF IInv
  <1> DEFINE u == BootstrapUser(cfg)
             p == IF cfg.user = None THEN Generated ELSE cfg.pass
  <1>1. /\ phase = "starting" /\ boot' = "check" /\ admins' = [admins EXCEPT ![u] = p]
        /\ req' = Noted(admins', guest) /\ HookStarted
        /\ UNCHANGED <<cfg, pool, listening, gaveUp, worker, starts, guest, cookies>>
    BY DEF BootstrapCreate
  <1>2. hook = 2
    <2>1. hook \in 1..5
      BY <1>1, ServiceHookStarted
    <2> QED
      BY <2>1, HookAt DEF BootstrapCreate
  <1>3. phase' = "starting" /\ hook' = 3
    BY <1>1, <1>2, ServiceHookStarted
  <1>4. Validate(cfg) /\ cfg \in Configs
    BY <1>1 DEF Accounts, TypeOK
  <1>5. u \in Users /\ p \in Secrets /\ p # None
    BY <1>4, ServiceAssumption DEF Validate, BootstrapUser, ConfigSpace, Secrets
  <1> HIDE DEF u, p
  <1>6. admins' \in [Users -> Secrets \cup {None}] /\ admins'[u] # None
    BY <1>1, <1>5 DEF TypeOK
  <1>7. \A r \in Requests : /\ req'[r] \in RequestSpace /\ req'[r].pc = req[r].pc
                            /\ Good(req'[r], admins', guest, cfg.restore)
    BY <1>1, <1>6, NotedGood DEF TypeOK
  <1>8. req' \in [Requests -> RequestSpace]
    BY <1>1, <1>7 DEF Noted
  <1>81. /\ phase = "starting" /\ boot' = "check"
         /\ UNCHANGED <<cfg, pool, listening, gaveUp, worker, starts, guest, cookies>>
    BY <1>1
  <1>9. TypeOK'
    BY <1>3, <1>6, <1>8, <1>81, HookOrder DEF TypeOK
  <1>10. NoneActive' /\ ~listening'
    <2>1. NoneActive /\ ~listening
      BY <1>2, <1>81 DEF Lifecycle
    <2> QED
      BY <1>7, <1>81, <2>1 DEF NoneActive, Active
  <1>11. Lifecycle'
    BY <1>2, <1>3, <1>10, <1>81 DEF Lifecycle, Reached
  <1>12. Accounts'
    BY <1>1, <1>3, <1>4, <1>5, <1>6 DEF Accounts
  <1>13. ReqInv'
    BY <1>1, <1>7 DEF ReqInv
  <1> QED
    BY <1>9, <1>11, <1>12, <1>13

\* The background loops, the signal and the hooks that stop.
LEMMA ServiceStopping ==
  ASSUME IInv,
         \/ \E w \in Workers : WorkerRuns(w)
         \/ Signal \/ StopWorker \/ CloseListener \/ ShutdownReturns \/ StopAdmin \/ CloseDatabase
  PROVE  IInv'
  <1> USE DEF IInv
  <1>1. UNCHANGED <<cfg, boot, starts, dbVars, cookies, req>>
    BY DEF WorkerRuns, Signal, StopWorker, CloseListener, ShutdownReturns, StopAdmin, CloseDatabase
  <1>2. ReqInv' /\ (NoneActive' <=> NoneActive)
    BY <1>1, ServiceQuiet
  <1>3. hook \in 0..5
    BY HookOrder DEF TypeOK
  <1>4. ASSUME NEW w \in Workers, WorkerRuns(w) PROVE IInv'
    <2>1. /\ UNCHANGED <<phase, hook, pool, listening, gaveUp>> /\ worker[w] # "off"
          /\ \E st \in {"idle", "busy"} : worker' = [worker EXCEPT ![w] = st]
      BY <1>4 DEF WorkerRuns
    <2>2. worker' \in [Workers -> {"off", "idle", "busy"}]
      BY <2>1 DEF TypeOK
    <2>3. \A v \in Workers : worker'[v] # "off" => worker[v] # "off"
      BY <2>1 DEF TypeOK
    <2>4. TypeOK'
      BY <1>1, <2>1, <2>2 DEF TypeOK, dbVars
    <2>5. Lifecycle'
      BY <1>1, <1>2, <2>1, <2>3 DEF Lifecycle, Reached, Workers
    <2>6. Accounts'
      BY <1>1, <2>1 DEF Accounts, Reached, dbVars
    <2> QED
      BY <1>2, <2>4, <2>5, <2>6
  <1>5. CASE Signal
    <2>1. phase = "up" /\ phase' = "stopping" /\ UNCHANGED <<hook, pool, listening, gaveUp, worker>>
      BY <1>5 DEF Signal
    <2>2. TypeOK'
      BY <1>1, <2>1 DEF TypeOK, dbVars
    <2>3. Lifecycle'
      BY <1>1, <1>2, <2>1 DEF Lifecycle, Reached
    <2>4. Accounts'
      BY <1>1, <2>1 DEF Accounts, Reached, dbVars
    <2> QED
      BY <1>2, <2>2, <2>3, <2>4
  <1>6. CASE StopWorker
    <2>1. /\ phase = "stopping" /\ phase' = phase /\ hook \in {4, 5} /\ hook' = hook - 1
          /\ worker' = [worker EXCEPT ![Hooks[hook]] = "off"]
          /\ UNCHANGED <<pool, listening, gaveUp>>
      BY <1>3, <1>6, HookAt DEF StopWorker, HookStopped, Workers
    <2>2. worker' \in [Workers -> {"off", "idle", "busy"}]
      BY <2>1 DEF TypeOK
    <2>3. /\ hook = 4 => worker'["scheduler"] = "off" /\ worker'["cleanup"] = worker["cleanup"]
          /\ hook = 5 => worker'["cleanup"] = "off" /\ worker'["scheduler"] = worker["scheduler"]
      BY <2>1, HookOrder DEF TypeOK, Workers
    <2>4. hook' \in 0..Len(Hooks)
      BY <2>1, HookOrder
    <2>5. TypeOK'
      BY <1>1, <2>1, <2>2, <2>4 DEF TypeOK, dbVars
    <2>6. Lifecycle'
      BY <1>1, <1>2, <2>1, <2>3 DEF Lifecycle, Reached
    <2>7. Accounts'
      BY <1>1, <2>1 DEF Accounts, Reached, dbVars
    <2> QED
      BY <1>2, <2>5, <2>6, <2>7
  <1>7. CASE CloseListener
    <2>1. /\ phase = "stopping" /\ listening' = FALSE
          /\ UNCHANGED <<phase, hook, pool, gaveUp, worker>>
      BY <1>7 DEF CloseListener
    <2>2. listening' \in BOOLEAN
      BY <2>1, Zenon
    <2>3. TypeOK'
      BY <1>1, <2>1, <2>2 DEF TypeOK, dbVars
    <2>4. Lifecycle'
      BY <1>1, <1>2, <2>1 DEF Lifecycle, Reached
    <2>5. Accounts'
      BY <1>1, <2>1 DEF Accounts, Reached, dbVars
    <2> QED
      BY <1>2, <2>3, <2>4, <2>5
  <1>8. CASE ShutdownReturns
    <2>1. /\ phase = "stopping" /\ hook = 3 /\ hook' = 2 /\ ~listening
          /\ UNCHANGED <<phase, pool, listening, worker>>
      BY <1>3, <1>8, HookAt DEF ShutdownReturns, HookStopped
    <2>2. gaveUp' \in BOOLEAN
      BY <1>8, Zenon DEF ShutdownReturns
    <2>3. TypeOK'
      BY <1>1, <2>1, <2>2, HookOrder DEF TypeOK, dbVars
    <2>4. gaveUp' \/ NoneActive
      BY <1>8, Zenon DEF ShutdownReturns, NoneActive
    <2>5. Lifecycle'
      BY <1>1, <1>2, <2>1, <2>4 DEF Lifecycle, Reached
    <2>6. Accounts'
      BY <1>1, <2>1 DEF Accounts, Reached, dbVars
    <2> QED
      BY <1>2, <2>3, <2>5, <2>6
  <1>9. CASE StopAdmin
    <2>1. /\ phase = "stopping" /\ hook = 2 /\ hook' = 1
          /\ UNCHANGED <<phase, pool, listening, gaveUp, worker>>
      BY <1>3, <1>9, HookAt DEF StopAdmin, HookStopped
    <2>2. TypeOK'
      BY <1>1, <2>1, HookOrder DEF TypeOK, dbVars
    <2>3. Lifecycle'
      BY <1>1, <1>2, <2>1 DEF Lifecycle, Reached
    <2>4. Accounts'
      BY <1>1, <2>1 DEF Accounts, Reached, dbVars
    <2> QED
      BY <1>2, <2>2, <2>3, <2>4
  <1>10. CASE CloseDatabase
    <2>1. /\ phase = "stopping" /\ hook = 1 /\ hook' = 0 /\ pool' = "closed"
          /\ UNCHANGED <<phase, listening, gaveUp, worker>>
      BY <1>3, <1>10, HookAt DEF CloseDatabase, HookStopped
    <2>2. TypeOK'
      BY <1>1, <2>1, HookOrder DEF TypeOK, dbVars
    <2>3. Lifecycle'
      BY <1>1, <1>2, <2>1 DEF Lifecycle, Reached
    <2>4. Accounts'
      BY <1>1, <2>1 DEF Accounts, Reached, dbVars
    <2> QED
      BY <1>2, <2>2, <2>3, <2>4
  <1> QED
    BY <1>4, <1>5, <1>6, <1>7, <1>8, <1>9, <1>10

-----------------------------------------------------------------------------
(* Requests *)

\* A step of request r that leaves the tables alone.
LEMMA ServiceRequest ==
  ASSUME IInv, NEW r \in Requests, NEW new \in RequestSpace,
         Good(new, admins, guest, cfg.restore),
         new.pc = "none" \/ Active(r) \/ listening,
         req' = [req EXCEPT ![r] = new], cookies' \subseteq Users,
         UNCHANGED <<procVars, dbVars>>
  PROVE  IInv'
  <1> USE DEF IInv
  <1>1. /\ req'[r] = new /\ \A s \in Requests \ {r} : req'[s] = req[s]
        /\ req' \in [Requests -> RequestSpace]
    BY DEF TypeOK
  <1>2. UNCHANGED <<cfg, phase, hook, boot, pool, listening, gaveUp, worker, starts, admins, guest>>
    BY DEF procVars, dbVars
  <1>3. TypeOK'
    BY <1>1, <1>2 DEF TypeOK
  <1>4. ~listening /\ NoneActive => NoneActive'
    BY <1>1 DEF NoneActive, Active
  <1>5. Lifecycle'
    BY <1>2, <1>4 DEF Lifecycle, Reached
  <1>6. Accounts'
    BY <1>2 DEF Accounts, Reached
  <1>7. ReqInv'
    BY <1>1, <1>2 DEF ReqInv
  <1> QED
    BY <1>3, <1>5, <1>6, <1>7

\* A statement of request r that writes a table and ends the request.
LEMMA ServiceWrites ==
  ASSUME IInv, NEW r \in Requests, Active(r),
         admins' \in [Users -> Secrets \cup {None}],
         \A u \in Users : admins[u] # None => admins'[u] # None,
         guest' \in {"absent", "true", "false"},
         req' = [Noted(admins', guest') EXCEPT ![r] = NoReq],
         UNCHANGED <<procVars, cookies>>
  PROVE  IInv'
  <1> USE DEF IInv
  <1>1. \A s \in Requests : /\ Noted(admins', guest')[s] \in RequestSpace
                            /\ Noted(admins', guest')[s].pc = req[s].pc
                            /\ Good(Noted(admins', guest')[s], admins', guest', cfg.restore)
    BY NotedGood
  <1>2. /\ req'[r] = NoReq
        /\ \A s \in Requests \ {r} : req'[s] = Noted(admins', guest')[s]
        /\ DOMAIN req' = Requests
    BY DEF Noted
  <1>3. req' \in [Requests -> RequestSpace]
    <2>1. \A s \in Requests : req'[s] \in RequestSpace
      BY <1>1, <1>2, NoReqFacts
    <2>2. req' = [s \in Requests |-> req'[s]]
      BY DEF Noted
    <2> QED
      BY <2>1, <2>2
  <1>4. UNCHANGED <<cfg, phase, hook, boot, pool, listening, gaveUp, worker, starts, cookies>>
    BY DEF procVars
  <1>5. TypeOK'
    BY <1>3, <1>4 DEF TypeOK
  <1>6. NoneActive => NoneActive'
    BY <1>1, <1>2, NoReqFacts DEF NoneActive, Active
  <1>7. Lifecycle'
    BY <1>4, <1>6 DEF Lifecycle, Reached
  <1>8. ~(phase = "starting" /\ boot = "create")
    BY DEF Lifecycle, Accounts, NoneActive
  <1>9. Accounts'
    BY <1>4, <1>8 DEF Accounts, Reached
  <1>10. \A s \in Requests : Good(req'[s], admins', guest', cfg.restore)
    BY <1>1, <1>2, NoReqFacts
  <1>11. ReqInv'
    BY <1>4, <1>10 DEF ReqInv
  <1> QED
    BY <1>5, <1>7, <1>9, <1>11

\* A new request knows the tables of this moment.
LEMMA ServiceArrives ==
  ASSUME IInv, NEW r \in Requests, listening,
         NEW kind \in {"login", "password", "reset", "guestMode", "read"},
         NEW u \in Users \cup {None}, NEW cur \in Secrets \cup {None},
         NEW q \in Passwords \cup {Short, None},
         kind \in {"login", "password", "reset"} => u \in Users,
         kind \in {"password", "reset"} => q # None,
         Arrives(r, kind, u, cur, q), UNCHANGED <<procVars, dbVars, cookies>>
  PROVE  IInv'
  <1> DEFINE new == [kind |-> kind, pc |-> "begin", user |-> u, cur |-> cur, new |-> q,
                     held |-> IF u = None THEN {} ELSE {admins[u]},
                     wasOn |-> guestEnabled(guest)]
  <1>1. req' = [req EXCEPT ![r] = new] /\ kind \in Routes(cfg.restore)
    BY DEF Arrives
  <1>2. kind = "reset" => cfg.restore
    BY <1>1 DEF Routes
  <1>3. PICK on \in BOOLEAN : on = guestEnabled(guest)
    BY DEF guestEnabled
  <1>4. PICK held \in SUBSET (Secrets \cup {None}) : held = IF u = None THEN {} ELSE {admins[u]}
    BY DEF IInv, TypeOK
  <1>5. new = [kind |-> kind, pc |-> "begin", user |-> u, cur |-> cur, new |-> q,
               held |-> held, wasOn |-> on]
    BY <1>3, <1>4
  <1> HIDE DEF new
  <1>6. new \in RequestSpace
    BY <1>5 DEF RequestSpace
  <1>7. Good(new, admins, guest, cfg.restore)
    <2>1. /\ new.pc = "begin" /\ new.user = u /\ new.kind = kind /\ new.new = q
          /\ new.held = held /\ new.wasOn = on
      BY <1>5
    <2> QED
      BY <1>2, <1>3, <1>4, <2>1 DEF Good
  <1> QED
    BY <1>1, <1>6, <1>7, ServiceRequest DEF IInv, TypeOK

\* A request that ends.
LEMMA ServiceEnds ==
  ASSUME IInv, NEW r \in Requests, req' = [req EXCEPT ![r] = NoReq],
         cookies' \subseteq Users, UNCHANGED <<procVars, dbVars>>
  PROVE  IInv'
  BY ServiceRequest, NoReqFacts

\* A request that passes a check.
LEMMA ServicePasses ==
  ASSUME IInv, NEW r \in Requests, req[r].pc = "begin", NEW next \in {"update", "handler"},
         next = "update" => /\ req[r].kind \in {"password", "reset"} /\ req[r].new # Short
                            /\ req[r].kind = "password" => req[r].cur = admins[req[r].user],
         next = "handler" => guestEnabled(guest),
         req' = [req EXCEPT ![r] = [req[r] EXCEPT !.pc = next]],
         UNCHANGED <<procVars, dbVars, cookies>>
  PROVE  IInv'
  <1> DEFINE new == [req[r] EXCEPT !.pc = next]
  <1>1. req[r] \in RequestSpace /\ Good(req[r], admins, guest, cfg.restore)
    BY DEF IInv, TypeOK, ReqInv
  <1>2. /\ new \in RequestSpace /\ new.pc = next /\ new.kind = req[r].kind
        /\ new.user = req[r].user /\ new.cur = req[r].cur /\ new.new = req[r].new
        /\ new.held = req[r].held /\ new.wasOn = req[r].wasOn
    BY <1>1 DEF RequestSpace
  <1> HIDE DEF new
  <1>3. Good(new, admins, guest, cfg.restore)
    BY <1>1, <1>2, ServiceAssumption DEF Good
  <1>4. Active(r)
    BY DEF Active
  <1>5. req' = [req EXCEPT ![r] = new] /\ cookies' \subseteq Users
    BY DEF new, IInv, TypeOK
  <1> QED
    BY <1>2, <1>3, <1>4, <1>5, ServiceRequest

\* Every step of a request keeps the invariant.
LEMMA ServiceServe ==
  ASSUME IInv, NEW r \in Requests, Serve(r)
  PROVE  IInv'
  <1>1. CASE Begin(r)
    <2>1. listening /\ UNCHANGED <<procVars, dbVars, cookies>>
      BY <1>1 DEF Begin
    <2>2. ASSUME NEW u \in Users, NEW p \in Secrets, Arrives(r, "login", u, p, None) PROVE IInv'
      BY <2>1, <2>2, ServiceArrives
    <2>3. ASSUME NEW u \in Users, NEW p \in Secrets, NEW q \in Passwords \cup {Short},
                 Arrives(r, "password", u, p, q) PROVE IInv'
      <3>1. q # None
        BY ServiceAssumption DEF Secrets
      <3> QED
        BY <2>1, <2>3, <3>1, ServiceArrives
    <2>4. ASSUME NEW u \in Users, NEW q \in Passwords \cup {Short},
                 Arrives(r, "reset", u, None, q) PROVE IInv'
      <3>1. q # None
        BY ServiceAssumption DEF Secrets
      <3> QED
        BY <2>1, <2>4, <3>1, ServiceArrives
    <2>5. ASSUME NEW u \in Users, Arrives(r, "guestMode", u, None, None) PROVE IInv'
      BY <2>1, <2>5, ServiceArrives
    <2>6. CASE Arrives(r, "read", None, None, None)
      BY <2>1, <2>6, ServiceArrives
    <2> QED
      BY <1>1, <2>2, <2>3, <2>4, <2>5, <2>6 DEF Begin
  <1>2. CASE Fail(r) \/ ServeRead(r)
    BY <1>2, ServiceEnds DEF Fail, ServeRead, IInv, TypeOK
  <1>3. CASE Login(r)
    <2>1. Good(req[r], admins, guest, cfg.restore)
      BY DEF IInv, ReqInv
    <2>2. req[r].user \in Users
      BY <1>3, <2>1 DEF Login, Good
    <2>3. cookies' \subseteq Users
      BY <1>3, <2>2 DEF Login, IInv, TypeOK
    <2> QED
      BY <1>3, <2>3, ServiceEnds DEF Login
  <1>4. CASE ChangeCheck(r)
    BY <1>4, ServiceEnds, ServicePasses DEF ChangeCheck, IInv, TypeOK
  <1>5. CASE ResetCheck(r)
    BY <1>5, ServiceEnds, ServicePasses DEF ResetCheck, IInv, TypeOK
  <1>6. CASE RequireAdminOrGuest(r)
    BY <1>6, ServiceEnds, ServicePasses DEF RequireAdminOrGuest, IInv, TypeOK
  <1>7. CASE UpdatePasswordHash(r)
    <2>1. /\ req[r].pc = "update" /\ admins' = [admins EXCEPT ![req[r].user] = req[r].new]
          /\ req' = [Noted(admins', guest) EXCEPT ![r] = NoReq]
          /\ UNCHANGED <<procVars, guest, cookies>>
      BY <1>7 DEF UpdatePasswordHash
    <2>2. req[r] \in RequestSpace /\ Good(req[r], admins, guest, cfg.restore)
      BY DEF IInv, TypeOK, ReqInv
    <2>3. req[r].user \in Users /\ req[r].new # None /\ req[r].new # Short
      BY <2>1, <2>2 DEF Good
    <2>4. req[r].new \in Passwords
      BY <2>2, <2>3 DEF RequestSpace
    <2>5. /\ admins' \in [Users -> Secrets \cup {None}]
          /\ \A u \in Users : admins[u] # None => admins'[u] # None
      BY <2>1, <2>3, <2>4 DEF IInv, TypeOK, Secrets
    <2>6. guest' = guest /\ guest' \in {"absent", "true", "false"}
      BY <2>1 DEF IInv, TypeOK
    <2>7. req' = [Noted(admins', guest') EXCEPT ![r] = NoReq]
      BY <2>1, <2>6
    <2>8. Active(r)
      BY <2>1 DEF Active
    <2> QED
      BY <2>1, <2>5, <2>6, <2>7, <2>8, ServiceWrites
  <1>8. CASE UpdateGuestMode(r)
    <2>1. /\ req[r].pc = "begin" /\ guest' \in {"true", "false", guest}
          /\ req' = [Noted(admins, guest') EXCEPT ![r] = NoReq]
          /\ UNCHANGED <<procVars, admins, cookies>>
      BY <1>8 DEF UpdateGuestMode
    <2>2. guest' \in {"absent", "true", "false"} /\ admins' \in [Users -> Secrets \cup {None}]
      BY <2>1 DEF IInv, TypeOK
    <2>3. req' = [Noted(admins', guest') EXCEPT ![r] = NoReq]
      BY <2>1
    <2>4. Active(r)
      BY <2>1 DEF Active
    <2> QED
      BY <2>1, <2>2, <2>3, <2>4, ServiceWrites
  <1> QED
    BY <1>1, <1>2, <1>3, <1>4, <1>5, <1>6, <1>7, <1>8 DEF Serve

\* Every step keeps the inductive invariant.
LEMMA ServiceStep == IInv /\ [Next]_vars => IInv'
  <1> SUFFICES ASSUME IInv, [Next]_vars PROVE IInv'
    OBVIOUS
  <1>1. CASE Process
    <2>1. CASE Crash \/ StartTimedOut \/ Exit \/ StopTimedOut
      BY <2>1, ServiceExited DEF Crash, StartTimedOut, Exit, StopTimedOut
    <2> QED
      BY <1>1, <2>1, ServiceStart, ServiceStarting, ServiceBootstrap, ServiceStopping DEF Process
  <1>2. ASSUME NEW r \in Requests, Serve(r) PROVE IInv'
    BY <1>2, ServiceServe
  <1>3. CASE UNCHANGED vars
    <2>1. TypeOK'
      BY <1>3 DEF vars, IInv, TypeOK
    <2>2. Lifecycle' /\ Accounts' /\ ReqInv'
      BY <1>3 DEF vars, IInv, Lifecycle, Reached, NoneActive, Active, Accounts, ReqInv
    <2> QED
      BY <2>1, <2>2 DEF IInv
  <1> QED
    BY <1>1, <1>2, <1>3 DEF Next

\* Every reachable state satisfies the inductive invariant.
THEOREM ServiceInvariant == Spec => []IInv
  BY ServiceInit, ServiceStep, PTL DEF Spec

\* The variables of the process, the tables and the requests keep their types.
THEOREM ServiceTypeCorrect == Spec => []TypeOK
  <1>1. IInv => TypeOK
    BY DEF IInv
  <1> QED
    BY <1>1, ServiceInvariant, PTL

\* The hooks of module.go stop the users of the pool before the pool.
THEOREM ServicePoolOutlivesUsers == Spec => []PoolOutlivesUsers
  <1>1. IInv => PoolOutlivesUsers
    <2> SUFFICES ASSUME IInv, phase # "down", pool = "closed"
                 PROVE  /\ \A w \in Workers : worker[w] = "off"
                        /\ gaveUp \/ \A r \in Requests : ~Active(r)
      BY DEF PoolOutlivesUsers
    <2>1. phase = "stopping" /\ hook = 0
      BY DEF IInv, Lifecycle
    <2> QED
      BY <2>1 DEF IInv, Lifecycle, Reached, NoneActive, Workers
  <1> QED
    BY <1>1, ServiceInvariant, PTL

\* A listening server (http.go) has an account behind it (EnsureBootstrapAdmin).
THEOREM ServiceServingHasAdmin == Spec => []ServingHasAdmin
  <1>1. IInv => ServingHasAdmin
    <2> SUFFICES ASSUME IInv, listening PROVE \E u \in Users : admins[u] # None
      BY DEF ServingHasAdmin
    <2>1. hook \in 0..5
      BY HookOrder DEF IInv, TypeOK
    <2>2. Reached(3)
      BY <2>1 DEF IInv, TypeOK, Lifecycle, Reached
    <2> QED
      BY <2>2 DEF IInv, Accounts
  <1> QED
    BY <1>1, ServiceInvariant, PTL

\* RequireAdminOrGuest lets a client without a session pass only if guest mode
\* was on at some moment of the request.
THEOREM ServiceGuestNeedsGuestMode == Spec => []GuestNeedsGuestMode
  <1>1. IInv => GuestNeedsGuestMode
    BY DEF IInv, ReqInv, Good, GuestNeedsGuestMode
  <1> QED
    BY <1>1, ServiceInvariant, PTL

\* A password is changed only in restore mode or by a request that named a
\* password the account had while the request was under way.
THEOREM ServiceOnlyHolderOrRestore == Spec => OnlyHolderOrRestore
  <1> DEFINE Guarded(u) ==
        \/ cfg.restore
        \/ \E r \in Requests : /\ req[r].pc = "update" /\ req'[r].pc = "none"
                              /\ req[r].user = u /\ req[r].cur \in req[r].held
  <1>1. ASSUME IInv, [Next]_vars, NEW u \in Users, admins[u] # None, admins'[u] # admins[u]
        PROVE  Guarded(u)
    <2>1. BootstrapCreate \/ \E r \in Requests : UpdatePasswordHash(r)
      <3>1. admins' # admins
        BY <1>1
      <3> QED
        BY <1>1, <3>1 DEF Next, vars, Process, Serve, Start, Crash, StartFailed, StartTimedOut,
             StartDatabase, BootstrapCheck, StartServer, StartWorker, WorkerRuns, Signal,
             StopWorker, CloseListener, ShutdownReturns, StopAdmin, CloseDatabase, Exit,
             StopTimedOut, Begin, Fail, Login, ChangeCheck, ResetCheck, UpdateGuestMode,
             RequireAdminOrGuest, ServeRead, dbVars
    <2>2. CASE BootstrapCreate
      <3>1. admins[BootstrapUser(cfg)] = None
        BY <1>1, <2>2 DEF BootstrapCreate, IInv, Accounts
      <3>2. \A v \in Users : v # BootstrapUser(cfg) => admins'[v] = admins[v]
        BY <1>1, <2>2 DEF BootstrapCreate, IInv, TypeOK
      <3> QED
        BY <1>1, <3>1, <3>2
    <2>3. ASSUME NEW r \in Requests, UpdatePasswordHash(r) PROVE Guarded(u)
      <3>1. /\ req[r].pc = "update" /\ admins' = [admins EXCEPT ![req[r].user] = req[r].new]
            /\ req' = [Noted(admins', guest) EXCEPT ![r] = NoReq]
        BY <2>3 DEF UpdatePasswordHash
      <3>2. req[r].user = u
        BY <1>1, <3>1 DEF IInv, TypeOK
      <3>3. req'[r] = NoReq
        BY <3>1 DEF Noted
      <3>4. Good(req[r], admins, guest, cfg.restore)
        BY <1>1 DEF IInv, ReqInv
      <3>5. cfg.restore \/ req[r].cur \in req[r].held
        BY <3>1, <3>4 DEF Good
      <3> QED
        BY <3>1, <3>2, <3>3, <3>5, NoReqFacts
    <2> QED
      BY <2>1, <2>2, <2>3
  <1>2. IInv /\ [Next]_vars => [\A u \in Users : admins[u] # None /\ admins'[u] # admins[u] => Guarded(u)]_vars
    BY <1>1
  <1> QED
    BY <1>2, ServiceInvariant, PTL DEF Spec, OnlyHolderOrRestore

-----------------------------------------------------------------------------
(***************************************************************************)
(* Restore mode in detail (RestoreToken, whose state is its own): for any  *)
(* number of requests and administrators the token is held by at most one  *)
(* request, and a success is final. The invariant ties tokenUsed to the    *)
(* one request that took the token, whether it is still at work or has     *)
(* succeeded; without that link a release could free the token of another  *)
(* request.                                                                *)
(***************************************************************************)

\* A request that took the token and has not given it back.
Taken(r) == pc[r] \in Holding \cup {"ok"}

\* At most one request has taken the token, and none has while it is unused.
TakenInv ==
  /\ ~tokenUsed => \A r \in Resets : ~Taken(r)
  /\ \A r, q \in Resets : Taken(r) /\ Taken(q) => r = q

RestoreInv == RestoreTypeOK /\ TakenInv /\ OkMeansStored

LEMMA RestoreInvInit ==
  ASSUME RestoreInit
  PROVE  RestoreInv
  <1> USE RestoreAssumption DEF RestoreAssumption
  <1>1. tokenUsed \in BOOLEAN
    BY DEF RestoreInit
  <1>2. RestoreTypeOK
    BY <1>1 DEF RestoreInit, RestoreTypeOK, PCs
  <1>3. TakenInv /\ OkMeansStored
    BY DEF RestoreInit, TakenInv, Taken, Holding, OkMeansStored
  <1> QED
    BY <1>2, <1>3 DEF RestoreInv

LEMMA RestoreInvNext ==
  ASSUME RestoreInv, [RestoreNext]_restoreVars
  PROVE  RestoreInv'
  <1> USE RestoreAssumption DEF RestoreAssumption, RestoreInv
  <1>1. ASSUME NEW r \in Resets, Consume(r) PROVE RestoreInv'
    <2>1. RestoreTypeOK'
      BY <1>1 DEF Consume, Goto, RestoreTypeOK, PCs, Holding
    <2>2. TakenInv'
      BY <1>1 DEF Consume, TokenAvailable, Goto, RestoreTypeOK,
                  TakenInv, Taken, Holding
    <2>3. OkMeansStored'
      BY <1>1 DEF Consume, Goto, RestoreTypeOK, OkMeansStored
    <2> QED
      BY <2>1, <2>2, <2>3
  <1>2. ASSUME NEW r \in Resets, Refuse(r) PROVE RestoreInv'
    <2>1. RestoreTypeOK'
      BY <1>2 DEF Refuse, Goto, RestoreTypeOK, PCs
    <2>2. TakenInv'
      BY <1>2 DEF Refuse, Goto, RestoreTypeOK, TakenInv, Taken, Holding
    <2>3. OkMeansStored'
      BY <1>2 DEF Refuse, Goto, RestoreTypeOK, OkMeansStored
    <2> QED
      BY <2>1, <2>2, <2>3
  <1>3. ASSUME NEW r \in Resets, Lookup(r) PROVE RestoreInv'
    <2>1. RestoreTypeOK'
      BY <1>3 DEF Lookup, Goto, RestoreTypeOK, PCs, Holding
    <2>2. TakenInv'
      BY <1>3 DEF Lookup, Goto, RestoreTypeOK, TakenInv, Taken, Holding
    <2>3. OkMeansStored'
      BY <1>3 DEF Lookup, Goto, RestoreTypeOK, OkMeansStored
    <2> QED
      BY <2>1, <2>2, <2>3
  <1>4. ASSUME NEW r \in Resets, Update(r) PROVE RestoreInv'
    <2>1. RestoreTypeOK'
      BY <1>4 DEF Update, Goto, RestoreTypeOK, PCs, Holding
    <2>2. TakenInv'
      BY <1>4 DEF Update, Goto, RestoreTypeOK, TakenInv, Taken, Holding
    <2>3. \A q \in Resets : pc[q] = "ok" => q = r
      BY <1>4 DEF Update, TakenInv, Taken, Holding
    <2>4. OkMeansStored'
      BY <1>4, <2>3 DEF Update, Goto, RestoreTypeOK, OkMeansStored
    <2> QED
      BY <2>1, <2>2, <2>4
  <1>5. ASSUME NEW r \in Resets, UpdateFails(r) PROVE RestoreInv'
    <2>1. RestoreTypeOK'
      BY <1>5 DEF UpdateFails, Goto, RestoreTypeOK, PCs, Holding
    <2>2. TakenInv'
      BY <1>5 DEF UpdateFails, Goto, RestoreTypeOK, TakenInv, Taken, Holding
    <2>3. \A q \in Resets : pc[q] # "ok"
      BY <1>5 DEF UpdateFails, TakenInv, Taken, Holding
    <2>4. OkMeansStored'
      BY <1>5, <2>3 DEF UpdateFails, Goto, RestoreTypeOK, OkMeansStored
    <2> QED
      BY <2>1, <2>2, <2>4
  <1>6. ASSUME NEW r \in Resets, Release(r) PROVE RestoreInv'
    <2>1. RestoreTypeOK'
      BY <1>6 DEF Release, Goto, RestoreTypeOK, PCs
    <2>2. TakenInv'
      BY <1>6 DEF Release, Goto, RestoreTypeOK, TakenInv, Taken, Holding
    <2>3. OkMeansStored'
      BY <1>6 DEF Release, Goto, RestoreTypeOK, OkMeansStored
    <2> QED
      BY <2>1, <2>2, <2>3
  <1>7. CASE Restart
    <2>0. tokenUsed' \in BOOLEAN
      BY <1>7 DEF Restart
    <2>1. RestoreTypeOK'
      BY <1>7, <2>0 DEF Restart, RestoreTypeOK, PCs
    <2>2. TakenInv' /\ OkMeansStored'
      BY <1>7 DEF Restart, RestoreTypeOK, TakenInv, Taken, Holding,
                     OkMeansStored
    <2> QED
      BY <2>1, <2>2
  <1>8. CASE Tick
    BY <1>8 DEF Tick, RestoreTypeOK, TakenInv, Taken, OkMeansStored
  <1>9. CASE UNCHANGED restoreVars
    BY <1>9 DEF restoreVars, RestoreTypeOK, TakenInv, Taken, OkMeansStored
  <1> QED
    BY <1>1, <1>2, <1>3, <1>4, <1>5, <1>6, <1>7, <1>8, <1>9 DEF RestoreNext, Handle

\* The inductive invariant of restore mode: types, the one holder of the
\* token, and the truth of a 200 answer.
THEOREM RestoreInvariant == RestoreSpec => []RestoreInv
  <1>1. RestoreInit => RestoreInv
    BY RestoreInvInit
  <1>2. RestoreInv /\ [RestoreNext]_restoreVars => RestoreInv'
    BY RestoreInvNext
  <1>3. QED
    BY <1>1, <1>2, PTL DEF RestoreSpec

\* The handler's fields and the requests keep their types, and UpdatePasswordHash
\* is reached only for an existing administrator.
THEOREM RestoreTypeCorrect == RestoreSpec => []RestoreTypeOK
  BY RestoreInvariant, PTL DEF RestoreInv

\* A request answered 200 has its password stored, whatever other requests of
\* the restore handler failed, raced it or came later.
THEOREM RestoreOkMeansStored == RestoreSpec => []OkMeansStored
  BY RestoreInvariant, PTL DEF RestoreInv

LEMMA RestoreSuccessStep ==
  RestoreInv /\ [RestoreNext]_restoreVars
    => [(\E r \in Resets : pc[r] = "ok") => UNCHANGED password]_restoreVars
  <1> SUFFICES ASSUME RestoreInv, [RestoreNext]_restoreVars,
                      NEW r \in Resets, pc[r] = "ok"
               PROVE  UNCHANGED password
    OBVIOUS
  <1>1. \A q \in Resets : pc[q] # "update"
    BY DEF RestoreInv, TakenInv, Taken, Holding
  <1> QED
    BY <1>1 DEF RestoreNext, Consume, Refuse, Handle, Lookup,
                Update, UpdateFails, Release, Restart, Tick,
                restoreVars

\* Once the restore handler has answered 200, no request changes a password
\* until the process is restarted: the token is used up at once.
THEOREM RestoreSuccessIsFinal == RestoreSpec => SuccessIsFinal
  BY RestoreInvariant, RestoreSuccessStep, PTL DEF RestoreSpec, SuccessIsFinal

===============================================================================
