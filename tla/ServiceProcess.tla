---------------------------- MODULE ServiceProcess ----------------------------
(***************************************************************************)
(* The life of the process and of the administrator accounts across        *)
(* restarts: configuration and its Validate, the fx hooks registered in    *)
(* internal/app/module.go (database, administrator bootstrap, HTTP server  *)
(* and the two schedulers), requests that log in, change a password, reset *)
(* one in restore mode, switch guest mode or read as a guest.              *)
(*                                                                         *)
(* What a collection, a cleanup or another request does with the database  *)
(* is in the other modules; here they are users of the connection pool.    *)
(* The process is started, stopped and killed at any moment, each time     *)
(* with a configuration of its own; the database survives.                 *)
(***************************************************************************)
EXTENDS Naturals, Sequences, FiniteSets

CONSTANTS
  Requests,    \* requests in flight
  Users,       \* administrator names, "admin" among them
  Passwords,   \* passwords people use
  Short,       \* a password below minAdminPasswordLength
  Generated,   \* the password EnsureBootstrapAdmin makes up
  Configs,     \* configurations the process may be started with
  MaxStarts,   \* bound: starts of the process
  None         \* no row, not set, no process

Secrets == Passwords \cup {Generated}
Workers == {"scheduler", "cleanup"}

\* user and pass are the bootstrap settings, restore is restore.mode, token the
\* length of restore.token, collect and cleanup enable the schedulers, numbers
\* says that the unconditional numeric and required settings are in range and
\* cleanupNumbers the ones of history_cleanup.
ConfigSpace ==
  [user : Users \cup {None}, pass : Passwords \cup {None}, restore : BOOLEAN,
   token : Nat, collect : BOOLEAN, cleanup : BOOLEAN,
   numbers : BOOLEAN, cleanupNumbers : BOOLEAN]

ASSUME ServiceAssumption ==
  /\ "admin" \in Users
  /\ None \notin Users \cup Secrets \cup {Short}
  /\ Short \notin Secrets /\ Generated \notin Passwords
  /\ Configs \subseteq ConfigSpace /\ None \notin Configs
  /\ MaxStarts \in Nat

VARIABLES
  cfg,        \* the configuration of the running process, None when down
  phase,      \* "down", "starting", "up", "stopping"
  hook,       \* the hook being started or stopped, by its position
  boot,       \* what EnsureBootstrapAdmin does next
  pool,       \* the connection pool
  listening,  \* the HTTP server accepts connections
  gaveUp,     \* Shutdown returned before the requests in flight were done
  worker,     \* the background loops: "off", "idle", "busy"
  admins,     \* admins table: the password behind each hash
  guest,      \* app_settings: guest_mode_enabled
  cookies,    \* administrators with a session cookie in some browser
  req,        \* requests in flight
  starts      \* starts so far, for the bound

procVars == <<cfg, phase, hook, boot, pool, listening, gaveUp, worker, starts>>
dbVars == <<admins, guest>>
vars == <<cfg, phase, hook, boot, pool, listening, gaveUp, worker, starts,
          admins, guest, cookies, req>>

-----------------------------------------------------------------------------
(* Configuration *)

ValidatePairApart(c) ==
  /\ c.numbers
  /\ c.cleanup => c.cleanupNumbers
  /\ c.restore => c.token >= 32

\* Config.Validate.
Validate(c) ==
  /\ c.numbers
  /\ c.cleanup => c.cleanupNumbers
  /\ (c.user = None) = (c.pass = None)
  /\ c.restore => c.token >= 32

DatabaseLast == <<"admin", "http", "scheduler", "cleanup", "db">>

\* The order of the Register functions in fx.Invoke; RegisterConfigLogging has
\* no state and no OnStop.
Hooks == <<"db", "admin", "http", "scheduler", "cleanup">>

\* A worker runs only outside restore mode, and if it is enabled.
Enabled(c, w) == ~c.restore /\ (IF w = "scheduler" THEN c.collect ELSE c.cleanup)

-----------------------------------------------------------------------------
(* Requests *)

\* held are the passwords the named administrator has had since the request
\* began, wasOn says that guest mode was on at some moment of it; both history.
RequestSpace ==
  [kind : {"login", "password", "reset", "guestMode", "read", None},
   pc : {"none", "begin", "update", "handler"}, user : Users \cup {None},
   cur : Secrets \cup {None}, new : Passwords \cup {Short, None},
   held : SUBSET (Secrets \cup {None}), wasOn : BOOLEAN]
NoReq == [kind |-> None, pc |-> "none", user |-> None, cur |-> None, new |-> None,
          held |-> {}, wasOn |-> FALSE]

Active(r) == req[r].pc # "none"

\* IsGuestModeEnabled: no row means off.
guestEnabled(g) == g = "true"

Init ==
  /\ cfg = None /\ phase = "down" /\ hook = 0 /\ boot = "check"
  /\ pool = "closed" /\ listening = FALSE /\ gaveUp = FALSE
  /\ worker = [w \in Workers |-> "off"]
  /\ admins = [u \in Users |-> None]
  /\ guest = "absent"
  /\ cookies = {}
  /\ req = [r \in Requests |-> NoReq]
  /\ starts = 0

\* Requests note the password and the guest mode of every moment.
Noted(a, g) ==
  [r \in Requests |->
     IF ~Active(r) THEN req[r]
     ELSE [req[r] EXCEPT !.held = IF req[r].user = None THEN {}
                                  ELSE @ \cup {a[req[r].user]},
                         !.wasOn = @ \/ guestEnabled(g)]]

-----------------------------------------------------------------------------
(* The process *)

\* main: fx builds the graph; NewConfig validates, NewDB opens the pool.
Start ==
  /\ phase = "down" /\ starts < MaxStarts
  /\ \E c \in Configs :
       /\ Validate(c)
       /\ cfg' = c
  /\ starts' = starts + 1
  /\ phase' = "starting" /\ hook' = 1 /\ boot' = "check"
  /\ pool' = "open" /\ listening' = FALSE /\ gaveUp' = FALSE
  /\ UNCHANGED <<worker, dbVars, cookies, req>>

Exited ==
  /\ cfg' = None /\ phase' = "down" /\ hook' = 0 /\ boot' = "check"
  /\ pool' = "closed" /\ listening' = FALSE /\ gaveUp' = FALSE
  /\ worker' = [w \in Workers |-> "off"]
  /\ req' = [r \in Requests |-> NoReq]

\* The process is killed.
Crash ==
  /\ phase # "down"
  /\ Exited
  /\ UNCHANGED <<dbVars, cookies, starts>>

\* OnStart of the current hook returned nil: the next hook, or all are started.
HookStarted ==
  /\ phase' = IF hook = Len(Hooks) THEN "up" ELSE "starting"
  /\ hook' = IF hook = Len(Hooks) THEN hook ELSE hook + 1

\* OnStart of the current hook failed: fx stops the hooks before it, last
\* first, and exits.
StartFailed ==
  /\ phase = "starting" /\ Hooks[hook] \in {"db", "admin"}
  /\ phase' = "stopping"
  /\ hook' = hook - 1
  /\ UNCHANGED <<cfg, boot, pool, listening, gaveUp, worker, starts, dbVars, cookies, req>>

\* The start context expired: no further hook is started or stopped.
StartTimedOut ==
  /\ phase = "starting"
  /\ Exited
  /\ UNCHANGED <<dbVars, cookies, starts>>

\* Ping and AutoMigrate.
StartDatabase ==
  /\ phase = "starting" /\ Hooks[hook] = "db"
  /\ HookStarted
  /\ UNCHANGED <<cfg, boot, pool, listening, gaveUp, worker, starts, dbVars, cookies, req>>

BootstrapUser(c) == IF c.user = None THEN "admin" ELSE c.user

BootstrapAlways ==
  /\ phase = "starting" /\ Hooks[hook] = "admin" /\ boot = "check"
  /\ boot' = "create"
  /\ UNCHANGED <<phase, hook>>
  /\ UNCHANGED <<cfg, pool, listening, gaveUp, worker, starts, dbVars, cookies, req>>

\* A password without a name: nothing is done. Otherwise the account is looked
\* up, and an existing one is left alone.
BootstrapCheck ==
  /\ phase = "starting" /\ Hooks[hook] = "admin" /\ boot = "check"
  /\ \/ /\ \/ cfg.user = None /\ cfg.pass # None
           \/ admins[BootstrapUser(cfg)] # None
        /\ HookStarted
        /\ UNCHANGED boot
     \/ /\ ~(cfg.user = None /\ cfg.pass # None)
        /\ admins[BootstrapUser(cfg)] = None
        /\ boot' = "create"
        /\ UNCHANGED <<phase, hook>>
  /\ UNCHANGED <<cfg, pool, listening, gaveUp, worker, starts, dbVars, cookies, req>>

\* The account is created, with the configured or a generated password.
BootstrapCreate ==
  /\ phase = "starting" /\ Hooks[hook] = "admin" /\ boot = "create"
  /\ admins' = [admins EXCEPT ![BootstrapUser(cfg)] =
                  IF cfg.user = None THEN Generated ELSE cfg.pass]
  /\ req' = Noted(admins', guest)
  /\ boot' = "check"
  /\ HookStarted
  /\ UNCHANGED <<cfg, pool, listening, gaveUp, worker, starts, guest, cookies>>

\* ListenAndServe runs in a goroutine; if it fails, that is only logged.
StartServer ==
  /\ phase = "starting" /\ Hooks[hook] = "http"
  /\ listening' \in BOOLEAN
  /\ HookStarted
  /\ UNCHANGED <<cfg, boot, pool, gaveUp, worker, starts, dbVars, cookies, req>>

StartWorker ==
  /\ phase = "starting" /\ Hooks[hook] \in Workers
  /\ worker' = [worker EXCEPT ![Hooks[hook]] =
                  IF Enabled(cfg, Hooks[hook]) THEN "idle" ELSE "off"]
  /\ HookStarted
  /\ UNCHANGED <<cfg, boot, pool, listening, gaveUp, starts, dbVars, cookies, req>>

\* A background loop begins a run, or ends one. Stop ends the loop.
WorkerRuns(w) ==
  /\ \/ worker[w] = "idle" /\ worker' = [worker EXCEPT ![w] = "busy"]
     \/ /\ worker[w] = "busy"
        /\ worker' = [worker EXCEPT ![w] = "idle"]
  /\ UNCHANGED <<cfg, phase, hook, boot, pool, listening, gaveUp, starts, dbVars, cookies, req>>

\* SIGINT or SIGTERM.
Signal ==
  /\ phase = "up"
  /\ phase' = "stopping"
  /\ UNCHANGED <<cfg, hook, boot, pool, listening, gaveUp, worker, starts, dbVars, cookies, req>>

\* OnStop of the current hook returned, in error or not: the one before.
HookStopped == hook' = hook - 1

\* OnStop of a scheduler returns once its goroutines are done.
StopWorker ==
  /\ phase = "stopping" /\ hook > 0 /\ Hooks[hook] \in Workers
  /\ worker[Hooks[hook]] # "busy"
  /\ worker' = [worker EXCEPT ![Hooks[hook]] = "off"]
  /\ HookStopped
  /\ UNCHANGED <<cfg, phase, boot, pool, listening, gaveUp, starts, dbVars, cookies, req>>

\* Shutdown closes the listener at once and then waits for the requests.
CloseListener ==
  /\ phase = "stopping" /\ hook > 0 /\ Hooks[hook] = "http"
  /\ listening
  /\ listening' = FALSE
  /\ UNCHANGED <<cfg, phase, hook, boot, pool, gaveUp, worker, starts, dbVars, cookies, req>>

\* Shutdown returns when no request is in flight, or after http.stop_timeout.
ShutdownReturns ==
  /\ phase = "stopping" /\ hook > 0 /\ Hooks[hook] = "http"
  /\ ~listening
  /\ gaveUp' = (\E r \in Requests : Active(r))
  /\ HookStopped
  /\ UNCHANGED <<cfg, phase, boot, pool, listening, worker, starts, dbVars, cookies, req>>

StopAdmin ==
  /\ phase = "stopping" /\ hook > 0 /\ Hooks[hook] = "admin"
  /\ HookStopped
  /\ UNCHANGED <<cfg, phase, boot, pool, listening, gaveUp, worker, starts, dbVars, cookies, req>>

CloseDatabase ==
  /\ phase = "stopping" /\ hook > 0 /\ Hooks[hook] = "db"
  /\ pool' = "closed"
  /\ HookStopped
  /\ UNCHANGED <<cfg, phase, boot, listening, gaveUp, worker, starts, dbVars, cookies, req>>

\* All hooks are stopped, and the process ends.
Exit ==
  /\ phase = "stopping" /\ hook = 0
  /\ Exited
  /\ UNCHANGED <<dbVars, cookies, starts>>

\* The stop context expired: the hooks that are left are not stopped.
StopTimedOut ==
  /\ phase = "stopping" /\ hook > 0
  /\ Exited
  /\ UNCHANGED <<dbVars, cookies, starts>>

-----------------------------------------------------------------------------
(* Requests in flight *)

\* RegisterRoutes: in restore mode only the restore route is there.
Routes(restore) ==
  IF restore THEN {"reset"} ELSE {"login", "password", "guestMode", "read"}

Arrives(r, kind, u, cur, new) ==
  /\ kind \in Routes(cfg.restore)
  /\ req' = [req EXCEPT ![r] =
               [kind |-> kind, pc |-> "begin", user |-> u, cur |-> cur, new |-> new,
                held |-> IF u = None THEN {} ELSE {admins[u]},
                wasOn |-> guestEnabled(guest)]]

\* A request arrives at the listening server.
Begin(r) ==
  /\ listening /\ ~Active(r)
  /\ \/ \E u \in Users, p \in Secrets : Arrives(r, "login", u, p, None)
     \/ \E u \in Users, p \in Secrets, q \in Passwords \cup {Short} :
          Arrives(r, "password", u, p, q)
     \/ \E u \in Users, q \in Passwords \cup {Short} : Arrives(r, "reset", u, None, q)
     \/ \E u \in Users : Arrives(r, "guestMode", u, None, None)
     \/ Arrives(r, "read", None, None, None)
  /\ UNCHANGED <<procVars, dbVars, cookies>>

\* The statement cannot be made: the pool is closed, or the database fails.
Fail(r) ==
  /\ Active(r)
  /\ req' = [req EXCEPT ![r] = NoReq]
  /\ UNCHANGED <<procVars, dbVars, cookies>>

\* Login: Authenticate compares the hash, and the browser gets a cookie.
Login(r) ==
  /\ req[r].kind = "login" /\ req[r].pc = "begin" /\ pool = "open"
  /\ cookies' = IF admins[req[r].user] = req[r].cur
                THEN cookies \cup {req[r].user} ELSE cookies
  /\ req' = [req EXCEPT ![r] = NoReq]
  /\ UNCHANGED <<procVars, dbVars>>

\* ChangePassword, behind RequireAdmin: the account is read and the current
\* password compared; a short new one is refused before.
ChangeCheck(r) ==
  /\ req[r].kind = "password" /\ req[r].pc = "begin" /\ pool = "open"
  /\ req' = [req EXCEPT ![r] =
               IF /\ req[r].user \in cookies
                  /\ req[r].new # Short
                  /\ admins[req[r].user] = req[r].cur
               THEN [req[r] EXCEPT !.pc = "update"] ELSE NoReq]
  /\ UNCHANGED <<procVars, dbVars, cookies>>

\* ResetPasswordByUsername in restore mode, past the token: the account is read.
ResetCheck(r) ==
  /\ req[r].kind = "reset" /\ req[r].pc = "begin" /\ pool = "open"
  /\ req' = [req EXCEPT ![r] =
               IF req[r].new # Short /\ admins[req[r].user] # None
               THEN [req[r] EXCEPT !.pc = "update"] ELSE NoReq]
  /\ UNCHANGED <<procVars, dbVars, cookies>>

\* UpdatePasswordHash: by id, whatever the hash is by now.
UpdatePasswordHash(r) ==
  /\ req[r].pc = "update" /\ pool = "open"
  /\ admins' = [admins EXCEPT ![req[r].user] = req[r].new]
  /\ req' = [Noted(admins', guest) EXCEPT ![r] = NoReq]
  /\ UNCHANGED <<procVars, guest, cookies>>

\* UpdateGuestMode, behind RequireAdmin: on or off.
UpdateGuestMode(r) ==
  /\ req[r].kind = "guestMode" /\ req[r].pc = "begin" /\ pool = "open"
  /\ \/ /\ req[r].user \in cookies
        /\ guest' \in {"true", "false"}
     \/ req[r].user \notin cookies /\ UNCHANGED guest
  /\ req' = [Noted(admins, guest') EXCEPT ![r] = NoReq]
  /\ UNCHANGED <<procVars, admins, cookies>>

ReadUnlessOff(r) ==
  /\ req[r].kind = "read" /\ req[r].pc = "begin" /\ pool = "open"
  /\ req' = [req EXCEPT ![r] = IF guest # "false"
                               THEN [req[r] EXCEPT !.pc = "handler"] ELSE NoReq]
  /\ UNCHANGED <<procVars, dbVars, cookies>>

\* RequireAdminOrGuest for a client without a session: the setting is read for
\* every request; no row means off.
RequireAdminOrGuest(r) ==
  /\ req[r].kind = "read" /\ req[r].pc = "begin" /\ pool = "open"
  /\ req' = [req EXCEPT ![r] = IF guestEnabled(guest)
                               THEN [req[r] EXCEPT !.pc = "handler"] ELSE NoReq]
  /\ UNCHANGED <<procVars, dbVars, cookies>>

\* The handler of a read answers with the data.
ServeRead(r) ==
  /\ req[r].pc = "handler" /\ pool = "open"
  /\ req' = [req EXCEPT ![r] = NoReq]
  /\ UNCHANGED <<procVars, dbVars, cookies>>

-----------------------------------------------------------------------------
Process ==
  \/ Start \/ Crash \/ StartFailed \/ StartTimedOut
  \/ StartDatabase \/ BootstrapCheck \/ BootstrapCreate \/ StartServer \/ StartWorker
  \/ \E w \in Workers : WorkerRuns(w)
  \/ Signal \/ StopWorker \/ CloseListener \/ ShutdownReturns \/ StopAdmin
  \/ CloseDatabase \/ Exit \/ StopTimedOut

Serve(r) ==
  \/ Begin(r) \/ Fail(r) \/ Login(r) \/ ChangeCheck(r) \/ ResetCheck(r)
  \/ UpdatePasswordHash(r) \/ UpdateGuestMode(r) \/ RequireAdminOrGuest(r) \/ ServeRead(r)

Next == Process \/ \E r \in Requests : Serve(r)

Spec == Init /\ [][Next]_vars

-----------------------------------------------------------------------------
(* Properties *)

\* Types of all variables.
TypeOK ==
  /\ cfg \in Configs \cup {None}
  /\ phase \in {"down", "starting", "up", "stopping"}
  /\ cfg = None <=> phase = "down"
  /\ hook \in 0..Len(Hooks)
  /\ boot \in {"check", "create"}
  /\ pool \in {"open", "closed"}
  /\ listening \in BOOLEAN /\ gaveUp \in BOOLEAN
  /\ worker \in [Workers -> {"off", "idle", "busy"}]
  /\ admins \in [Users -> Secrets \cup {None}]
  /\ guest \in {"absent", "true", "false"}
  /\ cookies \subseteq Users
  /\ req \in [Requests -> RequestSpace]
  /\ starts \in 0..MaxStarts

\* The connection pool outlives its users: it is closed only after both
\* schedulers have stopped and the requests in flight are done, unless
\* Shutdown gave up waiting for those after http.stop_timeout.
PoolOutlivesUsers ==
  phase # "down" /\ pool = "closed" =>
    /\ \A w \in Workers : worker[w] = "off"
    /\ gaveUp \/ \A r \in Requests : ~Active(r)

\* A server that accepts connections has an administrator who can log in, or
\* whose password can be reset in restore mode, whatever configuration the
\* process was started with and wherever earlier starts failed.
ServingHasAdmin ==
  listening => \E u \in Users : admins[u] # None

\* The password of an account changes only in restore mode, or by a request
\* that named a password the account had at some moment of the request: no
\* restart with another bootstrap configuration replaces it, and no process
\* outside restore mode resets it.
OnlyHolderOrRestore ==
  [][ \A u \in Users : admins[u] # None /\ admins'[u] # admins[u] =>
        \/ cfg.restore
        \/ \E r \in Requests : /\ req[r].pc = "update" /\ req'[r].pc = "none"
                              /\ req[r].user = u /\ req[r].cur \in req[r].held ]_vars

\* A client without a session reads data only if guest mode was on at some
\* moment of its request: a switch-off that was answered holds for every later
\* request, across restarts.
GuestNeedsGuestMode ==
  \A r \in Requests : req[r].pc = "handler" => req[r].wasOn

=============================================================================
