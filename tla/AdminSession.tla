---------------------------- MODULE AdminSession ----------------------------
(***************************************************************************)
(* The cookie session of the administrator: internal/handler/auth_handler  *)
(* .go, internal/middleware/auth_middleware.go and internal/bootstrap/     *)
(* session.go. All session state is in the browser's cookie; requests      *)
(* overlap and each answer may replace the cookie. Time runs in ticks, of  *)
(* which Second make a second, because expires_at is cut to whole seconds. *)
(* Guests, profiles and passwords are left out.                            *)
(***************************************************************************)
EXTENDS Integers, FiniteSets

CONSTANTS
  Slots,      \* requests a browser may have under way
  Second,     \* ticks in a second
  MaxAge,     \* session.max_age, in ticks
  CodecAge,   \* seconds a cookie's signature stays valid: 30 days in gorilla's store
  Gap,        \* longest pause of an active user between two requests
  Latency,    \* longest time a request and its answer take
  MaxTime,    \* bound: the clock of a diligent user stops here
  IdleTime,   \* bound: and that of any other user here
  MaxRotations,   \* bound: changes of the secret
  None        \* no cookie, no request

\* What a cookie holds: the secret that signed it and when, expires_at, and the
\* end of its Max-Age in the browser.
Cookies ==
  [secret : 0..MaxRotations, signed : Nat, expires : Nat, dies : Nat]

ASSUME SessionAssumption ==
  /\ Second \in Nat \ {0} /\ MaxAge \in Nat /\ MaxAge >= Second
  /\ {CodecAge, Gap, Latency, MaxTime, IdleTime, MaxRotations} \subseteq Nat
  /\ None \notin Cookies

VARIABLES
  now,
  diligent, \* whether the user keeps using the console, see Busy
  secret,   \* which session.secret the process has
  cookie,   \* the browser's cookie: signed with and when, expires_at, Max-Age's end
  user,     \* what the user thinks: "out", "in", "entering", "leaving"
  req,      \* request under way, its answer once it is handled
  lastOk,   \* when the server last accepted a login or a request
  quiet     \* when the last answer 200 arrived

vars == <<now, diligent, secret, cookie, user, req, lastOk, quiet>>

Unix(t) == t \div Second

Init ==
  /\ now = 0 /\ diligent \in BOOLEAN /\ secret = 0 /\ cookie = None /\ user = "out"
  /\ req = [s \in Slots |-> None]
  /\ lastOk = 0 /\ quiet = 0

-----------------------------------------------------------------------------
(* The browser *)

Free(s) == req[s] = None
Pending(kind) == \E s \in Slots : ~Free(s) /\ req[s].kind = kind

\* The cookie goes with the request while its Max-Age lasts.
Send(s, kind) ==
  /\ Free(s)
  /\ req' = [req EXCEPT ![s] =
               [kind |-> kind, sent |-> now, inside |-> user = "in",
                cookie |-> IF cookie # None /\ cookie.dies > now THEN cookie ELSE None,
                code |-> 0, set |-> None, drop |-> FALSE]]
  /\ UNCHANGED <<now, diligent, secret, cookie, lastOk, quiet>>

SendUse(s) == user = "in" /\ Send(s, "use") /\ UNCHANGED user
SendLogin(s) == user = "out" /\ Send(s, "login") /\ user' = "entering"
SendLogout(s) == user = "in" /\ Send(s, "logout") /\ user' = "leaving"

\* The answer arrives and its Set-Cookie replaces the cookie. After a 401 the
\* console shows the login page.
Receive(s) ==
  /\ ~Free(s) /\ req[s].code # 0
  /\ cookie' = IF req[s].drop THEN None
               ELSE IF req[s].set = None THEN cookie
               ELSE [req[s].set EXCEPT !.dies = now + Unix(MaxAge) * Second]
  /\ user' = IF req[s].kind = "use"
             THEN IF req[s].code = 401 /\ user = "in" THEN "out" ELSE user
             ELSE IF (req[s].kind = "login") = (req[s].code = 200) THEN "in" ELSE "out"
  /\ quiet' = IF req[s].code = 200 THEN now ELSE quiet
  /\ req' = [req EXCEPT ![s] = None]
  /\ UNCHANGED <<now, diligent, secret, lastOk>>

-----------------------------------------------------------------------------
(* The server *)

Open(s, kind) == ~Free(s) /\ req[s].kind = kind /\ req[s].code = 0
Answer(s, code) == req' = [req EXCEPT ![s].code = code]

\* CookieStore.Get: no cookie is an empty session, a cookie with another
\* signature or an old one is an error.
Decodes(c) == c # None => c.secret = secret /\ Unix(now) - c.signed <= CodecAge

\* session.Save; the end of Max-Age is known when it arrives.
NewCookie(expires) ==
  [secret |-> secret, signed |-> Unix(now), expires |-> expires, dies |-> 0]

RenewNever(expires) == FALSE

shouldRenewSession(expires) == 2 * (expires * Second - now) < MaxAge

AcceptExpired(c) == c # None /\ Decodes(c)

Accepted(c) == c # None /\ Decodes(c) /\ c.expires * Second > now

\* The middleware's renewed expiry.
Renewed(expires) == Unix(now + MaxAge)

\* authenticateAdmin.
Use(s) ==
  /\ Open(s, "use")
  /\ LET c == req[s].cookie IN
       \/ /\ ~Accepted(c)
          /\ Answer(s, 401) /\ UNCHANGED lastOk
       \/ /\ Accepted(c)
          /\ req' = [req EXCEPT ![s] =
                       [@ EXCEPT !.code = 200,
                                 !.set = IF shouldRenewSession(c.expires)
                                         THEN NewCookie(Renewed(c.expires)) ELSE None]]
          /\ lastOk' = now
       \/ /\ Accepted(c)
          /\ Answer(s, 500) /\ UNCHANGED lastOk   \* the admin cannot be read
  /\ UNCHANGED <<now, diligent, secret, cookie, user, quiet>>

\* Login with the right password. The session is fetched before it is saved.
Login(s) ==
  /\ Open(s, "login")
  /\ \/ /\ Decodes(req[s].cookie)
        /\ req' = [req EXCEPT ![s] =
                     [@ EXCEPT !.code = 200, !.set = NewCookie(Unix(now + MaxAge))]]
        /\ lastOk' = now
     \/ /\ ~Decodes(req[s].cookie)
        /\ Answer(s, 500) /\ UNCHANGED lastOk
  /\ UNCHANGED <<now, diligent, secret, cookie, user, quiet>>

\* Login with another password.
LoginRefused(s) ==
  /\ Open(s, "login")
  /\ Answer(s, 401)
  /\ UNCHANGED <<now, diligent, secret, cookie, user, lastOk, quiet>>

\* Logout is always answered 200; without a session there is nothing to save.
Logout(s) ==
  /\ Open(s, "logout")
  /\ req' = [req EXCEPT ![s] = [@ EXCEPT !.code = 200, !.drop = Decodes(req[s].cookie)]]
  /\ UNCHANGED <<now, diligent, secret, cookie, user, lastOk, quiet>>

\* The process is restarted with another session.secret.
Rotate ==
  /\ secret < MaxRotations
  /\ secret' = secret + 1
  /\ UNCHANGED <<now, diligent, cookie, user, req, lastOk, quiet>>

-----------------------------------------------------------------------------

\* A diligent user: in a session no more than Gap passes without a successful
\* request, and no answer takes longer than Latency.
Busy ==
  /\ user = "in" => now - quiet < Gap
  /\ \A s \in Slots : ~Free(s) => now - req[s].sent < Latency

Tick ==
  /\ now < (IF diligent THEN MaxTime ELSE IdleTime)
  /\ diligent => Busy
  /\ now' = now + 1
  /\ UNCHANGED <<diligent, secret, cookie, user, req, lastOk, quiet>>

\* The server's steps for a request, and the browser's.
Handle(s) == Use(s) \/ Login(s) \/ LoginRefused(s) \/ Logout(s)
Browse(s) == SendUse(s) \/ SendLogin(s) \/ SendLogout(s) \/ Receive(s)

Next == (\E s \in Slots : Handle(s) \/ Browse(s)) \/ Rotate \/ Tick

Spec == Init /\ [][Next]_vars

-----------------------------------------------------------------------------
(* Properties *)

TypeOK ==
  /\ now \in Nat /\ diligent \in BOOLEAN /\ secret \in 0..MaxRotations
  /\ cookie \in Cookies \cup {None}
  /\ user \in {"out", "entering", "in", "leaving"}
  /\ req \in [Slots -> {None} \cup
       [kind : {"use", "login", "logout"}, sent : Nat, inside : BOOLEAN,
        cookie : Cookies \cup {None}, code : {0, 200, 401, 500},
        set : Cookies \cup {None}, drop : BOOLEAN]]
  /\ lastOk \in 0..now /\ quiet \in 0..now

\* Sliding renewal (auth_middleware.go:120): while the secret stays, a user who
\* keeps using the console is never sent to the login page.
ActiveStaysIn ==
  diligent /\ secret = 0 =>
    \A s \in Slots :
      ~Free(s) /\ req[s].kind = "use" /\ req[s].inside /\ user = "in" => req[s].code # 401

\* A session that nobody used for max_age is over: the server accepts a request
\* only within max_age of one it accepted before, also when the answers that
\* carry the cookies overtake each other (auth_middleware.go:108).
IdleIsOut ==
  [][\A s \in Slots :
       Open(s, "use") /\ req'[s] # None /\ req'[s].code = 200 => now < lastOk + MaxAge]_vars

=============================================================================
