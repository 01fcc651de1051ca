------------------------- MODULE AdminSessionProofs -------------------------
(***************************************************************************)
(* A session that nobody used for max_age is over, and one in use lasts,   *)
(* whatever the number of requests under way, the order in which their     *)
(* answers replace the cookie and the resolution of the clock.             *)
(***************************************************************************)
EXTENDS AdminSession, TLAPS

\* A cookie, in the browser or on the way, never outlives by more than MaxAge
\* the last request the server accepted.
Bounded(c) == c # None => c.expires * Second <= lastOk + MaxAge

\* In what the steps leave alone the bound only grows.
Cap ==
  /\ Bounded(cookie)
  /\ \A s \in Slots : ~Free(s) => Bounded(req[s].cookie) /\ Bounded(req[s].set)

Inv == TypeOK /\ Cap

Requests ==
  [kind : {"use", "login", "logout"}, sent : Nat, inside : BOOLEAN,
   cookie : Cookies \cup {None}, code : {0, 200, 401, 500},
   set : Cookies \cup {None}, drop : BOOLEAN]

\* Cutting a time to whole seconds (Unix in auth_middleware.go) rounds down.
LEMMA UnixRoundsDown ==
  ASSUME NEW t \in Nat
  PROVE  Unix(t) \in Nat /\ Unix(t) * Second <= t
<1>1. Second \in Nat \ {0}
  BY SessionAssumption
<1>2. t \div Second \in Nat /\ Second * (t \div Second) <= t
  BY <1>1, Z3
<1>3. QED
  BY <1>1, <1>2 DEF Unix

\* The parts of a request under way.
LEMMA RequestParts ==
  ASSUME TypeOK, NEW s \in Slots, ~Free(s)
  PROVE  /\ req[s] \in Requests
         /\ req[s].cookie \in Cookies \cup {None}
         /\ req[s].set \in Cookies \cup {None}
BY DEF TypeOK, Free, Requests

\* The initial state.
LEMMA InvInit == Init => Inv
BY SessionAssumption DEF Init, Inv, TypeOK, Cap, Bounded, Free

\* Sending a request copies the browser's cookie.
LEMMA SendPreserves ==
  ASSUME Inv, NEW s \in Slots, NEW kind \in {"use", "login", "logout"}, Send(s, kind),
         user' \in {"out", "entering", "in", "leaving"}
  PROVE  Inv'
<1> DEFINE new == [kind |-> kind, sent |-> now, inside |-> user = "in",
                   cookie |-> IF cookie # None /\ cookie.dies > now THEN cookie ELSE None,
                   code |-> 0, set |-> None, drop |-> FALSE]
<1>1. req' = [req EXCEPT ![s] = new]
  BY DEF Send
<1>2. new \in Requests
  BY DEF Inv, TypeOK, Requests
<1>3. TypeOK'
  BY <1>1, <1>2 DEF Inv, TypeOK, Send, Requests, Cookies
<1>4. ASSUME NEW t \in Slots, ~Free(t)'
      PROVE  Bounded(req[t].cookie)' /\ Bounded(req[t].set)'
  <2>1. CASE t = s
    <3>1. req'[t] = new
      BY <1>1, <2>1 DEF Inv, TypeOK
    <3>2. req'[t].cookie \in {cookie, None} /\ req'[t].set = None
      BY <3>1
    <3>3. QED
      BY <3>2 DEF Inv, Cap, Bounded, Send
  <2>2. CASE t # s
    <3>1. req'[t] = req[t]
      BY <1>1, <2>2 DEF Inv, TypeOK
    <3>2. QED
      BY <1>4, <3>1 DEF Inv, Cap, Bounded, Send, Free
  <2>3. QED
    BY <2>1, <2>2
<1>5. Bounded(cookie)'
  BY DEF Inv, Cap, Bounded, Send
<1>6. QED
  BY <1>3, <1>4, <1>5 DEF Inv, Cap

\* An answer hands over the cookie it carries.
LEMMA ReceivePreserves ==
  ASSUME Inv, NEW s \in Slots, Receive(s)
  PROVE  Inv'
<1>1. req[s] \in Requests /\ req[s].set \in Cookies \cup {None} /\ ~Free(s)
  BY RequestParts DEF Inv, Receive
<1>2. now + Unix(MaxAge) * Second \in Nat
  <2>1. Unix(MaxAge) \in Nat /\ Second \in Nat
    BY UnixRoundsDown, SessionAssumption
  <2>2. Unix(MaxAge) * Second \in Nat
    BY <2>1
  <2>3. QED
    BY <2>2 DEF Inv, TypeOK
<1>3. cookie' \in Cookies \cup {None} /\ Bounded(cookie)'
  <2>1. CASE req[s].drop \/ req[s].set = None
    BY <2>1 DEF Receive, Inv, TypeOK, Cap, Bounded
  <2>2. CASE ~req[s].drop /\ req[s].set # None
    <3>1. cookie' = [req[s].set EXCEPT !.dies = now + Unix(MaxAge) * Second]
      BY <2>2 DEF Receive
    <3>2. cookie' \in Cookies /\ cookie'.expires = req[s].set.expires
      BY <1>1, <1>2, <2>2, <3>1 DEF Cookies
    <3>3. req[s].set.expires * Second <= lastOk + MaxAge
      BY <1>1, <2>2 DEF Inv, Cap, Bounded
    <3>4. QED
      BY <3>2, <3>3 DEF Receive, Bounded
  <2>3. QED
    BY <2>1, <2>2
<1>4. TypeOK'
  BY <1>3 DEF Inv, TypeOK, Receive
<1>5. ASSUME NEW t \in Slots, ~Free(t)'
      PROVE  Bounded(req[t].cookie)' /\ Bounded(req[t].set)'
  <2>1. req'[t] = req[t] /\ ~Free(t)
    BY <1>5 DEF Receive, Inv, TypeOK, Free
  <2>2. QED
    BY <2>1 DEF Receive, Inv, Cap, Bounded
<1>6. QED
  BY <1>3, <1>4, <1>5 DEF Inv, Cap

\* A step of the server leaves the browser alone and gives request s an answer
\* with a cookie within the bound.
LEMMA AnswerPreserves ==
  ASSUME Inv, NEW s \in Slots, ~Free(s), NEW new \in Requests,
         req' = [req EXCEPT ![s] = new], new.cookie = req[s].cookie,
         new.set = None \/ new.set = req[s].set \/ new.set.expires * Second <= lastOk' + MaxAge,
         lastOk' \in {lastOk, now},
         UNCHANGED <<now, diligent, secret, cookie, user, quiet>>
  PROVE  Inv'
<1>1. TypeOK'
  BY DEF Inv, TypeOK, Requests
<1>2. lastOk <= lastOk' /\ lastOk \in Nat /\ lastOk' \in Nat /\ MaxAge \in Nat /\ Second \in Nat
  BY SessionAssumption DEF Inv, TypeOK
<1>3. ASSUME NEW c \in Cookies \cup {None}, Bounded(c)
      PROVE  c # None => c.expires * Second <= lastOk' + MaxAge
  <2>1. c # None => c.expires * Second \in Nat
    BY <1>2 DEF Cookies
  <2>2. QED
    BY <1>2, <1>3, <2>1 DEF Bounded
<1>4. Bounded(cookie)'
  BY <1>3 DEF Inv, Cap, TypeOK, Bounded
<1>5. ASSUME NEW t \in Slots, ~Free(t)'
      PROVE  Bounded(req[t].cookie)' /\ Bounded(req[t].set)'
  <2>1. CASE t = s
    <3>1. req'[t] = new
      BY <2>1 DEF Inv, TypeOK
    <3>2. /\ Bounded(req[s].cookie) /\ Bounded(req[s].set)
          /\ req[s].cookie \in Cookies \cup {None} /\ req[s].set \in Cookies \cup {None}
      BY RequestParts DEF Inv, Cap
    <3>3. Bounded(req[t].cookie)'
      BY <1>3, <3>1, <3>2 DEF Bounded
    <3>4. Bounded(req[t].set)'
      BY <1>3, <3>1, <3>2 DEF Bounded
    <3>5. QED
      BY <3>3, <3>4
  <2>2. CASE t # s
    <3>1. req'[t] = req[t] /\ ~Free(t)
      BY <1>5, <2>2 DEF Inv, TypeOK, Free
    <3>2. /\ Bounded(req[t].cookie) /\ Bounded(req[t].set)
          /\ req[t].cookie \in Cookies \cup {None} /\ req[t].set \in Cookies \cup {None}
      BY <3>1, RequestParts DEF Inv, Cap
    <3>3. QED
      BY <1>3, <3>1, <3>2 DEF Bounded
  <2>3. QED
    BY <2>1, <2>2
<1>6. QED
  BY <1>1, <1>4, <1>5 DEF Inv, Cap

\* An answer with a cookie, and an answer that drops it.
Granted(r, c) == [r EXCEPT !.code = 200, !.set = c]
Dropped(r, d) == [r EXCEPT !.code = 200, !.drop = d]

LEMMA CookieSet ==
  ASSUME NEW r \in Requests, NEW c \in Cookies \cup {None}
  PROVE  LET new == Granted(r, c)
         IN /\ new \in Requests /\ new.cookie = r.cookie /\ new.set = c
            /\ new.kind = r.kind /\ new.sent = r.sent /\ new.drop = r.drop /\ new.code = 200
<1> DEFINE mid == [r EXCEPT !.code = 200]
           new == [mid EXCEPT !.set = c]
<1>1. /\ mid \in Requests /\ mid.cookie = r.cookie
      /\ mid.kind = r.kind /\ mid.sent = r.sent /\ mid.drop = r.drop /\ mid.code = 200
  BY DEF Requests
<1> HIDE DEF mid
<1>2. /\ new \in Requests /\ new.cookie = mid.cookie /\ new.set = c
      /\ new.kind = mid.kind /\ new.sent = mid.sent /\ new.drop = mid.drop /\ new.code = mid.code
  BY <1>1 DEF Requests
<1>3. QED
  BY <1>1, <1>2 DEF mid, Granted

LEMMA DropSet ==
  ASSUME NEW r \in Requests, NEW d \in BOOLEAN
  PROVE  LET new == Dropped(r, d)
         IN /\ new \in Requests /\ new.cookie = r.cookie /\ new.set = r.set
            /\ new.kind = r.kind /\ new.sent = r.sent /\ new.code = 200
<1> DEFINE mid == [r EXCEPT !.code = 200]
           new == [mid EXCEPT !.drop = d]
<1>1. /\ mid \in Requests /\ mid.cookie = r.cookie /\ mid.set = r.set
      /\ mid.kind = r.kind /\ mid.sent = r.sent /\ mid.code = 200
  BY DEF Requests
<1> HIDE DEF mid
<1>2. /\ new \in Requests /\ new.cookie = mid.cookie /\ new.set = mid.set
      /\ new.kind = mid.kind /\ new.sent = mid.sent /\ new.code = mid.code
  BY <1>1 DEF Requests
<1>3. QED
  BY <1>1, <1>2 DEF mid, Dropped

\* A new cookie expires at most MaxAge from now.
LEMMA NewCookieBounded ==
  ASSUME Inv
  PROVE  LET c == NewCookie(Unix(now + MaxAge))
         IN c \in Cookies /\ c.expires * Second <= now + MaxAge
<1>1. now \in Nat /\ now + MaxAge \in Nat
  BY SessionAssumption DEF Inv, TypeOK
<1>2. Unix(now) \in Nat /\ Unix(now + MaxAge) \in Nat /\ Unix(now + MaxAge) * Second <= now + MaxAge
  BY <1>1, UnixRoundsDown
<1>3. QED
  BY <1>2 DEF NewCookie, Cookies, Inv, TypeOK

\* authenticateAdmin, Login and Logout.
LEMMA HandlePreserves ==
  ASSUME Inv, NEW s \in Slots, Handle(s)
  PROVE  Inv'
<1> DEFINE r == req[s]
           fresh == NewCookie(Unix(now + MaxAge))
<1>1. ~Free(s) /\ r \in Requests
  BY RequestParts DEF Handle, Use, Login, LoginRefused, Logout, Open, Inv
<1>2. fresh \in Cookies /\ fresh.expires * Second <= now + MaxAge
  BY NewCookieBounded
<1>3. UNCHANGED <<now, diligent, secret, cookie, user, quiet>>
  BY DEF Handle, Use, Login, LoginRefused, Logout
<1>4. ASSUME NEW code \in {200, 401, 500}, Answer(s, code), lastOk' = lastOk
      PROVE  Inv'
  <2> DEFINE new == [r EXCEPT !.code = code]
  <2>1. req' = [req EXCEPT ![s] = new]
    BY <1>4 DEF Answer
  <2>2. new \in Requests /\ new.cookie = r.cookie /\ new.set = r.set
    BY <1>1 DEF Requests
  <2>3. QED
    BY <1>1, <1>3, <1>4, <2>1, <2>2, AnswerPreserves
<1>5. ASSUME NEW c, c = None \/ c = fresh, lastOk' = now,
             req' = [req EXCEPT ![s] = [r EXCEPT !.code = 200, !.set = c]]
      PROVE  Inv'
  <2> DEFINE new == Granted(r, c)
  <2>1. req' = [req EXCEPT ![s] = new]
    BY <1>5 DEF Granted
  <2>2. new \in Requests /\ new.cookie = r.cookie /\ new.set = c
    <3>1. c \in Cookies \cup {None}
      BY <1>2, <1>5
    <3>2. QED
      BY <1>1, <3>1, CookieSet
  <2>3. new.set = None \/ new.set.expires * Second <= lastOk' + MaxAge
    BY <1>2, <1>5, <2>2
  <2>4. QED
    BY <1>1, <1>3, <1>5, <2>1, <2>2, <2>3, AnswerPreserves
<1>6. CASE Use(s)
  <2>1. CASE Answer(s, 401) /\ lastOk' = lastOk
    BY <2>1, <1>4
  <2>2. CASE Answer(s, 500) /\ lastOk' = lastOk
    BY <2>2, <1>4
  <2>3. CASE /\ req' = [req EXCEPT ![s] =
                  [r EXCEPT !.code = 200,
                            !.set = IF shouldRenewSession(r.cookie.expires)
                                    THEN NewCookie(Renewed(r.cookie.expires)) ELSE None]]
             /\ lastOk' = now
    BY <2>3, <1>5 DEF Renewed
  <2>4. QED
    BY <1>6, <2>1, <2>2, <2>3 DEF Use
<1>7. CASE Login(s)
  BY <1>4, <1>5, <1>7 DEF Login
<1>8. CASE LoginRefused(s)
  BY <1>4, <1>8 DEF LoginRefused
<1>9. CASE Logout(s)
  <2> DEFINE new == Dropped(r, Decodes(r.cookie))
  <2>1. req' = [req EXCEPT ![s] = new] /\ lastOk' = lastOk
    BY <1>9 DEF Logout, Dropped
  <2>2. Decodes(r.cookie) \in BOOLEAN
    BY DEF Decodes
  <2>3. new \in Requests /\ new.cookie = r.cookie /\ new.set = r.set
    BY <1>1, <2>2, DropSet
  <2>4. QED
    BY <1>1, <1>3, <2>1, <2>3, AnswerPreserves
<1>10. QED
  BY <1>6, <1>7, <1>8, <1>9 DEF Handle

\* Time and the secret do not touch the cookies.
LEMMA RestPreserves ==
  ASSUME Inv, Rotate \/ Tick \/ UNCHANGED vars
  PROVE  Inv'
<1>1. UNCHANGED <<diligent, cookie, user, req, lastOk, quiet>>
  BY DEF Rotate, Tick, vars
<1>2. now' \in Nat /\ now <= now' /\ secret' \in 0..MaxRotations
  BY SessionAssumption DEF Inv, TypeOK, Rotate, Tick, vars
<1>3. lastOk \in 0..now' /\ quiet \in 0..now'
  BY <1>2 DEF Inv, TypeOK
<1>4. TypeOK'
  BY <1>1, <1>2, <1>3 DEF Inv, TypeOK
<1>5. Cap'
  BY <1>1 DEF Inv, Cap, Bounded, Free
<1>6. QED
  BY <1>4, <1>5 DEF Inv

\* Every step of the console, the server and the clock keeps the invariant.
LEMMA InvNext == Inv /\ [Next]_vars => Inv'
<1> SUFFICES ASSUME Inv, [Next]_vars PROVE Inv'
  OBVIOUS
<1>1. ASSUME NEW s \in Slots, Handle(s) PROVE Inv'
  BY <1>1, HandlePreserves
<1>2. ASSUME NEW s \in Slots, Browse(s) PROVE Inv'
  <2>1. CASE SendUse(s)
    BY <2>1, SendPreserves DEF SendUse, Inv, TypeOK
  <2>2. CASE SendLogin(s)
    BY <2>2, SendPreserves DEF SendLogin
  <2>3. CASE SendLogout(s)
    BY <2>3, SendPreserves DEF SendLogout
  <2>4. CASE Receive(s)
    BY <2>4, ReceivePreserves
  <2>5. QED
    BY <1>2, <2>1, <2>2, <2>3, <2>4 DEF Browse
<1>3. CASE Rotate \/ Tick \/ UNCHANGED vars
  BY <1>3, RestPreserves
<1>4. QED
  BY <1>1, <1>2, <1>3 DEF Next

\* The inductive invariant of a console that sends any requests.
THEOREM SessionInvariant == Spec => []Inv
BY InvInit, InvNext, PTL DEF Spec

\* The types of the session's state.
THEOREM SessionTypeCorrect == Spec => []TypeOK
<1>1. Inv => TypeOK
  BY DEF Inv
<1>2. QED
  BY <1>1, SessionInvariant, PTL

\* The server accepts a request (authenticateAdmin, auth_middleware.go:95) only
\* within max_age of the last one it accepted.
THEOREM SessionIdleIsOut == Spec => IdleIsOut
<1> DEFINE Step(s) == Open(s, "use") /\ req'[s] # None /\ req'[s].code = 200 => now < lastOk + MaxAge
<1>1. ASSUME Inv, [Next]_vars, NEW s \in Slots,
             Open(s, "use"), req'[s] # None, req'[s].code = 200
      PROVE  now < lastOk + MaxAge
  <2>1. req[s].code = 0 /\ req[s].kind = "use" /\ ~Free(s)
    BY <1>1 DEF Open
  <2>2. req'[s] # req[s]
    BY <1>1, <2>1
  <2>3. PICK t \in Slots : Handle(t) \/ Browse(t)
    BY <1>1, <2>2 DEF Next, vars, Rotate, Tick
  <2>4. t = s
    <3>1. \E x : req' = [req EXCEPT ![t] = x]
      BY <2>3 DEF Handle, Browse, Use, Login, LoginRefused, Logout, Answer, SendUse,
                  SendLogin, SendLogout, Send, Receive
    <3>2. t # s => req'[s] = req[s]
      BY <3>1, <1>1 DEF Inv, TypeOK
    <3>3. QED
      BY <2>2, <3>2
  <2>5. Use(s)
    BY <2>1, <2>3, <2>4 DEF Handle, Browse, Login, LoginRefused, Logout, Open, SendUse,
                  SendLogin, SendLogout, Send, Receive
  <2>6. req[s] \in Requests
    BY <1>1, <2>1, RequestParts DEF Inv
  <2>7. Answer(s, 401) => req'[s].code = 401
    BY <1>1, <2>6 DEF Answer, Inv, TypeOK, Requests
  <2>8. Answer(s, 500) => req'[s].code = 500
    BY <1>1, <2>6 DEF Answer, Inv, TypeOK, Requests
  <2>9. Accepted(req[s].cookie)
    BY <1>1, <2>5, <2>7 DEF Use
  <2>10. /\ req[s].cookie \in Cookies /\ req[s].cookie.expires * Second > now
         /\ req[s].cookie.expires * Second <= lastOk + MaxAge
    BY <1>1, <2>1, <2>9, RequestParts DEF Accepted, Inv, Cap, Bounded
  <2>11. req[s].cookie.expires * Second \in Nat /\ now \in Nat /\ lastOk + MaxAge \in Nat
    BY <1>1, <2>10, SessionAssumption DEF Cookies, Inv, TypeOK
  <2>12. QED
    BY <2>10, <2>11
<1>2. Inv /\ [Next]_vars => [\A s \in Slots : Step(s)]_vars
  BY <1>1
<1>3. QED
  BY <1>2, SessionInvariant, PTL DEF Spec, IdleIsOut

-----------------------------------------------------------------------------
(* A user who keeps using the console stays in *)

\* How the settings must relate: half of max_age covers a pause and two trips
\* to the server, and a pause, a trip and the second that rounding takes; and
\* max_age is within the 30 days for which the store accepts a signature.
Roomy ==
  /\ 2 * (Gap + 2 * Latency) < MaxAge
  /\ 2 * (Gap + Latency + Second) <= MaxAge + 1
  /\ Unix(MaxAge) <= CodecAge

\* The moment a cookie's session ends.
End(c) == c.expires * Second

\* A cookie was signed with a secret of this or an earlier process, at most
\* max_age before it expires.
Proper(c) == c # None => c.secret <= secret /\ c.expires <= c.signed + Unix(MaxAge) + 1
Signed ==
  /\ Proper(cookie)
  /\ \A s \in Slots : ~Free(s) => Proper(req[s].cookie) /\ Proper(req[s].set)

\* Max-Age and expires_at end at about the same time.
Lasts == cookie # None => End(cookie) < cookie.dies + Second

\* What an answer carries: only a logout drops the cookie, only a success sets
\* one, with nearly max_age to live when the request was sent.
Carries(s) ==
  ~Free(s) =>
    /\ req[s].sent <= now
    /\ req[s].drop => req[s].kind = "logout"
    /\ req[s].kind = "logout" => req[s].code \in {0, 200}
    /\ req[s].set # None =>
         /\ req[s].code = 200 /\ req[s].kind # "logout"
         /\ End(req[s].set) > req[s].sent + MaxAge - Second
    /\ req[s].kind = "login" /\ req[s].code = 200 => req[s].set # None

\* What a diligent user does not let happen.
Prompt ==
  /\ user = "in" => now <= quiet + Gap
  /\ \A s \in Slots : ~Free(s) => now <= req[s].sent + Latency

\* The browser's cookie lasts for a pause and a trip after the last success.
Ahead ==
  user = "in" =>
    /\ cookie # None
    /\ End(cookie) > quiet + Gap + Latency /\ End(cookie) >= quiet + Gap + Second

\* The same for a success that is still on its way, of a request sent at t.
Good(t) == End(cookie) > t + Gap + 2 * Latency /\ End(cookie) >= t + Gap + Latency + Second

\* A request of the user carries a cookie that lasts until it is handled. When
\* it was not renewed, the browser has that cookie still or a good one.
Safe(s) ==
  ~Free(s) /\ req[s].kind = "use" =>
    /\ req[s].code # 401
    /\ req[s].cookie # None /\ End(req[s].cookie) > req[s].sent + Latency
    /\ user = "in" /\ req[s].set = None =>
         /\ req[s].code = 0 => req[s].cookie.expires = cookie.expires \/ Good(req[s].sent)
         /\ req[s].code = 200 => Good(req[s].sent)

Live ==
  /\ Signed /\ Lasts /\ \A s \in Slots : Carries(s)
  /\ diligent => Prompt
  /\ diligent /\ secret = 0 => Ahead /\ \A s \in Slots : Safe(s)

\* What holds of the constants.
LEMMA Numbers ==
  /\ Second \in Nat \ {0} /\ MaxAge \in Nat /\ CodecAge \in Nat /\ Gap \in Nat /\ Latency \in Nat
  /\ MaxAge >= Second
BY SessionAssumption

\* Cutting a time to whole seconds loses less than a second.
LEMMA UnixLosesLittle ==
  ASSUME NEW t \in Nat
  PROVE  t < Unix(t) * Second + Second
<1>1. Second \in Nat \ {0}
  BY Numbers
<1>2. t < Second * (t \div Second) + Second
  BY <1>1, Z3
<1>3. QED
  BY <1>1, <1>2, Z3 DEF Unix

\* Seconds compare as the ticks they stand for.
LEMMA SecondsCompare ==
  ASSUME NEW x \in Int, NEW y \in Int, x * Second < y * Second
  PROVE  x < y
<1>1. Second \in Nat \ {0}
  BY Numbers
<1>2. ASSUME y <= x PROVE y * Second <= x * Second
  BY <1>1, <1>2, Z3
<1>3. QED
  BY <1>1, <1>2

\* A new cookie expires within max_age, rounded up, of its signature.
LEMMA ExpiryAfterSignature ==
  ASSUME NEW t \in Nat
  PROVE  Unix(t + MaxAge) <= Unix(t) + Unix(MaxAge) + 1
<1> DEFINE a == Unix(t)
           b == Unix(MaxAge)
           c == Unix(t + MaxAge)
<1>0. Second \in Nat /\ MaxAge \in Nat /\ t + MaxAge \in Nat
  BY Numbers
<1>1. /\ a \in Nat /\ b \in Nat /\ c \in Nat
      /\ c * Second <= t + MaxAge /\ t < a * Second + Second /\ MaxAge < b * Second + Second
  BY <1>0, UnixRoundsDown, UnixLosesLittle
<1> HIDE DEF a, b, c
<1>2. (a + b + 2) * Second = a * Second + b * Second + Second + Second
  BY <1>0, <1>1, Z3
<1>3. a * Second \in Nat /\ b * Second \in Nat /\ c * Second \in Nat
  BY <1>0, <1>1
<1>4. c * Second < (a + b + 2) * Second
  BY <1>0, <1>1, <1>2, <1>3
<1>5. c < a + b + 2
  BY <1>1, <1>4, SecondsCompare
<1>6. QED
  BY <1>1, <1>5 DEF a, b, c

LEMMA CookieParts ==
  ASSUME NEW c \in Cookies
  PROVE  /\ End(c) \in Nat /\ c.expires \in Nat /\ c.signed \in Nat /\ c.dies \in Nat
         /\ c.secret \in Nat
BY Numbers, SessionAssumption DEF Cookies, End

\* A cookie of the running process that has not expired is accepted.
LEMMA UnexpiredAccepted ==
  ASSUME Roomy, TypeOK, secret = 0, NEW c \in Cookies, c # None, Proper(c), End(c) > now
  PROVE  Accepted(c)
<1>1. /\ c.expires \in Nat /\ c.signed \in Nat /\ c.secret \in Nat /\ now \in Nat
      /\ Unix(now) \in Nat /\ Unix(now) * Second <= now /\ Unix(MaxAge) \in Nat /\ End(c) \in Nat
  BY CookieParts, UnixRoundsDown, Numbers DEF TypeOK
<1>2. Unix(now) * Second \in Nat
  BY <1>1, Numbers
<1>3. Unix(now) * Second < c.expires * Second
  BY <1>1, <1>2 DEF End
<1>4. Unix(now) < c.expires
  BY <1>1, <1>3, SecondsCompare
<1>5. Unix(now) - c.signed <= CodecAge
  BY <1>1, <1>4, Numbers DEF Proper, Roomy
<1>6. c.secret = secret
  BY <1>1 DEF Proper
<1>7. QED
  BY <1>5, <1>6 DEF Accepted, Decodes, End

\* What Roomy says about a cookie that was set for a request sent at most
\* Latency before t.
LEMMA RenewedLasts ==
  ASSUME Roomy, NEW e \in Nat, NEW t \in Nat, NEW u \in Nat,
         t <= u + Latency, e > u + MaxAge - Second
  PROVE  /\ e > t + Gap + 2 * Latency /\ e >= t + Gap + Latency + Second
BY Numbers DEF Roomy

\* And about one that was not renewed by a request handled at t, sent at u.
LEMMA UnrenewedLasts ==
  ASSUME Roomy, NEW e \in Nat, NEW t \in Nat, NEW u \in Nat,
         u <= t, 2 * (e - t) >= MaxAge
  PROVE  /\ e > u + Gap + 2 * Latency /\ e >= u + Gap + Latency + Second
BY Numbers DEF Roomy

\* A cookie stays proper when the secret changes.
LEMMA ProperStays ==
  ASSUME TypeOK, secret' \in Nat, secret <= secret', NEW c \in Cookies \cup {None}, Proper(c)
  PROVE  c # None => c.secret <= secret' /\ c.expires <= c.signed + Unix(MaxAge) + 1
BY CookieParts DEF Proper, TypeOK

\* A request that a step does not touch keeps its part of the invariant.
LEMMA OthersCarry ==
  ASSUME NEW t \in Slots, Carries(t), req'[t] = req[t], now' = now
  PROVE  Carries(t)'
BY DEF Carries, Free, End

LEMMA OthersSafe ==
  ASSUME NEW t \in Slots, Safe(t), req'[t] = req[t], cookie' = cookie,
         user' = "in" => user = "in"
  PROVE  Safe(t)'
BY DEF Safe, Good, Free, End

LEMMA LiveInit == Init => Live
BY DEF Init, Live, Signed, Proper, Lasts, Carries, Prompt, Ahead, Safe, Free

\* A request of a diligent user takes the cookie along: its Max-Age still lasts.
LEMMA CookieIsSent ==
  ASSUME Inv, Live, diligent, secret = 0, user = "in"
  PROVE  /\ cookie \in Cookies /\ cookie # None /\ cookie.dies > now
         /\ End(cookie) > now + Latency
<1>1. Ahead /\ Prompt /\ Lasts
  BY DEF Live
<1>2. cookie \in Cookies /\ cookie # None
  BY <1>1 DEF Ahead, Inv, TypeOK
<1>3. End(cookie) \in Nat /\ cookie.dies \in Nat /\ now \in Nat /\ quiet \in Nat
  BY <1>2, CookieParts DEF Inv, TypeOK
<1>4. QED
  BY <1>1, <1>2, <1>3, Numbers DEF Ahead, Prompt, Lasts

LEMMA SendLive ==
  ASSUME Roomy, Inv, Live, NEW s \in Slots, NEW kind \in {"use", "login", "logout"}, Send(s, kind),
         user' = "in" => user = "in", kind = "use" => user = "in"
  PROVE  Live'
<1> DEFINE c == IF cookie # None /\ cookie.dies > now THEN cookie ELSE None
           new == [kind |-> kind, sent |-> now, inside |-> user = "in", cookie |-> c,
                   code |-> 0, set |-> None, drop |-> FALSE]
<1>1. /\ req' = [req EXCEPT ![s] = new]
      /\ UNCHANGED <<now, diligent, secret, cookie, lastOk, quiet>>
  BY DEF Send
<1>2. req'[s] = new /\ \A t \in Slots \ {s} : req'[t] = req[t]
  BY <1>1 DEF Inv, TypeOK
<1>3. /\ req'[s].kind = kind /\ req'[s].sent = now /\ req'[s].cookie = c
      /\ req'[s].code = 0 /\ req'[s].set = None /\ req'[s].drop = FALSE
  BY <1>2
<1>4. c \in {cookie, None} /\ now \in Nat
  BY DEF Inv, TypeOK
<1> HIDE DEF new
<1>5. Signed'
  <2>1. Proper(cookie)'
    BY <1>1 DEF Live, Signed, Proper
  <2>2. ASSUME NEW t \in Slots, ~Free(t)' PROVE Proper(req[t].cookie)' /\ Proper(req[t].set)'
    <3>1. CASE t = s
      BY <1>1, <1>3, <1>4, <3>1 DEF Live, Signed, Proper
    <3>2. CASE t # s
      BY <1>1, <1>2, <2>2, <3>2 DEF Live, Signed, Proper, Free
    <3>3. QED
      BY <3>1, <3>2
  <2>3. QED
    BY <2>1, <2>2 DEF Signed
<1>6. Lasts'
  BY <1>1 DEF Live, Lasts, End
<1>7. ASSUME NEW t \in Slots PROVE Carries(t)'
  <2>1. CASE t = s
    BY <1>1, <1>3, <1>4, <2>1 DEF Carries
  <2>2. CASE t # s
    BY <1>1, <1>2, <2>2, OthersCarry DEF Live
  <2>3. QED
    BY <2>1, <2>2
<1>8. ASSUME diligent PROVE Prompt'
  <2>1. user' = "in" => now' <= quiet' + Gap
    BY <1>1, <1>8 DEF Live, Prompt
  <2>2. ASSUME NEW t \in Slots, ~Free(t)' PROVE now' <= req'[t].sent + Latency
    <3>1. CASE t = s
      BY <1>1, <1>3, <1>4, <3>1, Numbers
    <3>2. CASE t # s
      BY <1>1, <1>2, <1>8, <2>2, <3>2 DEF Live, Prompt, Free
    <3>3. QED
      BY <3>1, <3>2
  <2>3. QED
    BY <2>1, <2>2 DEF Prompt
<1>9. ASSUME diligent, secret = 0 PROVE Ahead' /\ \A t \in Slots : Safe(t)'
  <2>1. Ahead'
    BY <1>1, <1>9 DEF Live, Ahead, End
  <2>2. ASSUME NEW t \in Slots PROVE Safe(t)'
    <3>1. CASE t = s /\ kind = "use"
      <4>1. c = cookie /\ cookie # None /\ End(cookie) > now + Latency
        BY <1>9, <3>1, CookieIsSent
      <4>2. QED
        BY <1>1, <1>3, <3>1, <4>1 DEF Safe, Good, End
    <3>2. CASE t = s /\ kind # "use"
      BY <1>3, <3>2 DEF Safe
    <3>3. CASE t # s
      BY <1>1, <1>2, <1>9, <3>3, OthersSafe DEF Live
    <3>4. QED
      BY <3>1, <3>2, <3>3
  <2>3. QED
    BY <2>1, <2>2
<1>10. QED
  BY <1>1, <1>5, <1>6, <1>7, <1>8, <1>9 DEF Live

\* What an answer of the server must be like.
Fit(old, new) ==
  /\ new.kind = old.kind /\ new.sent = old.sent /\ new.cookie = old.cookie
  /\ Proper(new.set)
  /\ new.drop => new.kind = "logout"
  /\ new.kind = "logout" => new.code = 200
  /\ new.set # None => /\ new.code = 200 /\ new.kind # "logout"
                       /\ End(new.set) > new.sent + MaxAge - Second
  /\ new.kind = "login" /\ new.code = 200 => new.set # None
  /\ diligent /\ secret = 0 /\ new.kind = "use" =>
       /\ new.code \notin {0, 401}
       /\ user = "in" /\ new.set = None /\ new.code = 200 => Good(new.sent)

LEMMA AnswerLive ==
  ASSUME Inv, Live, NEW s \in Slots, ~Free(s), NEW new, Fit(req[s], new),
         req'[s] = new, \A t \in Slots \ {s} : req'[t] = req[t],
         UNCHANGED <<now, diligent, secret, cookie, user, quiet>>
  PROVE  Live'
<1> USE DEF Fit
<1>1. req'[s] = new /\ \A t \in Slots \ {s} : req'[t] = req[t]
  OBVIOUS
<1>2. Signed'
  <2>1. Proper(cookie)'
    BY DEF Live, Signed, Proper
  <2>2. ASSUME NEW t \in Slots, ~Free(t)' PROVE Proper(req[t].cookie)' /\ Proper(req[t].set)'
    <3>1. CASE t = s
      BY <1>1, <3>1 DEF Live, Signed, Proper
    <3>2. CASE t # s
      BY <1>1, <2>2, <3>2 DEF Live, Signed, Proper, Free
    <3>3. QED
      BY <3>1, <3>2
  <2>3. QED
    BY <2>1, <2>2 DEF Signed
<1>3. Lasts'
  BY DEF Live, Lasts, End
<1>4. ASSUME NEW t \in Slots PROVE Carries(t)'
  <2>1. CASE t = s
    BY <1>1, <2>1 DEF Live, Carries, End
  <2>2. CASE t # s
    BY <1>1, <2>2, OthersCarry DEF Live
  <2>3. QED
    BY <2>1, <2>2
<1>5. ASSUME diligent PROVE Prompt'
  <2>1. user' = "in" => now' <= quiet' + Gap
    BY <1>5 DEF Live, Prompt
  <2>2. ASSUME NEW t \in Slots, ~Free(t)' PROVE now' <= req'[t].sent + Latency
    <3>1. CASE t = s
      BY <1>1, <1>5, <3>1 DEF Live, Prompt
    <3>2. CASE t # s
      BY <1>1, <1>5, <2>2, <3>2 DEF Live, Prompt, Free
    <3>3. QED
      BY <3>1, <3>2
  <2>3. QED
    BY <2>1, <2>2 DEF Prompt
<1>6. ASSUME diligent, secret = 0 PROVE Ahead' /\ \A t \in Slots : Safe(t)'
  <2>1. Ahead'
    BY <1>6 DEF Live, Ahead, End
  <2>2. ASSUME NEW t \in Slots PROVE Safe(t)'
    <3>1. CASE t = s
      <4>1. Safe(s)
        BY <1>6 DEF Live
      <4>2. Good(new.sent)' <=> Good(new.sent)
        BY DEF Good, End
      <4>3. CASE new.kind # "use"
        BY <1>1, <3>1, <4>3 DEF Safe
      <4>4. CASE new.kind = "use"
        <5>1. new.code # 401 /\ new.code # 0
          BY <1>6, <4>4
        <5>2. new.cookie # None /\ End(new.cookie) > new.sent + Latency
          BY <4>1, <4>4 DEF Safe
        <5>3. user = "in" /\ new.set = None /\ new.code = 200 => Good(new.sent)'
          BY <1>6, <4>2, <4>4
        <5>4. QED
          BY <1>1, <3>1, <5>1, <5>2, <5>3 DEF Safe, End, Good
      <4>5. QED
        BY <4>3, <4>4
    <3>2. CASE t # s
      BY <1>1, <1>6, <3>2, OthersSafe DEF Live
    <3>3. QED
      BY <3>1, <3>2
  <2>3. QED
    BY <2>1, <2>2
<1>7. QED
  BY <1>2, <1>3, <1>4, <1>5, <1>6 DEF Live

\* A cookie that is set now is proper and has nearly max_age to live.
LEMMA NewCookieLive ==
  ASSUME Inv, NEW t \in Nat, t <= now
  PROVE  LET c == NewCookie(Unix(now + MaxAge))
         IN c \in Cookies /\ c # None /\ Proper(c) /\ End(c) > t + MaxAge - Second
<1> DEFINE c == NewCookie(Unix(now + MaxAge))
<1>1. c \in Cookies /\ c # None
  BY NewCookieBounded, SessionAssumption
<1>2. now \in Nat /\ now + MaxAge \in Nat /\ secret \in Nat
  BY Numbers, SessionAssumption DEF Inv, TypeOK
<1>3. c.secret = secret /\ c.signed = Unix(now) /\ c.expires = Unix(now + MaxAge)
  BY DEF NewCookie
<1>4. Proper(c)
  BY <1>2, <1>3, ExpiryAfterSignature DEF Proper
<1>5. now + MaxAge < End(c) + Second
  BY <1>2, <1>3, UnixLosesLittle DEF End
<1>6. End(c) \in Nat
  BY <1>1, CookieParts
<1> HIDE DEF c
<1>7. End(c) > t + MaxAge - Second
  BY <1>2, <1>5, <1>6, Numbers
<1>8. QED
  BY <1>1, <1>4, <1>7 DEF c

\* An answer without a cookie keeps the other parts of the request.
Coded(r, code) == [r EXCEPT !.code = code]

LEMMA CodeSet ==
  ASSUME NEW r \in Requests, NEW code \in {200, 401, 500}
  PROVE  LET new == Coded(r, code)
         IN /\ new \in Requests /\ new.cookie = r.cookie /\ new.set = r.set
            /\ new.kind = r.kind /\ new.sent = r.sent /\ new.drop = r.drop /\ new.code = code
BY DEF Requests, Coded

\* A request that is not handled yet carries nothing.
LEMMA OpenParts ==
  ASSUME Inv, Live, NEW s \in Slots, ~Free(s), req[s].code = 0
  PROVE  /\ req[s] \in Requests /\ req[s].sent \in Nat /\ req[s].sent <= now /\ req[s].set = None
         /\ req[s].drop => req[s].kind = "logout"
         /\ Proper(req[s].cookie) /\ Proper(None)
         /\ req[s].cookie # None => req[s].cookie \in Cookies
<1>1. req[s] \in Requests /\ req[s].cookie \in Cookies \cup {None}
  BY RequestParts DEF Inv
<1>2. Carries(s)
  BY DEF Live
<1>3. QED
  BY <1>1, <1>2 DEF Requests, Carries, Live, Signed, Proper

\* The request of a diligent user is accepted.
LEMMA DiligentAccepted ==
  ASSUME Roomy, Inv, Live, NEW s \in Slots, Open(s, "use"), diligent, secret = 0
  PROVE  Accepted(req[s].cookie)
<1>1. ~Free(s) /\ req[s].code = 0 /\ req[s].kind = "use"
  BY DEF Open
<1>2. Safe(s) /\ Prompt
  BY DEF Live
<1>3. req[s].cookie # None /\ End(req[s].cookie) > req[s].sent + Latency
  BY <1>1, <1>2 DEF Safe
<1>4. req[s].cookie \in Cookies /\ Proper(req[s].cookie) /\ req[s].sent \in Nat
  BY <1>1, <1>3, OpenParts
<1>5. End(req[s].cookie) \in Nat /\ now \in Nat
  BY <1>4, CookieParts DEF Inv, TypeOK
<1>6. now <= req[s].sent + Latency
  BY <1>1, <1>2 DEF Prompt
<1>7. End(req[s].cookie) > now
  BY <1>3, <1>4, <1>5, <1>6, Numbers
<1>8. QED
  BY <1>3, <1>4, <1>7, UnexpiredAccepted DEF Inv

\* Answers without a cookie: a refusal, a failure.
LEMMA PlainAnswerLive ==
  ASSUME Inv, Live, NEW s \in Slots, ~Free(s), req[s].code = 0, req[s].kind # "logout",
         NEW code \in {401, 500}, Answer(s, code),
         UNCHANGED <<now, diligent, secret, cookie, user, quiet>>,
         diligent /\ secret = 0 /\ req[s].kind = "use" => code # 401
  PROVE  Live'
<1> DEFINE new == Coded(req[s], code)
<1>1. req'[s] = new /\ \A t \in Slots \ {s} : req'[t] = req[t]
  BY DEF Answer, Coded, Inv, TypeOK
<1>2. req[s] \in Requests /\ req[s].set = None /\ Proper(None) /\ (req[s].drop => req[s].kind = "logout")
  BY OpenParts
<1>3. /\ new.cookie = req[s].cookie /\ new.set = None
      /\ new.kind = req[s].kind /\ new.sent = req[s].sent /\ new.drop = req[s].drop
      /\ new.code = code
  BY <1>2, CodeSet
<1> HIDE DEF new
<1>4. Fit(req[s], new)
  BY <1>2, <1>3 DEF Fit
<1>5. QED
  BY <1>1, <1>4, AnswerLive

\* authenticateAdmin of an accepted session.
LEMMA UseLive ==
  ASSUME Roomy, Inv, Live, NEW s \in Slots, Open(s, "use"), Accepted(req[s].cookie),
         req' = [req EXCEPT ![s] =
                   [@ EXCEPT !.code = 200,
                             !.set = IF shouldRenewSession(req[s].cookie.expires)
                                     THEN NewCookie(Renewed(req[s].cookie.expires)) ELSE None]],
         UNCHANGED <<now, diligent, secret, cookie, user, quiet>>
  PROVE  Live'
<1> DEFINE old == req[s].cookie
           fresh == NewCookie(Unix(now + MaxAge))
           c == IF shouldRenewSession(old.expires) THEN fresh ELSE None
           new == Granted(req[s], c)
<1>1. ~Free(s) /\ req[s].code = 0 /\ req[s].kind = "use"
  BY DEF Open
<1>2. /\ req[s] \in Requests /\ req[s].sent \in Nat /\ req[s].sent <= now
      /\ (req[s].drop => req[s].kind = "logout") /\ Proper(None)
      /\ old # None /\ old \in Cookies
  BY <1>1, OpenParts DEF Accepted
<1>3. fresh \in Cookies /\ fresh # None /\ Proper(fresh) /\ End(fresh) > req[s].sent + MaxAge - Second
  BY <1>2, NewCookieLive
<1>4. req'[s] = new /\ \A t \in Slots \ {s} : req'[t] = req[t]
  BY DEF Renewed, Granted, Inv, TypeOK
<1> HIDE DEF fresh
<1>5. c \in Cookies \cup {None} /\ Proper(c)
  BY <1>2, <1>3
<1>6. c # None => End(c) > req[s].sent + MaxAge - Second
  BY <1>3
<1>7. ASSUME diligent, secret = 0, user = "in", c = None PROVE Good(req[s].sent)
  <2>1. ~shouldRenewSession(old.expires)
    BY <1>3, <1>7
  <2>2. End(old) \in Nat /\ now \in Nat
    BY <1>2, CookieParts DEF Inv, TypeOK
  <2>3. 2 * (End(old) - now) >= MaxAge
    <3> DEFINE e == End(old)
    <3>1. ~(2 * (e - now) < MaxAge)
      BY <2>1 DEF shouldRenewSession, End
    <3> HIDE DEF e
    <3>2. QED
      BY <2>2, <3>1, Numbers DEF e
  <2>4. End(old) > req[s].sent + Gap + 2 * Latency /\ End(old) >= req[s].sent + Gap + Latency + Second
    BY <1>2, <2>2, <2>3, UnrenewedLasts
  <2>5. old.expires = cookie.expires \/ Good(req[s].sent)
    <3>1. Safe(s)
      BY <1>7 DEF Live
    <3>2. req[s].set = None
      BY <1>1, OpenParts
    <3>3. QED
      BY <1>1, <1>7, <3>1, <3>2 DEF Safe
  <2>6. CASE old.expires = cookie.expires
    <3>1. End(cookie) = End(old)
      BY <2>6 DEF End
    <3>2. QED
      BY <2>4, <3>1 DEF Good
  <2>7. QED
    BY <2>5, <2>6
<1> HIDE DEF c
<1>8. /\ new.cookie = req[s].cookie /\ new.set = c /\ new.kind = req[s].kind
      /\ new.sent = req[s].sent /\ new.drop = req[s].drop /\ new.code = 200
  BY <1>2, <1>5, CookieSet
<1> HIDE DEF new
<1>9. diligent /\ secret = 0 /\ new.kind = "use" =>
        /\ new.code \notin {0, 401}
        /\ user = "in" /\ new.set = None /\ new.code = 200 => Good(new.sent)
  BY <1>7, <1>8
<1>10. /\ Proper(new.set) /\ new.kind = "use" /\ ~new.drop
       /\ new.set # None => End(new.set) > new.sent + MaxAge - Second
  BY <1>1, <1>2, <1>5, <1>6, <1>8
<1>11. Fit(req[s], new)
  BY <1>8, <1>9, <1>10 DEF Fit
<1>12. QED
  BY <1>1, <1>4, <1>11, AnswerLive

\* Login with the right password.
LEMMA LoginLive ==
  ASSUME Inv, Live, NEW s \in Slots, Open(s, "login"),
         req' = [req EXCEPT ![s] = [@ EXCEPT !.code = 200, !.set = NewCookie(Unix(now + MaxAge))]],
         UNCHANGED <<now, diligent, secret, cookie, user, quiet>>
  PROVE  Live'
<1> DEFINE fresh == NewCookie(Unix(now + MaxAge))
           new == Granted(req[s], fresh)
<1>1. ~Free(s) /\ req[s].code = 0 /\ req[s].kind = "login"
  BY DEF Open
<1>2. req[s] \in Requests /\ req[s].sent \in Nat /\ req[s].sent <= now
      /\ (req[s].drop => req[s].kind = "logout")
  BY <1>1, OpenParts
<1>3. fresh \in Cookies /\ fresh # None /\ Proper(fresh) /\ End(fresh) > req[s].sent + MaxAge - Second
  BY <1>2, NewCookieLive
<1>4. req'[s] = new /\ \A t \in Slots \ {s} : req'[t] = req[t]
  BY DEF Granted, Inv, TypeOK
<1> HIDE DEF fresh
<1>5. /\ new.cookie = req[s].cookie /\ new.set = fresh /\ new.kind = req[s].kind
      /\ new.sent = req[s].sent /\ new.drop = req[s].drop /\ new.code = 200
  BY <1>2, <1>3, CookieSet
<1> HIDE DEF new
<1>6. Fit(req[s], new)
  BY <1>1, <1>2, <1>3, <1>5 DEF Fit
<1>7. QED
  BY <1>1, <1>4, <1>6, AnswerLive

LEMMA LogoutLive ==
  ASSUME Inv, Live, NEW s \in Slots, Logout(s)
  PROVE  Live'
<1> DEFINE new == Dropped(req[s], Decodes(req[s].cookie))
<1>1. /\ ~Free(s) /\ req[s].code = 0 /\ req[s].kind = "logout"
      /\ req'[s] = new /\ \A t \in Slots \ {s} : req'[t] = req[t]
      /\ UNCHANGED <<now, diligent, secret, cookie, user, quiet>>
  BY DEF Logout, Open, Dropped, Inv, TypeOK
<1>2. req[s] \in Requests /\ req[s].set = None /\ Proper(None)
  BY <1>1, OpenParts
<1>3. Decodes(req[s].cookie) \in BOOLEAN
  BY DEF Decodes
<1>4. /\ new.cookie = req[s].cookie /\ new.set = None /\ new.kind = "logout"
      /\ new.sent = req[s].sent /\ new.code = 200
  BY <1>1, <1>2, <1>3, DropSet
<1> HIDE DEF new
<1>5. Fit(req[s], new)
  BY <1>1, <1>2, <1>4 DEF Fit
<1>6. QED
  BY <1>1, <1>5, AnswerLive

LEMMA HandleLive ==
  ASSUME Roomy, Inv, Live, NEW s \in Slots, Handle(s)
  PROVE  Live'
<1>1. UNCHANGED <<now, diligent, secret, cookie, user, quiet>>
  BY DEF Handle, Use, Login, LoginRefused, Logout
<1>2. CASE Use(s)
  <2>1. Open(s, "use") /\ ~Free(s) /\ req[s].code = 0 /\ req[s].kind = "use"
    BY <1>2 DEF Use, Open
  <2>2. CASE ~Accepted(req[s].cookie) /\ Answer(s, 401)
    <3>1. ~(diligent /\ secret = 0)
      BY <2>1, <2>2, DiligentAccepted
    <3>2. QED
      BY <1>1, <2>1, <2>2, <3>1, PlainAnswerLive
  <2>3. CASE Answer(s, 500)
    BY <1>1, <2>1, <2>3, PlainAnswerLive
  <2>4. CASE /\ Accepted(req[s].cookie)
             /\ req' = [req EXCEPT ![s] =
                   [@ EXCEPT !.code = 200,
                             !.set = IF shouldRenewSession(req[s].cookie.expires)
                                     THEN NewCookie(Renewed(req[s].cookie.expires)) ELSE None]]
    BY <1>1, <2>1, <2>4, UseLive
  <2>5. QED
    BY <1>2, <2>2, <2>3, <2>4 DEF Use
<1>3. CASE Login(s)
  <2>1. Open(s, "login") /\ ~Free(s) /\ req[s].code = 0 /\ req[s].kind = "login"
    BY <1>3 DEF Login, Open
  <2>2. CASE Answer(s, 500)
    BY <1>1, <2>1, <2>2, PlainAnswerLive
  <2>3. CASE req' = [req EXCEPT ![s] = [@ EXCEPT !.code = 200, !.set = NewCookie(Unix(now + MaxAge))]]
    BY <1>1, <2>1, <2>3, LoginLive
  <2>4. QED
    BY <1>3, <2>2, <2>3 DEF Login
<1>4. CASE LoginRefused(s)
  BY <1>1, <1>4, PlainAnswerLive DEF LoginRefused, Open
<1>5. CASE Logout(s)
  BY <1>5, LogoutLive
<1>6. QED
  BY <1>2, <1>3, <1>4, <1>5 DEF Handle

\* What an answer that arrives leaves alone.
LEMMA ReceiveRest ==
  ASSUME Inv, Live, NEW s \in Slots,
         UNCHANGED <<now, diligent, secret>>, Free(s)',
         \A t \in Slots \ {s} : req'[t] = req[t],
         Proper(cookie)', Lasts', diligent => Prompt',
         diligent /\ secret = 0 => Ahead' /\ \A t \in Slots : Safe(t)'
  PROVE  Live'
<1>1. Signed'
  BY DEF Live, Signed, Proper, Free
<1>2. ASSUME NEW t \in Slots PROVE Carries(t)'
  <2>1. CASE t = s
    BY <2>1 DEF Carries
  <2>2. CASE t # s
    BY <2>2, OthersCarry DEF Live
  <2>3. QED
    BY <2>1, <2>2
<1>3. QED
  BY <1>1, <1>2 DEF Live

\* The answers that leave the user in the console: a login's, and those of
\* requests of a user who was in already.
LEMMA StaysIn ==
  ASSUME Inv, Live, NEW s \in Slots, Receive(s), user' = "in"
  PROVE  /\ ~req[s].drop
         /\ req[s].set = None => user = "in" /\ req[s].kind = "use" /\ req[s].code # 401
<1>1. Carries(s) /\ ~Free(s) /\ req[s].code # 0 /\ req[s].kind \in {"use", "login", "logout"}
      /\ req[s] \in Requests
  BY RequestParts DEF Live, Receive, Inv, Requests
<1>2. req[s].kind # "logout"
  BY <1>1 DEF Receive, Carries
<1>3. req[s].kind = "login" => req[s].code = 200 /\ req[s].set # None
  BY <1>1 DEF Receive, Carries
<1>4. req[s].kind = "use" => user = "in" /\ req[s].code # 401
  BY DEF Receive, Inv, TypeOK
<1>5. QED
  BY <1>1, <1>2, <1>3, <1>4 DEF Carries

\* The answer that sets the cookie is the one of a request sent Latency ago at
\* most: the new cookie is good for every request under way.
LEMMA ReceivedLasts ==
  ASSUME Roomy, Inv, Live, NEW s \in Slots, Receive(s), ~req[s].drop, req[s].set # None
  PROVE  /\ cookie' \in Cookies /\ cookie' # None /\ Proper(cookie') /\ Lasts' /\ quiet' = now
         /\ diligent => /\ End(cookie') > now + Gap + 2 * Latency
                        /\ End(cookie') >= now + Gap + Latency + Second
<1> DEFINE c == req[s].set
           d == now + Unix(MaxAge) * Second
<1>1. Carries(s) /\ ~Free(s) /\ req[s] \in Requests /\ c \in Cookies /\ Proper(c) /\ Bounded(c)
  BY RequestParts DEF Live, Signed, Receive, Inv, Cap
<1>2. cookie' = [c EXCEPT !.dies = d]
  BY DEF Receive
<1>3. now \in Nat /\ Unix(MaxAge) * Second \in Nat /\ MaxAge < Unix(MaxAge) * Second + Second
  <2>1. Unix(MaxAge) \in Nat
    BY Numbers, UnixRoundsDown
  <2>2. QED
    BY <2>1, Numbers, UnixLosesLittle DEF Inv, TypeOK
<1>4. /\ cookie' \in Cookies /\ cookie'.expires = c.expires /\ cookie'.dies = d
      /\ cookie'.secret = c.secret /\ cookie'.signed = c.signed
  BY <1>1, <1>2, <1>3 DEF Cookies
<1>5. cookie' # None
  BY <1>4, SessionAssumption
<1>6. Proper(cookie')
  BY <1>1, <1>4 DEF Proper
<1>7. End(cookie') = End(c) /\ End(c) \in Nat
  BY <1>1, <1>4, CookieParts DEF End
<1>8. Lasts'
  <2>1. End(c) <= lastOk + MaxAge /\ lastOk \in Nat /\ lastOk <= now
    BY <1>1 DEF Bounded, End, Inv, TypeOK
  <2>2. End(c) < d + Second
    BY <1>3, <1>7, <2>1, Numbers
  <2>3. QED
    BY <1>4, <2>2 DEF Lasts, End
<1>9. req[s].code = 200 /\ quiet' = now /\ End(c) > req[s].sent + MaxAge - Second /\ req[s].sent \in Nat
  BY <1>1 DEF Carries, Receive, Requests
<1>10. ASSUME diligent
       PROVE  End(c) > now + Gap + 2 * Latency /\ End(c) >= now + Gap + Latency + Second
  <2>1. now <= req[s].sent + Latency
    BY <1>1, <1>10 DEF Live, Prompt
  <2>2. QED
    BY <1>3, <1>7, <1>9, <2>1, RenewedLasts
<1>11. QED
  BY <1>4, <1>5, <1>6, <1>7, <1>8, <1>9, <1>10

LEMMA ReceiveLive ==
  ASSUME Roomy, Inv, Live, NEW s \in Slots, Receive(s)
  PROVE  Live'
<1>1. /\ ~Free(s) /\ req[s] \in Requests /\ req' = [req EXCEPT ![s] = None]
      /\ UNCHANGED <<now, diligent, secret, lastOk>> /\ now \in Nat /\ quiet \in Nat
  BY RequestParts DEF Receive, Inv, TypeOK
<1>2. /\ req'[s] = None /\ Free(s)'
      /\ \A t \in Slots \ {s} : req'[t] = req[t]
  BY <1>1 DEF Inv, TypeOK, Free
<1>3. CASE req[s].drop
  <2>1. cookie' = None
    BY <1>3 DEF Receive
  <2>2. Proper(cookie)' /\ Lasts'
    BY <2>1 DEF Proper, Lasts
  <2>3. user' # "in"
    BY <1>3, StaysIn
  <2>4. diligent => Prompt'
    BY <1>1, <1>2, <2>3 DEF Live, Prompt, Free
  <2>5. ASSUME diligent, secret = 0, NEW t \in Slots PROVE Ahead' /\ Safe(t)'
    BY <1>2, <2>3, <2>5 DEF Live, Ahead, Safe, Free, End
  <2>6. QED
    BY <1>1, <1>2, <2>2, <2>4, <2>5, ReceiveRest
<1>4. CASE ~req[s].drop /\ req[s].set # None
  <2>1. /\ cookie' \in Cookies /\ cookie' # None /\ Proper(cookie') /\ Lasts' /\ quiet' = now
        /\ diligent => /\ End(cookie') > now + Gap + 2 * Latency
                       /\ End(cookie') >= now + Gap + Latency + Second
    BY <1>4, ReceivedLasts
  <2>2. Proper(cookie)'
    BY <1>1, <2>1 DEF Proper
  <2>3. diligent => Prompt'
    BY <1>1, <1>2, <2>1, Numbers DEF Live, Prompt, Free
  <2>4. End(cookie') \in Nat
    BY <2>1, CookieParts
  <2>5. ASSUME diligent, secret = 0, NEW t \in Slots PROVE Ahead' /\ Safe(t)'
    <3>1. Ahead'
      <4>1. End(cookie') > now + Gap + Latency /\ End(cookie') >= now + Gap + Second
        BY <1>1, <2>1, <2>4, <2>5, Numbers
      <4>2. QED
        BY <1>1, <2>1, <4>1 DEF Ahead, End
    <3>2. CASE t = s
      BY <1>2, <3>1, <3>2 DEF Safe, Free
    <3>3. CASE t # s /\ ~Free(t)
      <4>1. req'[t] = req[t] /\ Safe(t) /\ Carries(t)
        BY <1>2, <2>5, <3>3 DEF Live
      <4>2. req[t].sent \in Nat /\ req[t].sent <= now
        BY <3>3, <4>1, RequestParts DEF Carries, Requests, Inv
      <4>3. /\ End(cookie') > req[t].sent + Gap + 2 * Latency
            /\ End(cookie') >= req[t].sent + Gap + Latency + Second
        BY <1>1, <2>1, <2>4, <2>5, <4>2, Numbers
      <4>4. End(cookie)' = End(cookie') /\ End(req[t].cookie)' = End(req[t].cookie)
        BY <4>1 DEF End
      <4>5. Good(req[t].sent)'
        BY <4>1, <4>3, <4>4 DEF Good
      <4>6. QED
        BY <3>1, <4>1, <4>4, <4>5, <3>3 DEF Safe, Free
    <3>4. CASE t # s /\ Free(t)
      BY <1>2, <3>1, <3>4 DEF Safe, Free
    <3>5. QED
      BY <3>1, <3>2, <3>3, <3>4
  <2>6. QED
    BY <1>1, <1>2, <2>1, <2>2, <2>3, <2>5, ReceiveRest
<1>5. CASE ~req[s].drop /\ req[s].set = None
  <2>1. cookie' = cookie
    BY <1>5 DEF Receive
  <2>2. Proper(cookie)' /\ Lasts'
    BY <1>1, <2>1 DEF Live, Signed, Proper, Lasts, End
  <2>3. user' = "in" => user = "in" /\ req[s].kind = "use" /\ req[s].code # 401
    BY <1>5, StaysIn
  <2>4. quiet' \in {quiet, now} /\ (req[s].code # 200 => quiet' = quiet)
    BY DEF Receive
  <2>5. diligent => Prompt'
    <3>1. ASSUME diligent, user' = "in" PROVE now <= quiet' + Gap
      <4>1. CASE quiet' = now
        BY <1>1, <4>1, Numbers
      <4>2. CASE quiet' = quiet
        BY <2>3, <3>1, <4>2 DEF Live, Prompt
      <4>3. QED
        BY <2>4, <4>1, <4>2
    <3>2. QED
      BY <1>1, <1>2, <3>1 DEF Live, Prompt, Free
  <2>6. ASSUME diligent, secret = 0, NEW t \in Slots PROVE Ahead' /\ Safe(t)'
    <3>1. ASSUME user' = "in" PROVE /\ cookie # None /\ End(cookie) > quiet' + Gap + Latency
                                    /\ End(cookie) >= quiet' + Gap + Second
      <4>1. Ahead /\ Safe(s) /\ Prompt
        BY <2>6 DEF Live
      <4>2. cookie # None /\ cookie \in Cookies /\ End(cookie) \in Nat
        BY <2>3, <3>1, <4>1, CookieParts DEF Ahead, Inv, TypeOK
      <4>3. CASE req[s].code = 200
        <5>1. Good(req[s].sent) /\ req[s].sent \in Nat /\ now <= req[s].sent + Latency
          BY <1>1, <1>5, <2>3, <3>1, <4>1, <4>3 DEF Safe, Prompt, Requests
        <5>2. End(cookie) > now + Gap + Latency /\ End(cookie) >= now + Gap + Second
          BY <1>1, <4>2, <5>1, Numbers DEF Good
        <5>3. QED
          BY <4>2, <4>3, <5>2 DEF Receive
      <4>4. CASE req[s].code # 200
        BY <2>3, <2>4, <3>1, <4>1, <4>4 DEF Ahead
      <4>5. QED
        BY <4>3, <4>4
    <3>2. Ahead'
      <4>1. End(cookie)' = End(cookie)
        BY <2>1 DEF End
      <4>2. QED
        BY <2>1, <3>1, <4>1 DEF Ahead
    <3>3. CASE t = s
      BY <1>2, <3>2, <3>3 DEF Safe, Free
    <3>4. CASE t # s
      BY <1>2, <2>1, <2>3, <2>6, <3>2, <3>4, OthersSafe DEF Live
    <3>5. QED
      BY <3>2, <3>3, <3>4
  <2>7. QED
    BY <1>1, <1>2, <2>2, <2>5, <2>6, ReceiveRest
<1>6. QED
  BY <1>3, <1>4, <1>5

\* Time and the secret: a diligent user does not let the clock run on.
LEMMA RestLive ==
  ASSUME Inv, Live, Rotate \/ Tick \/ UNCHANGED vars
  PROVE  Live'
<1>1. UNCHANGED <<diligent, cookie, user, req, lastOk, quiet>>
  BY DEF Rotate, Tick, vars
<1>2. /\ now \in Nat /\ now' \in Nat /\ now <= now' /\ secret \in Nat /\ secret' \in Nat
      /\ secret <= secret' /\ quiet \in Nat
  BY SessionAssumption DEF Inv, TypeOK, Rotate, Tick, vars
<1>3. Signed'
  <2>1. ASSUME NEW c \in Cookies \cup {None}, Proper(c) PROVE Proper(c)'
    <3>1. c # None => c.secret <= secret' /\ c.expires <= c.signed + Unix(MaxAge) + 1
      BY <1>2, <2>1, ProperStays DEF Inv
    <3>2. QED
      BY <3>1 DEF Proper
  <2>2. Proper(cookie)'
    <3>1. Proper(cookie) /\ cookie \in Cookies \cup {None}
      BY DEF Live, Signed, Inv, TypeOK
    <3>2. QED
      BY <1>1, <2>1, <3>1 DEF Proper
  <2>3. ASSUME NEW t \in Slots, ~Free(t)' PROVE Proper(req[t].cookie)' /\ Proper(req[t].set)'
    <3>1. /\ Proper(req[t].cookie) /\ Proper(req[t].set)
          /\ req[t].cookie \in Cookies \cup {None} /\ req[t].set \in Cookies \cup {None}
      BY <1>1, <2>3, RequestParts DEF Live, Signed, Inv, Free
    <3>2. QED
      BY <1>1, <2>1, <3>1 DEF Proper
  <2>4. QED
    BY <2>2, <2>3 DEF Signed
<1>4. Lasts'
  BY <1>1 DEF Live, Lasts, End
<1>5. ASSUME NEW t \in Slots PROVE Carries(t)'
  <2>1. CASE Free(t)
    BY <1>1, <2>1 DEF Carries, Free
  <2>2. CASE ~Free(t)
    <3>1. req[t].sent \in Nat /\ Carries(t)
      BY <2>2, RequestParts DEF Inv, Requests, Live
    <3>2. req[t].sent <= now'
      BY <1>2, <2>2, <3>1 DEF Carries
    <3>3. QED
      BY <1>1, <2>2, <3>1, <3>2 DEF Carries, Free, End
  <2>3. QED
    BY <2>1, <2>2
<1>6. ASSUME diligent PROVE Prompt'
  <2>1. CASE now' = now
    BY <1>1, <1>6, <2>1 DEF Live, Prompt, Free
  <2>2. CASE Tick
    <3>1. now' = now + 1 /\ Busy
      BY <1>6, <2>2 DEF Tick
    <3>2. user = "in" => now' <= quiet + Gap
      BY <1>2, <3>1, Numbers DEF Busy
    <3>3. ASSUME NEW t \in Slots, ~Free(t) PROVE now' <= req[t].sent + Latency
      <4>1. req[t].sent \in Nat
        BY <3>3, RequestParts DEF Inv, Requests
      <4>2. QED
        BY <1>2, <3>1, <3>3, <4>1, Numbers DEF Busy
    <3>4. QED
      BY <1>1, <3>2, <3>3 DEF Prompt, Free
  <2>3. QED
    BY <2>1, <2>2 DEF Rotate, vars
<1>7. ASSUME diligent, secret' = 0 PROVE Ahead' /\ \A t \in Slots : Safe(t)'
  <2>1. secret = 0
    BY <1>2, <1>7
  <2>2. Ahead /\ \A t \in Slots : Safe(t)
    BY <1>7, <2>1 DEF Live
  <2>3. Ahead'
    BY <1>1, <2>2 DEF Ahead, End
  <2>4. QED
    BY <1>1, <2>2, <2>3, OthersSafe
<1>8. QED
  BY <1>1, <1>3, <1>4, <1>5, <1>6, <1>7 DEF Live

LEMMA LiveNext ==
  ASSUME Roomy, Inv, Live, [Next]_vars
  PROVE  Live'
<1>1. ASSUME NEW s \in Slots, Handle(s) PROVE Live'
  BY <1>1, HandleLive
<1>2. ASSUME NEW s \in Slots, Browse(s) PROVE Live'
  <2>1. CASE SendUse(s)
    BY <2>1, SendLive DEF SendUse
  <2>2. CASE SendLogin(s)
    BY <2>2, SendLive DEF SendLogin
  <2>3. CASE SendLogout(s)
    BY <2>3, SendLive DEF SendLogout
  <2>4. CASE Receive(s)
    BY <2>4, ReceiveLive
  <2>5. QED
    BY <1>2, <2>1, <2>2, <2>3, <2>4 DEF Browse
<1>3. CASE Rotate \/ Tick \/ UNCHANGED vars
  BY <1>3, RestLive
<1>4. QED
  BY <1>1, <1>2, <1>3 DEF Next

\* Sliding renewal works (auth_middleware.go:120): with room for a pause and two
\* trips in half of max_age, and while the secret stays, a user who keeps using
\* the console is never sent to the login page, whatever the number of requests
\* under way and the order in which their answers replace the cookie.
THEOREM SessionActiveStaysIn ==
  ASSUME Roomy
  PROVE  Spec => []ActiveStaysIn
<1>1. Inv /\ Live /\ [Next]_vars => Live'
  BY LiveNext
<1>2. Live => ActiveStaysIn
  BY DEF Live, Safe, ActiveStaysIn
<1>3. QED
  BY <1>1, <1>2, LiveInit, SessionInvariant, PTL DEF Spec

=============================================================================
