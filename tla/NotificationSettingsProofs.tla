--------------------- MODULE NotificationSettingsProofs ---------------------
(***************************************************************************)
(* Proofs about NotificationSettings for any windows, requests, tokens,    *)
(* URLs and proxies. The argument is about ages: a copy of a row with the  *)
(* row's age is a copy of what the row holds, because every write that     *)
(* changes the row makes it older.                                         *)
(***************************************************************************)
EXTENDS NotificationSettings, TLAPS

-----------------------------------------------------------------------------
(* The inductive invariant *)

Forms == [busy : BOOLEAN, token : TokenCopies, uses : Uses, list : [ProxyIds -> UrlCopies],
          edit : ProxyIds \cup {0}, url : UrlCopies]
Reqs == [pc : PCs, tab : Tabs \cup {None}, token : TokenCopies, proxy : ProxyIds \cup {0},
         id : ProxyIds \cup {0}, url : UrlCopies,
         send : Tokens \cup Masks(Tokens) \cup Urls \cup Masks(Urls) \cup {None},
         editing : BOOLEAN, uses : Uses, list : [ProxyIds -> UrlCopies]]

\* c is no newer than row x of the given age; with that age and a mask, it is
\* the mask of x.
Fresh(c, secrets, x, age) ==
  /\ c.age <= age
  /\ c.val \in Masks(secrets) /\ c.age = age => x # None /\ masked(secrets, x) = c.val

FreshToken(c) == Fresh(c, Tokens, botToken, tokenAge)
FreshUrl(c, i) == Fresh(c, Urls, urls[i], urlAge[i])

\* A form for a new proxy never holds a mask.
FormInv(f) ==
  /\ FreshToken(f.token)
  /\ \A i \in ProxyIds : FreshUrl(f.list[i], i)
  /\ IF f.edit = 0 THEN f.url.val \in Urls \cup {None} ELSE FreshUrl(f.url, f.edit)

ReqFresh(x) ==
  /\ FreshToken(x.token)
  /\ \A i \in ProxyIds : FreshUrl(x.list[i], i)
  /\ x.id # 0 => FreshUrl(x.url, x.id)

\* What a request may be about to write, given the rows overtaken so far.
ReqSends(x, over) ==
  /\ x.pc # "idle" => x.tab \in Tabs
  /\ x.pc \in {"getProxy", "updateProxy", "deleteProxy"} => x.id \in ProxyIds
  /\ x.pc = "createProxy" => x.url.val \in Urls
  /\ x.pc = "getProxy" => x.url.val # None
  /\ x.pc = "upsertTelegram" =>
       /\ x.send \in Tokens \cup {None} \/ (x.send \in Masks(Tokens) /\ 0 \in over)
       /\ x.token.val \notin Tokens /\ x.token.age = tokenAge => x.send = botToken
  /\ x.pc = "updateProxy" => x.send \in Urls \/ (x.send \in Masks(Urls) /\ x.id \in over)

Relies(x) == x.pc \in {"listChannels", "upsertTelegram", "upsertWebhook"}

IInv ==
  /\ TypeOK
  /\ SecretsAreReal
  /\ \A t \in Tabs : FormInv(form[t])
  /\ \A r \in Requests : /\ ReqFresh(req[r]) /\ ReqSends(req[r], overtaken)
                         /\ Relies(req[r]) => Exists(req[r].proxy) \/ r \in robbed

-----------------------------------------------------------------------------
(* Values *)

LEMMA Values ==
  /\ \A x \in Tokens \cup Urls : Mask(x) \notin Tokens \cup Urls \cup {None} /\ x # None
  /\ \A x \in Masks(Tokens) \cup Masks(Urls) : x \notin Tokens \cup Urls \cup {None}
  BY SettingsAssumption DEF Mask, Masks

LEMMA MaskedValue ==
  ASSUME NEW secrets \in {Tokens, Urls}, NEW x \in secrets \cup Masks(secrets)
  PROVE  masked(secrets, x) \in Masks(secrets)
  BY DEF masked, Masks

LEMMA EmptyType == Empty \in TokenCopies /\ Empty \in UrlCopies /\ Empty.val = None /\ Empty.age = 0
  BY DEF Empty, Copy, TokenCopies, UrlCopies, Copies

LEMMA EmptyFresh ==
  ASSUME TypeOK
  PROVE  FreshToken(Empty) /\ \A i \in ProxyIds : FreshUrl(Empty, i)
  BY Values, EmptyType DEF TypeOK, FreshToken, FreshUrl, Fresh

\* What a load shows is fresh.
LEMMA ShownFresh ==
  ASSUME TypeOK
  PROVE  /\ Shown(Tokens, botToken, tokenAge) \in TokenCopies
         /\ FreshToken(Shown(Tokens, botToken, tokenAge))
         /\ \A i \in ProxyIds : /\ Shown(Urls, urls[i], urlAge[i]) \in UrlCopies
                                /\ FreshUrl(Shown(Urls, urls[i], urlAge[i]), i)
  <1>1. /\ Shown(Tokens, botToken, tokenAge) \in TokenCopies
        /\ FreshToken(Shown(Tokens, botToken, tokenAge))
    <2>1. CASE botToken = None
      BY <2>1, EmptyType, EmptyFresh DEF Shown
    <2>2. CASE botToken # None
      <3>1. botToken \in Tokens \cup Masks(Tokens) /\ tokenAge \in Nat
        BY <2>2 DEF TypeOK
      <3>2. masked(Tokens, botToken) \in Masks(Tokens)
        BY <3>1, MaskedValue
      <3>3. Shown(Tokens, botToken, tokenAge) = [val |-> masked(Tokens, botToken), age |-> tokenAge]
        BY <2>2 DEF Shown, Copy
      <3> QED
        BY <2>2, <3>1, <3>2, <3>3 DEF TokenCopies, Copies, FreshToken, Fresh
    <2> QED
      BY <2>1, <2>2
  <1>2. ASSUME NEW i \in ProxyIds
        PROVE  Shown(Urls, urls[i], urlAge[i]) \in UrlCopies /\ FreshUrl(Shown(Urls, urls[i], urlAge[i]), i)
    <2>1. CASE urls[i] = None
      BY <2>1, EmptyType, EmptyFresh DEF Shown
    <2>2. CASE urls[i] # None
      <3>1. urls[i] \in Urls \cup Masks(Urls) /\ urlAge[i] \in Nat
        BY <2>2 DEF TypeOK
      <3>2. masked(Urls, urls[i]) \in Masks(Urls)
        BY <3>1, MaskedValue
      <3>3. Shown(Urls, urls[i], urlAge[i]) = [val |-> masked(Urls, urls[i]), age |-> urlAge[i]]
        BY <2>2 DEF Shown, Copy
      <3> QED
        BY <2>2, <3>1, <3>2, <3>3 DEF UrlCopies, Copies, FreshUrl, Fresh
    <2> QED
      BY <2>1, <2>2
  <1> QED
    BY <1>1, <1>2

\* What was typed is no mask.
LEMMA TypedFresh ==
  ASSUME TypeOK
  PROVE  /\ \A x \in Tokens \cup {None} : Copy(x, 0) \in TokenCopies /\ FreshToken(Copy(x, 0))
         /\ \A u \in Urls : /\ Copy(u, 0) \in UrlCopies /\ Copy(u, 0).val = u
                            /\ \A i \in ProxyIds : FreshUrl(Copy(u, 0), i)
  <1>1. ASSUME NEW x \in Tokens \cup {None}
        PROVE  Copy(x, 0) \in TokenCopies /\ FreshToken(Copy(x, 0))
    <2>1. Copy(x, 0) \in TokenCopies /\ Copy(x, 0).val = x /\ Copy(x, 0).age = 0
      BY DEF Copy, TokenCopies, Copies
    <2> QED
      BY <2>1, Values DEF TypeOK, FreshToken, Fresh
  <1>2. ASSUME NEW u \in Urls
        PROVE  /\ Copy(u, 0) \in UrlCopies /\ Copy(u, 0).val = u
               /\ \A i \in ProxyIds : FreshUrl(Copy(u, 0), i)
    <2>1. Copy(u, 0) \in UrlCopies /\ Copy(u, 0).val = u /\ Copy(u, 0).age = 0
      BY DEF Copy, UrlCopies, Copies
    <2> QED
      BY <2>1, Values DEF TypeOK, FreshUrl, Fresh
  <1> QED
    BY <1>1, <1>2

-----------------------------------------------------------------------------
(* Shapes of forms and requests *)

LEMMA Parts ==
  ASSUME TypeOK
  PROVE  form \in [Tabs -> Forms] /\ req \in [Requests -> Reqs]
  BY DEF TypeOK, Forms, Reqs

LEMMA NoReqType ==
  /\ NoReq \in Reqs /\ NoReq.pc = "idle" /\ NoReq.token = Empty /\ NoReq.url = Empty /\ NoReq.id = 0
  /\ NoReq.list = [i \in ProxyIds |-> Empty]
  <1>1. [i \in ProxyIds |-> Empty] \in [ProxyIds -> UrlCopies] /\ [c \in Channels |-> 0] \in Uses
    BY EmptyType DEF Uses
  <1>2. "idle" \in PCs
    BY DEF PCs
  <1> QED
    BY <1>1, <1>2, EmptyType DEF NoReq, Reqs

\* A request without copies: what a handler has left when it has answered.
Blank(x) == x.token = Empty /\ x.url = Empty /\ x.list = [i \in ProxyIds |-> Empty]

LEMMA BlankFresh ==
  ASSUME TypeOK, NEW x \in Reqs, Blank(x)
  PROVE  ReqFresh(x)
  <1>1. \A i \in ProxyIds : x.list[i] = Empty
    BY DEF Blank
  <1>2. x.id # 0 => x.id \in ProxyIds
    BY DEF Reqs
  <1> QED
    BY <1>1, <1>2, EmptyFresh DEF ReqFresh, Blank

-----------------------------------------------------------------------------
(* Steps that store nothing *)

LEMMA QuietStep ==
  ASSUME IInv, UNCHANGED stored, sent' \in 0..MaxSent,
         form' \in [Tabs -> Forms], req' \in [Requests -> Reqs],
         overtaken \subseteq overtaken', overtaken' \subseteq ProxyIds \cup {0},
         robbed' \subseteq Requests,
         \A t \in Tabs : FormInv(form'[t]),
         \A r \in Requests : /\ ReqFresh(req'[r]) /\ ReqSends(req'[r], overtaken')
                             /\ Relies(req'[r]) => Exists(req'[r].proxy) \/ r \in robbed'
  PROVE  IInv'
  <1>1. /\ UNCHANGED <<botToken, uses, urls, used, tokenAge, urlAge>>
        /\ TypeOK /\ SecretsAreReal
    BY DEF stored, IInv
  <1>2. TypeOK'
    <2>1. \A r \in Requests :
            /\ req'[r].pc # "idle" => req'[r].tab \in Tabs
            /\ req'[r].pc \in {"getProxy", "updateProxy", "deleteProxy"} => req'[r].id \in ProxyIds
      BY DEF ReqSends
    <2> QED
      BY <1>1, <2>1 DEF TypeOK, Forms, Reqs
  <1>3. SecretsAreReal'
    BY <1>1 DEF SecretsAreReal
  <1>4. \A t \in Tabs : FormInv(form[t])'
    BY <1>1 DEF FormInv, FreshToken, FreshUrl, Fresh, masked
  <1>5. \A r \in Requests : ReqFresh(req[r])'
    BY <1>1 DEF ReqFresh, FreshToken, FreshUrl, Fresh, masked
  <1>6. \A r \in Requests : ReqSends(req[r], overtaken)'
    BY <1>1 DEF ReqSends
  <1>7. \A r \in Requests : (Relies(req[r]) => Exists(req[r].proxy) \/ r \in robbed)'
    BY <1>1 DEF Relies, Exists
  <1> QED
    BY <1>2, <1>3, <1>4, <1>5, <1>6, <1>7 DEF IInv

\* One form changes.
LEMMA FormStep ==
  ASSUME IInv, NEW t \in Tabs, NEW f \in Forms, FormInv(f), form' = [form EXCEPT ![t] = f]
  PROVE  form' \in [Tabs -> Forms] /\ \A s \in Tabs : FormInv(form'[s])
  <1>1. form \in [Tabs -> Forms] /\ \A s \in Tabs : FormInv(form[s])
    BY Parts DEF IInv
  <1>2. \A s \in Tabs : form'[s] = f \/ form'[s] = form[s]
    BY <1>1
  <1> QED
    BY <1>1, <1>2

\* One request changes.
LEMMA ReqStep ==
  ASSUME IInv, NEW r \in Requests, NEW x \in Reqs, req' = [req EXCEPT ![r] = x],
         UNCHANGED stored, overtaken \subseteq overtaken', robbed \ {r} \subseteq robbed',
         ReqFresh(x), ReqSends(x, overtaken'),
         Relies(x) => Exists(x.proxy) \/ r \in robbed'
  PROVE  /\ req' \in [Requests -> Reqs]
         /\ \A q \in Requests : /\ ReqFresh(req'[q]) /\ ReqSends(req'[q], overtaken')
                                /\ Relies(req'[q]) => Exists(req'[q].proxy) \/ q \in robbed'
  <1>1. req \in [Requests -> Reqs]
    BY Parts DEF IInv
  <1>2. ASSUME NEW q \in Requests \ {r}
        PROVE  /\ ReqFresh(req'[q]) /\ ReqSends(req'[q], overtaken')
               /\ Relies(req'[q]) => Exists(req'[q].proxy) \/ q \in robbed'
    <2>1. req'[q] = req[q]
      BY <1>1
    <2>2. ReqFresh(req[q]) /\ ReqSends(req[q], overtaken)
          /\ (Relies(req[q]) => Exists(req[q].proxy) \/ q \in robbed)
      BY DEF IInv
    <2>3. ReqSends(req[q], overtaken')
      BY <2>2 DEF ReqSends
    <2> QED
      BY <2>1, <2>2, <2>3
  <1>3. req'[r] = x
    BY <1>1
  <1> QED
    BY <1>1, <1>2, <1>3

\* The user types or clicks without sending anything.
LEMMA TypedStep ==
  ASSUME IInv, NEW t \in Tabs, NEW f \in Forms, FormInv(f), Typed(t, f)
  PROVE  IInv'
  <1>1. UNCHANGED <<stored, req, sent, overtaken, robbed>> /\ form' = [form EXCEPT ![t] = f]
    BY DEF Typed, history
  <1>2. form' \in [Tabs -> Forms] /\ \A s \in Tabs : FormInv(form'[s])
    BY <1>1, FormStep
  <1>3. TypeOK /\ \A r \in Requests :
          /\ ReqFresh(req[r]) /\ ReqSends(req[r], overtaken)
          /\ Relies(req[r]) => Exists(req[r].proxy) \/ r \in robbed
    BY DEF IInv
  <1>4. /\ sent' \in 0..MaxSent /\ req' \in [Requests -> Reqs] /\ robbed' \subseteq Requests
        /\ overtaken' \subseteq ProxyIds \cup {0}
    BY <1>1, <1>3, Parts DEF TypeOK
  <1> QED
    BY <1>1, <1>2, <1>3, <1>4, QuietStep

LEMMA TypingStep ==
  ASSUME IInv, NEW t \in Tabs,
         TypeToken(t) \/ ChooseProxy(t) \/ StartEdit(t) \/ CancelEdit(t) \/ TypeUrl(t)
  PROVE  IInv'
  <1> DEFINE F == form[t]
  <1>1. TypeOK /\ FormInv(F) /\ F \in Forms
    BY Parts DEF IInv
  <1> HIDE DEF F
  <1>2. CASE TypeToken(t)
    <2>1. PICK x \in Tokens \cup {None} : Typed(t, [F EXCEPT !.token = Copy(x, 0)])
      BY <1>2 DEF TypeToken, F
    <2>2. Copy(x, 0) \in TokenCopies /\ FreshToken(Copy(x, 0))
      BY <1>1, TypedFresh
    <2>3. [F EXCEPT !.token = Copy(x, 0)] \in Forms /\ FormInv([F EXCEPT !.token = Copy(x, 0)])
      BY <1>1, <2>2 DEF Forms, FormInv
    <2> QED
      BY <2>1, <2>3, TypedStep
  <1>3. CASE ChooseProxy(t)
    <2>1. PICK c \in Channels, i \in Listed(t) \cup {0} : Typed(t, [F EXCEPT !.uses[c] = i])
      BY <1>3 DEF ChooseProxy, F
    <2>2. [F.uses EXCEPT ![c] = i] \in Uses
      BY <1>1 DEF Forms, Uses, Listed
    <2>3. [F EXCEPT !.uses[c] = i] \in Forms /\ FormInv([F EXCEPT !.uses[c] = i])
      BY <1>1, <2>2 DEF Forms, FormInv
    <2> QED
      BY <2>1, <2>3, TypedStep
  <1>4. CASE StartEdit(t)
    <2>1. PICK i \in Listed(t) : Typed(t, [F EXCEPT !.edit = i, !.url = F.list[i]])
      BY <1>4 DEF StartEdit, F
    <2>2. i \in ProxyIds /\ i # 0 /\ F.list[i] \in UrlCopies /\ FreshUrl(F.list[i], i)
      BY <1>1, SettingsAssumption DEF Forms, Listed, FormInv
    <2>3. /\ [F EXCEPT !.edit = i, !.url = F.list[i]] \in Forms
          /\ FormInv([F EXCEPT !.edit = i, !.url = F.list[i]])
      BY <1>1, <2>2 DEF Forms, FormInv
    <2> QED
      BY <2>1, <2>3, TypedStep
  <1>5. CASE CancelEdit(t)
    <2>1. [F EXCEPT !.edit = 0, !.url = Empty] \in Forms /\ FormInv([F EXCEPT !.edit = 0, !.url = Empty])
      BY <1>1, EmptyType DEF Forms, FormInv
    <2> QED
      BY <1>5, <2>1, TypedStep DEF CancelEdit, F
  <1>6. CASE TypeUrl(t)
    <2>1. PICK u \in Urls : Typed(t, [F EXCEPT !.url = Copy(u, 0)])
      BY <1>6 DEF TypeUrl, F
    <2>2. /\ Copy(u, 0) \in UrlCopies /\ Copy(u, 0).val \in Urls
          /\ \A i \in ProxyIds : FreshUrl(Copy(u, 0), i)
      BY <1>1, TypedFresh
    <2>3. [F EXCEPT !.url = Copy(u, 0)] \in Forms /\ FormInv([F EXCEPT !.url = Copy(u, 0)])
      BY <1>1, <2>2 DEF Forms, FormInv
    <2> QED
      BY <2>1, <2>3, TypedStep
  <1> QED
    BY <1>2, <1>3, <1>4, <1>5, <1>6

\* A button starts request x.
LEMMA BeginStep ==
  ASSUME IInv, NEW r \in Requests, NEW t \in Tabs, NEW x \in Reqs, Begin(r, t, x),
         sent' \in 0..MaxSent, ReqFresh(x), ReqSends(x, overtaken), ~Relies(x)
  PROVE  IInv'
  <1>1. /\ UNCHANGED <<stored, overtaken, robbed>> /\ req' = [req EXCEPT ![r] = x]
        /\ form' = [form EXCEPT ![t] = [form[t] EXCEPT !.busy = TRUE]]
    <2>1. form' = [form EXCEPT ![t].busy = TRUE]
      BY DEF Begin
    <2> QED
      BY <2>1 DEF Begin, history
  <1>2. TypeOK /\ FormInv(form[t]) /\ form[t] \in Forms
    BY Parts DEF IInv
  <1>3. [form[t] EXCEPT !.busy = TRUE] \in Forms /\ FormInv([form[t] EXCEPT !.busy = TRUE])
    BY <1>2 DEF Forms, FormInv
  <1>4. form' \in [Tabs -> Forms] /\ \A s \in Tabs : FormInv(form'[s])
    BY <1>1, <1>3, FormStep
  <1>5. robbed' \subseteq Requests /\ overtaken' \subseteq ProxyIds \cup {0}
    BY <1>1, <1>2 DEF TypeOK
  <1>6. /\ req' \in [Requests -> Reqs]
        /\ \A q \in Requests : /\ ReqFresh(req'[q]) /\ ReqSends(req'[q], overtaken')
                               /\ Relies(req'[q]) => Exists(req'[q].proxy) \/ q \in robbed'
    BY <1>1, ReqStep
  <1> QED
    BY <1>1, <1>4, <1>5, <1>6, QuietStep

\* The request that a button sends, filled from form F.
LEMMA Buttons ==
  ASSUME IInv, NEW t \in Tabs, NEW r \in Requests,
         SaveTelegram(r, t) \/ SaveWebhook(r, t) \/ SaveProxy(r, t) \/ PressDelete(r, t) \/ Load(r, t)
  PROVE  IInv'
  <1> DEFINE F == form[t]
  <1>1. TypeOK /\ FormInv(F) /\ F \in Forms /\ sent \in 0..MaxSent /\ MaxSent \in Nat
    BY Parts, SettingsAssumption DEF IInv, TypeOK
  <1> HIDE DEF F
  <1>2. ASSUME NEW x, Submit(r, t, x)
        PROVE  Begin(r, t, x) /\ sent' \in 0..MaxSent
    BY <1>1, <1>2 DEF Submit
  <1>3. CASE SaveTelegram(r, t)
    <2> DEFINE x == [NoReq EXCEPT !.pc = "checkTelegram", !.tab = t, !.token = F.token,
                                  !.proxy = F.uses["telegram"]]
    <2>1. F.token \in TokenCopies /\ F.uses["telegram"] \in ProxyIds \cup {0} /\ FreshToken(F.token)
      BY <1>1 DEF Forms, Uses, Channels, FormInv
    <2>2. /\ x \in Reqs /\ x.pc = "checkTelegram" /\ x.tab = t /\ x.token = F.token
          /\ x.id = 0 /\ x.list = [i \in ProxyIds |-> Empty]
      BY <2>1, NoReqType DEF Reqs, PCs
    <2>3. Submit(r, t, x)
      BY <1>3 DEF SaveTelegram, F
    <2> HIDE DEF x
    <2>4. ReqFresh(x) /\ ReqSends(x, overtaken) /\ ~Relies(x)
      BY <1>1, <2>1, <2>2, EmptyFresh DEF ReqFresh, ReqSends, Relies
    <2> QED
      BY <1>2, <2>2, <2>3, <2>4, BeginStep
  <1>4. CASE SaveWebhook(r, t)
    <2> DEFINE x == [NoReq EXCEPT !.pc = "checkWebhook", !.tab = t, !.proxy = F.uses["webhook"]]
    <2>1. F.uses["webhook"] \in ProxyIds \cup {0}
      BY <1>1 DEF Forms, Uses, Channels
    <2>2. x \in Reqs /\ x.pc = "checkWebhook" /\ x.tab = t /\ Blank(x)
      BY <2>1, NoReqType DEF Reqs, PCs, Blank
    <2>3. Submit(r, t, x)
      BY <1>4 DEF SaveWebhook, F
    <2> HIDE DEF x
    <2>4. ReqFresh(x) /\ ReqSends(x, overtaken) /\ ~Relies(x)
      BY <1>1, <2>2, BlankFresh DEF ReqSends, Relies
    <2> QED
      BY <1>2, <2>2, <2>3, <2>4, BeginStep
  <1>5. CASE SaveProxy(r, t)
    <2> DEFINE pc == IF F.edit = 0 THEN "createProxy" ELSE "getProxy"
               x == [NoReq EXCEPT !.pc = pc, !.tab = t, !.id = F.edit, !.url = F.url]
    <2>1. /\ F.edit \in ProxyIds \cup {0} /\ F.url \in UrlCopies
          /\ pc \in {"createProxy", "getProxy"} /\ (pc = "createProxy" <=> F.edit = 0)
          /\ IF F.edit = 0 THEN F.url.val \in Urls \cup {None} ELSE FreshUrl(F.url, F.edit)
      BY <1>1 DEF Forms, FormInv
    <2>2. F.url.val # None /\ Submit(r, t, x)
      BY <1>5 DEF SaveProxy, F
    <2> HIDE DEF pc
    <2>3. /\ x \in Reqs /\ x.pc = pc /\ x.tab = t /\ x.token = Empty /\ x.id = F.edit /\ x.url = F.url
          /\ x.list = [i \in ProxyIds |-> Empty]
      BY <2>1, NoReqType DEF Reqs, PCs
    <2> HIDE DEF x
    <2>4. ReqFresh(x)
      BY <1>1, <2>1, <2>3, EmptyFresh DEF ReqFresh
    <2>5. ReqSends(x, overtaken) /\ ~Relies(x)
      BY <2>1, <2>2, <2>3 DEF ReqSends, Relies
    <2> QED
      BY <1>2, <2>2, <2>3, <2>4, <2>5, BeginStep
  <1>6. CASE PressDelete(r, t)
    <2>1. PICK i \in Listed(t) :
            Submit(r, t, [NoReq EXCEPT !.pc = "deleteProxy", !.tab = t, !.id = i,
                                      !.editing = (F.edit = i)])
      BY <1>6 DEF PressDelete, F
    <2> DEFINE e == (F.edit = i)
               x == [NoReq EXCEPT !.pc = "deleteProxy", !.tab = t, !.id = i, !.editing = e]
    <2>2. i \in ProxyIds /\ e \in BOOLEAN
      BY DEF Listed
    <2>3. Submit(r, t, x)
      BY <2>1
    <2> HIDE DEF e
    <2>4. x \in Reqs /\ x.pc = "deleteProxy" /\ x.tab = t /\ x.id = i /\ Blank(x)
      BY <2>2, NoReqType DEF Reqs, PCs, Blank
    <2> HIDE DEF x
    <2>5. ReqFresh(x) /\ ReqSends(x, overtaken) /\ ~Relies(x)
      BY <1>1, <2>2, <2>4, BlankFresh DEF ReqSends, Relies
    <2> QED
      BY <1>2, <2>3, <2>4, <2>5, BeginStep
  <1>7. CASE Load(r, t)
    <2> DEFINE x == [NoReq EXCEPT !.pc = "load", !.tab = t]
    <2>1. x \in Reqs /\ x.pc = "load" /\ x.tab = t /\ Blank(x)
      BY NoReqType DEF Reqs, PCs, Blank
    <2>2. Begin(r, t, x) /\ sent' \in 0..MaxSent
      BY <1>1, <1>7 DEF Load
    <2> HIDE DEF x
    <2>3. ReqFresh(x) /\ ReqSends(x, overtaken) /\ ~Relies(x)
      BY <1>1, <2>1, BlankFresh DEF ReqSends, Relies
    <2> QED
      BY <2>1, <2>2, <2>3, BeginStep
  <1> QED
    BY <1>3, <1>4, <1>5, <1>6, <1>7


-----------------------------------------------------------------------------
(* Handlers and answers that store nothing *)

\* Request r goes on as x; the forms stay.
LEMMA HandlerStep ==
  ASSUME IInv, NEW r \in Requests, NEW x \in Reqs, req' = [req EXCEPT ![r] = x],
         UNCHANGED <<stored, form, sent, robbed>>,
         overtaken \subseteq overtaken', overtaken' \subseteq ProxyIds \cup {0},
         ReqFresh(x), ReqSends(x, overtaken'),
         Relies(x) => Exists(x.proxy) \/ r \in robbed
  PROVE  IInv'
  <1>1. TypeOK /\ form \in [Tabs -> Forms] /\ \A t \in Tabs : FormInv(form[t])
    BY Parts DEF IInv
  <1>2. /\ form' \in [Tabs -> Forms] /\ \A t \in Tabs : FormInv(form'[t])
        /\ sent' \in 0..MaxSent /\ robbed' \subseteq Requests
    BY <1>1 DEF TypeOK
  <1>3. /\ req' \in [Requests -> Reqs]
        /\ \A q \in Requests : /\ ReqFresh(req'[q]) /\ ReqSends(req'[q], overtaken')
                               /\ Relies(req'[q]) => Exists(req'[q].proxy) \/ q \in robbed'
    BY ReqStep
  <1> QED
    BY <1>2, <1>3, QuietStep

\* What holds of a request under way.
LEMMA ReqParts ==
  ASSUME IInv, NEW r \in Requests
  PROVE  /\ TypeOK /\ req[r] \in Reqs /\ ReqFresh(req[r]) /\ ReqSends(req[r], overtaken)
         /\ Relies(req[r]) => Exists(req[r].proxy) \/ r \in robbed
         /\ req[r].pc # "idle" => req[r].tab \in Tabs
         /\ overtaken \subseteq ProxyIds \cup {0}
  <1>1. TypeOK /\ req \in [Requests -> Reqs]
    BY Parts DEF IInv
  <1> QED
    BY <1>1 DEF IInv, ReqSends, TypeOK

\* The existing proxy is checked.
LEMMA ValidateStep ==
  ASSUME IInv, NEW r \in Requests, validateNotificationProxyID(r)
  PROVE  IInv'
  <1> DEFINE R == req[r]
  <1>1. TypeOK /\ R \in Reqs /\ ReqFresh(R) /\ R.tab \in Tabs /\ overtaken \subseteq ProxyIds \cup {0}
    BY ReqParts DEF validateNotificationProxyID, At
  <1>2. PICK pc \in {"listChannels", "upsertWebhook"} : req' = [req EXCEPT ![r].pc = pc]
    BY DEF validateNotificationProxyID, Goto
  <1> DEFINE x == [R EXCEPT !.pc = pc]
  <1>3. req' = [req EXCEPT ![r] = x]
    BY <1>2
  <1>4. Exists(R.proxy)
    BY DEF validateNotificationProxyID
  <1> HIDE DEF R
  <1>5. /\ x \in Reqs /\ x.pc = pc /\ x.tab = R.tab /\ x.token = R.token /\ x.id = R.id
        /\ x.url = R.url /\ x.list = R.list /\ x.proxy = R.proxy
    BY <1>1 DEF Reqs, PCs
  <1> HIDE DEF x
  <1>6. ReqFresh(x) /\ ReqSends(x, overtaken) /\ Exists(x.proxy)
    BY <1>1, <1>4, <1>5 DEF ReqFresh, ReqSends
  <1>7. UNCHANGED <<stored, form, sent, overtaken, robbed>>
    BY DEF validateNotificationProxyID, history
  <1> QED
    BY <1>1, <1>3, <1>5, <1>6, <1>7, HandlerStep

\* A mask of the token's age stands for the token, so that a mask is written only
\* if the token is one already, or the mask is too old.
LEMMA MergedToken ==
  ASSUME IInv, NEW x \in TokenCopies, FreshToken(x)
  PROVE  /\ mergeBotToken(x.val, botToken) \in Tokens \cup Masks(Tokens) \cup {None}
         /\ mergeBotToken(x.val, botToken) \in Masks(Tokens) => 0 \in overtaken \/ TooOld(x, Tokens, tokenAge)
         /\ x.val \notin Tokens /\ (x.val # None => x.age = tokenAge) =>
              mergeBotToken(x.val, botToken) = botToken
  <1>1. /\ x.val \in Tokens \cup Masks(Tokens) \cup {None}
        /\ botToken \in Tokens \cup Masks(Tokens) \cup {None}
        /\ botToken \in Masks(Tokens) => 0 \in overtaken
    BY Values DEF IInv, TypeOK, SecretsAreReal, TokenCopies, Copies
  <1>2. x.val \in Masks(Tokens) /\ x.age = tokenAge => botToken # None /\ masked(Tokens, botToken) = x.val
    BY DEF FreshToken, Fresh
  <1> QED
    BY <1>1, <1>2, Values DEF mergeBotToken, TooOld

LEMMA BuildStep ==
  ASSUME IInv, NEW r \in Requests, buildTelegramChannelConfig(r)
  PROVE  IInv'
  <1> DEFINE R == req[r]
             c == R.token
             s == mergeBotToken(c.val, botToken)
             d == IF c.val = None THEN Copy(None, tokenAge) ELSE c
             x == [R EXCEPT !.pc = "upsertTelegram", !.send = s, !.token = d]
  <1>1. /\ TypeOK /\ R \in Reqs /\ ReqFresh(R) /\ R.tab \in Tabs /\ overtaken \subseteq ProxyIds \cup {0}
        /\ Exists(R.proxy) \/ r \in robbed
    BY ReqParts DEF buildTelegramChannelConfig, At, Relies
  <1>2. req' = [req EXCEPT ![r] = x]
    BY DEF buildTelegramChannelConfig
  <1>3. /\ overtaken' = IF TooOld(c, Tokens, tokenAge) THEN overtaken \cup {0} ELSE overtaken
        /\ UNCHANGED <<stored, form, sent, robbed>>
    BY DEF buildTelegramChannelConfig
  <1> HIDE DEF R
  <1>4. c \in TokenCopies /\ FreshToken(c)
    BY <1>1 DEF Reqs, ReqFresh
  <1> HIDE DEF c
  <1>5. /\ s \in Tokens \cup Masks(Tokens) \cup {None}
        /\ s \in Masks(Tokens) => 0 \in overtaken'
        /\ c.val \notin Tokens /\ (c.val # None => c.age = tokenAge) => s = botToken
    BY <1>3, <1>4, MergedToken
  <1>6. /\ d \in TokenCopies /\ FreshToken(d)
        /\ d.val = c.val /\ d.age = IF c.val = None THEN tokenAge ELSE c.age
    <2>1. CASE c.val = None
      <3>1. d = [val |-> None, age |-> tokenAge] /\ tokenAge \in Nat
        BY <1>1, <2>1 DEF TypeOK, Copy
      <3> QED
        BY <2>1, <3>1, Values DEF TokenCopies, Copies, FreshToken, Fresh
    <2>2. CASE c.val # None
      BY <1>4, <2>2
    <2> QED
      BY <2>1, <2>2
  <1> HIDE DEF s, d
  <1>7. /\ x \in Reqs /\ x.pc = "upsertTelegram" /\ x.tab = R.tab /\ x.token = d /\ x.id = R.id
        /\ x.url = R.url /\ x.list = R.list /\ x.proxy = R.proxy /\ x.send = s
    BY <1>1, <1>5, <1>6 DEF Reqs, PCs
  <1> HIDE DEF x
  <1>8. overtaken \subseteq overtaken' /\ overtaken' \subseteq ProxyIds \cup {0}
    BY <1>1, <1>3
  <1>9. ReqFresh(x) /\ ReqSends(x, overtaken')
    BY <1>1, <1>5, <1>6, <1>7 DEF ReqFresh, ReqSends
  <1> QED
    BY <1>1, <1>2, <1>3, <1>7, <1>8, <1>9, HandlerStep

LEMMA MergedUrl ==
  ASSUME IInv, NEW i \in ProxyIds, urls[i] # None,
         NEW x \in UrlCopies, x.val # None, FreshUrl(x, i)
  PROVE  /\ mergeProxyURL(x.val, urls[i]) \in Urls \cup Masks(Urls)
         /\ mergeProxyURL(x.val, urls[i]) \in Masks(Urls) => i \in overtaken \/ TooOld(x, Urls, urlAge[i])
  <1>1. /\ x.val \in Urls \cup Masks(Urls) /\ urls[i] \in Urls \cup Masks(Urls)
        /\ urls[i] \in Masks(Urls) => i \in overtaken
    BY Values DEF IInv, TypeOK, SecretsAreReal, UrlCopies, Copies
  <1>2. x.val \in Masks(Urls) /\ x.age = urlAge[i] => masked(Urls, urls[i]) = x.val
    BY DEF FreshUrl, Fresh
  <1> QED
    BY <1>1, <1>2, Values DEF mergeProxyURL, TooOld

LEMMA GetStep ==
  ASSUME IInv, NEW r \in Requests, GetProxy(r)
  PROVE  IInv'
  <1> DEFINE R == req[r]
             i == R.id
             c == R.url
             s == mergeProxyURL(c.val, urls[i])
             x == [R EXCEPT !.pc = "updateProxy", !.send = s]
  <1>1. /\ TypeOK /\ R \in Reqs /\ ReqFresh(R) /\ R.tab \in Tabs /\ overtaken \subseteq ProxyIds \cup {0}
        /\ R.id \in ProxyIds /\ R.url.val # None /\ urls[i] # None
    BY ReqParts DEF GetProxy, At, ReqSends
  <1>2. req' = [req EXCEPT ![r] = x]
    BY DEF GetProxy
  <1>3. /\ overtaken' = IF TooOld(c, Urls, urlAge[i]) THEN overtaken \cup {i} ELSE overtaken
        /\ UNCHANGED <<stored, form, sent, robbed>>
    BY DEF GetProxy
  <1> HIDE DEF R
  <1>4. i \in ProxyIds /\ i # 0 /\ c \in UrlCopies /\ c.val # None /\ FreshUrl(c, i)
    BY <1>1, SettingsAssumption DEF Reqs, ReqFresh
  <1>5. s \in Urls \cup Masks(Urls) /\ (s \in Masks(Urls) => i \in overtaken')
    BY <1>1, <1>3, <1>4, MergedUrl
  <1> HIDE DEF s
  <1>6. /\ x \in Reqs /\ x.pc = "updateProxy" /\ x.tab = R.tab /\ x.token = R.token /\ x.id = i
        /\ x.url = R.url /\ x.list = R.list /\ x.proxy = R.proxy /\ x.send = s
    BY <1>1, <1>5 DEF Reqs, PCs
  <1> HIDE DEF x
  <1>7. overtaken \subseteq overtaken' /\ overtaken' \subseteq ProxyIds \cup {0}
    BY <1>1, <1>3
  <1>8. ReqFresh(x) /\ ReqSends(x, overtaken') /\ ~Relies(x)
    BY <1>1, <1>4, <1>5, <1>6 DEF ReqFresh, ReqSends, Relies
  <1> QED
    BY <1>1, <1>2, <1>3, <1>6, <1>7, <1>8, HandlerStep

\* A load has fetched the channels, or the proxies.
LEMMA FetchStep ==
  ASSUME IInv, NEW r \in Requests, GetChannels(r) \/ GetProxies(r)
  PROVE  IInv'
  <1> DEFINE R == req[r]
  <1>1. TypeOK /\ R \in Reqs /\ ReqFresh(R) /\ R.tab \in Tabs /\ overtaken \subseteq ProxyIds \cup {0}
    BY ReqParts DEF GetChannels, GetProxies
  <1>2. UNCHANGED <<stored, form, sent, overtaken, robbed>>
    BY DEF GetChannels, GetProxies, history
  <1> HIDE DEF R
  <1>3. CASE GetChannels(r)
    <2> DEFINE pc == IF R.pc = "load" THEN "loadProxies" ELSE "show"
               c == Shown(Tokens, botToken, tokenAge)
               x == [R EXCEPT !.pc = pc, !.token = c, !.uses = uses]
    <2>1. req' = [req EXCEPT ![r] = x]
      BY <1>3 DEF GetChannels, R
    <2>2. c \in TokenCopies /\ FreshToken(c) /\ uses \in Uses
      BY <1>1, ShownFresh DEF TypeOK
    <2>3. pc \in {"loadProxies", "show"}
      OBVIOUS
    <2> HIDE DEF pc, c
    <2>4. /\ x \in Reqs /\ x.pc = pc /\ x.tab = R.tab /\ x.token = c /\ x.id = R.id
          /\ x.url = R.url /\ x.list = R.list
      BY <1>1, <2>2, <2>3 DEF Reqs, PCs
    <2> HIDE DEF x
    <2>5. ReqFresh(x) /\ ReqSends(x, overtaken') /\ ~Relies(x)
      BY <1>1, <2>2, <2>3, <2>4 DEF ReqFresh, ReqSends, Relies
    <2> QED
      BY <1>1, <1>2, <2>1, <2>4, <2>5, HandlerStep
  <1>4. CASE GetProxies(r)
    <2> DEFINE pc == IF R.pc = "load" THEN "loadChannels" ELSE "show"
               l == [i \in ProxyIds |-> Shown(Urls, urls[i], urlAge[i])]
               x == [R EXCEPT !.pc = pc, !.list = l]
    <2>1. req' = [req EXCEPT ![r] = x]
      BY <1>4 DEF GetProxies, R
    <2>2. l \in [ProxyIds -> UrlCopies] /\ \A i \in ProxyIds : FreshUrl(l[i], i)
      BY <1>1, ShownFresh
    <2>3. pc \in {"loadChannels", "show"}
      OBVIOUS
    <2> HIDE DEF pc, l
    <2>4. /\ x \in Reqs /\ x.pc = pc /\ x.tab = R.tab /\ x.token = R.token /\ x.id = R.id
          /\ x.url = R.url /\ x.list = l
      BY <1>1, <2>2, <2>3 DEF Reqs, PCs
    <2> HIDE DEF x
    <2>5. ReqFresh(x) /\ ReqSends(x, overtaken') /\ ~Relies(x)
      BY <1>1, <2>2, <2>3, <2>4 DEF ReqFresh, ReqSends, Relies
    <2> QED
      BY <1>1, <1>2, <2>1, <2>4, <2>5, HandlerStep
  <1> QED
    BY <1>3, <1>4

\* What is left of a request whose handler has answered.
LEMMA ReplyFields ==
  ASSUME IInv, NEW r \in Requests, req[r].pc # "idle",
         NEW pc \in {"telegramSaved", "webhookSaved", "proxySaved", "load"}, Reply(r, pc)
  PROVE  \E x \in Reqs : /\ req' = [req EXCEPT ![r] = x] /\ Blank(x) /\ x.pc = pc
                         /\ x.tab = req[r].tab /\ x.tab \in Tabs
  <1> DEFINE t == req[r].tab
             x == [NoReq EXCEPT !.pc = pc, !.tab = t]
  <1>1. t \in Tabs
    BY ReqParts
  <1>2. req' = [req EXCEPT ![r] = x]
    BY DEF Reply
  <1> HIDE DEF t
  <1>3. x \in Reqs /\ Blank(x) /\ x.pc = pc /\ x.tab = t
    BY <1>1, NoReqType DEF Reqs, PCs, Blank
  <1> QED
    BY <1>1, <1>2, <1>3 DEF t

\* A request goes on with nothing in it, or ends, and its form changes.
LEMMA BlankStep ==
  ASSUME IInv, NEW r \in Requests, NEW t \in Tabs, NEW f \in Forms, FormInv(f),
         form' = [form EXCEPT ![t] = f],
         NEW x \in Reqs, req' = [req EXCEPT ![r] = x], Blank(x), x.pc \in {"idle", "load"},
         x.pc # "idle" => x.tab \in Tabs,
         UNCHANGED <<stored, sent, overtaken>>, robbed' \in {robbed, robbed \ {r}}
  PROVE  IInv'
  <1>1. TypeOK /\ form' \in [Tabs -> Forms] /\ \A s \in Tabs : FormInv(form'[s])
    BY FormStep DEF IInv
  <1>2. ReqFresh(x) /\ ReqSends(x, overtaken') /\ ~Relies(x)
    BY <1>1, BlankFresh DEF ReqSends, Relies
  <1>3. /\ req' \in [Requests -> Reqs]
        /\ \A q \in Requests : /\ ReqFresh(req'[q]) /\ ReqSends(req'[q], overtaken')
                               /\ Relies(req'[q]) => Exists(req'[q].proxy) \/ q \in robbed'
    BY <1>2, ReqStep
  <1>4. sent' \in 0..MaxSent /\ robbed' \subseteq Requests /\ overtaken' \subseteq ProxyIds \cup {0}
    BY <1>1 DEF TypeOK
  <1> QED
    BY <1>1, <1>3, <1>4, QuietStep

LEMMA AnswerStep ==
  ASSUME IInv, NEW r \in Requests, Answer(r)
  PROVE  IInv'
  <1> DEFINE t == req[r].tab
             F == form[t]
             closes == At(r, "proxySaved") \/ (At(r, "proxyDeleted") /\ req[r].editing)
             a == IF At(r, "telegramSaved") THEN Empty ELSE F.token
             e == IF closes THEN 0 ELSE F.edit
             u == IF closes THEN Empty ELSE F.url
             f == [F EXCEPT !.token = a, !.edit = e, !.url = u]
  <1>1. req[r].pc # "idle" /\ t \in Tabs /\ Reply(r, "load")
    BY ReqParts DEF Answer
  <1>2. TypeOK /\ FormInv(F) /\ F \in Forms
    BY <1>1, Parts DEF IInv
  <1>3. form' = [form EXCEPT ![t] = f]
    BY DEF Answer
  <1>4. PICK x \in Reqs : /\ req' = [req EXCEPT ![r] = x] /\ Blank(x) /\ x.pc = "load" /\ x.tab \in Tabs
    BY <1>1, ReplyFields
  <1>5. UNCHANGED <<stored, sent, overtaken, robbed>>
    BY DEF Answer, history
  <1> HIDE DEF F, t
  <1>6. /\ a \in TokenCopies /\ FreshToken(a) /\ e \in ProxyIds \cup {0} /\ u \in UrlCopies
        /\ IF e = 0 THEN u.val \in Urls \cup {None} ELSE FreshUrl(u, e)
    BY <1>2, EmptyType, EmptyFresh DEF Forms, FormInv
  <1> HIDE DEF a, e, u, closes
  <1>7. f \in Forms /\ FormInv(f)
    BY <1>2, <1>6 DEF Forms, FormInv
  <1> HIDE DEF f
  <1> QED
    BY <1>1, <1>3, <1>4, <1>5, <1>7, BlankStep

LEMMA ShowStep ==
  ASSUME IInv, NEW r \in Requests, Show(r)
  PROVE  IInv'
  <1> DEFINE R == req[r]
             t == R.tab
             F == form[t]
             shown(i) == IF i # 0 /\ R.list[i].val # None THEN i ELSE 0
             w == [c \in Channels |-> shown(R.uses[c])]
             f == [F EXCEPT !.token = R.token, !.list = R.list, !.uses = w, !.busy = FALSE]
  <1>1. R \in Reqs /\ ReqFresh(R) /\ t \in Tabs
    BY ReqParts DEF Show, At
  <1>2. FormInv(F) /\ F \in Forms
    BY <1>1, Parts DEF IInv
  <1>3. form' = [form EXCEPT ![t] = f] /\ req' = [req EXCEPT ![r] = NoReq]
    BY DEF Show, End
  <1>4. UNCHANGED <<stored, sent, overtaken, robbed>>
    BY DEF Show, history
  <1> HIDE DEF R
  <1>5. w \in Uses
    BY <1>1 DEF Reqs, Uses
  <1> HIDE DEF t, F, w
  <1>6. f \in Forms /\ FormInv(f)
    BY <1>1, <1>2, <1>5 DEF Forms, FormInv, Reqs, ReqFresh
  <1> HIDE DEF f
  <1>7. NoReq \in Reqs /\ Blank(NoReq) /\ NoReq.pc = "idle"
    BY NoReqType DEF Blank
  <1> QED
    BY <1>1, <1>3, <1>4, <1>6, <1>7, BlankStep

LEMMA FailStep ==
  ASSUME IInv, NEW r \in Requests, Fail(r)
  PROVE  IInv'
  <1> DEFINE t == req[r].tab
             F == form[t]
             f == [F EXCEPT !.busy = FALSE]
  <1>1. t \in Tabs
    BY ReqParts DEF Fail, At
  <1>2. FormInv(F) /\ F \in Forms
    BY <1>1, Parts DEF IInv
  <1>3. form' = [form EXCEPT ![t] = f] /\ req' = [req EXCEPT ![r] = NoReq]
    BY DEF Fail, End
  <1>4. UNCHANGED <<stored, sent, overtaken>> /\ robbed' = robbed \ {r}
    BY DEF Fail
  <1> HIDE DEF F, t
  <1>5. f \in Forms /\ FormInv(f)
    BY <1>2 DEF Forms, FormInv
  <1> HIDE DEF f
  <1>6. NoReq \in Reqs /\ Blank(NoReq) /\ NoReq.pc = "idle"
    BY NoReqType DEF Blank
  <1> QED
    BY <1>1, <1>3, <1>4, <1>5, <1>6, BlankStep


-----------------------------------------------------------------------------
(* Statements that store something *)

\* Rows only get older, and a row that does not has not changed.
Older ==
  /\ tokenAge <= tokenAge' /\ (tokenAge' = tokenAge => botToken' = botToken)
  /\ \A i \in ProxyIds : urlAge[i] <= urlAge'[i] /\ (urlAge'[i] = urlAge[i] => urls'[i] = urls[i])

StoredTypes ==
  /\ botToken \in Tokens \cup Masks(Tokens) \cup {None} /\ uses \in Uses
  /\ urls \in [ProxyIds -> Urls \cup Masks(Urls) \cup {None}] /\ used \subseteq ProxyIds
  /\ tokenAge \in Nat /\ urlAge \in [ProxyIds -> Nat]

\* Copies that were fresh are fresh.
LEMMA StillFresh ==
  ASSUME TypeOK, StoredTypes', Older
  PROVE  /\ \A c \in TokenCopies : Fresh(c, Tokens, botToken, tokenAge) =>
                                     Fresh(c, Tokens, botToken', tokenAge')
         /\ \A c \in UrlCopies, i \in ProxyIds :
              Fresh(c, Urls, urls[i], urlAge[i]) => Fresh(c, Urls, urls'[i], urlAge'[i])
  <1>1. ASSUME NEW c \in TokenCopies, Fresh(c, Tokens, botToken, tokenAge)
        PROVE  Fresh(c, Tokens, botToken', tokenAge')
    <2>1. c.age \in Nat /\ tokenAge \in Nat /\ tokenAge' \in Nat
      BY DEF TypeOK, StoredTypes, TokenCopies, Copies
    <2>2. c.age <= tokenAge' /\ (c.age = tokenAge' => tokenAge' = tokenAge /\ botToken' = botToken)
      BY <1>1, <2>1 DEF Older, Fresh
    <2> QED
      BY <1>1, <2>1, <2>2 DEF Fresh
  <1>2. ASSUME NEW c \in UrlCopies, NEW i \in ProxyIds, Fresh(c, Urls, urls[i], urlAge[i])
        PROVE  Fresh(c, Urls, urls'[i], urlAge'[i])
    <2>1. c.age \in Nat /\ urlAge[i] \in Nat /\ urlAge'[i] \in Nat
      BY DEF TypeOK, StoredTypes, UrlCopies, Copies
    <2>2. c.age <= urlAge'[i] /\ (c.age = urlAge'[i] => urlAge'[i] = urlAge[i] /\ urls'[i] = urls[i])
      BY <1>2, <2>1 DEF Older, Fresh
    <2> QED
      BY <1>2, <2>1, <2>2 DEF Fresh
  <1> QED
    BY <1>1, <1>2

\* Request r has stored something and goes on as x.
LEMMA StoreStep ==
  ASSUME IInv, StoredTypes', Older, SecretsAreReal', UNCHANGED <<form, sent, overtaken>>,
         NEW r \in Requests, NEW x \in Reqs, req' = [req EXCEPT ![r] = x], ReqFresh(x),
         x.tab \in Tabs, x.pc \in {"telegramSaved", "webhookSaved", "proxySaved", "proxyDeleted"},
         robbed' \subseteq Requests,
         \A q \in Requests \ {r} :
           Relies(req[q]) => Exists(req[q].proxy)' \/ q \in robbed'
  PROVE  IInv'
  <1>1. /\ TypeOK /\ form \in [Tabs -> Forms] /\ req \in [Requests -> Reqs]
        /\ \A t \in Tabs : FormInv(form[t])
        /\ \A q \in Requests : ReqFresh(req[q]) /\ ReqSends(req[q], overtaken)
    BY Parts DEF IInv
  <1>2. req'[r] = x /\ \A q \in Requests \ {r} : req'[q] = req[q]
    BY <1>1
  <1>3. ASSUME NEW q \in Requests
        PROVE  ReqSends(req[q], overtaken)'
    <2>1. CASE q = r
      BY <1>2, <2>1 DEF ReqSends
    <2>2. CASE q # r
      <3>1. req[q].token.age \in Nat /\ tokenAge \in Nat /\ tokenAge' \in Nat
            /\ req[q].token.age <= tokenAge
        BY <1>1 DEF TypeOK, StoredTypes, Reqs, TokenCopies, Copies, ReqFresh, FreshToken, Fresh
      <3>2. req[q].token.age = tokenAge' => tokenAge' = tokenAge /\ botToken' = botToken
        BY <3>1 DEF Older
      <3>3. req'[q] = req[q] /\ overtaken' = overtaken
        BY <1>2, <2>2
      <3> QED
        BY <1>1, <3>2, <3>3 DEF ReqSends
    <2> QED
      BY <2>1, <2>2
  <1>4. TypeOK'
    <2>1. req' \in [Requests -> Reqs]
      BY <1>1
    <2>2. sent' \in 0..MaxSent /\ overtaken' \subseteq ProxyIds \cup {0} /\ form' \in [Tabs -> Forms]
      BY <1>1 DEF TypeOK
    <2>3. \A q \in Requests :
            /\ req'[q].pc # "idle" => req'[q].tab \in Tabs
            /\ req'[q].pc \in {"getProxy", "updateProxy", "deleteProxy"} => req'[q].id \in ProxyIds
      BY <1>3 DEF ReqSends
    <2> QED
      BY <2>1, <2>2, <2>3 DEF TypeOK, StoredTypes, Forms, Reqs
  <1>5. ASSUME NEW t \in Tabs
        PROVE  FormInv(form[t])'
    <2> DEFINE F == form[t]
    <2>1. F \in Forms /\ FormInv(F) /\ form'[t] = F
      BY <1>1
    <2> HIDE DEF F
    <2>2. /\ F.token \in TokenCopies /\ F.list \in [ProxyIds -> UrlCopies] /\ F.url \in UrlCopies
          /\ F.edit \in ProxyIds \cup {0}
      BY <2>1 DEF Forms
    <2>3. /\ Fresh(F.token, Tokens, botToken', tokenAge')
          /\ \A i \in ProxyIds : Fresh(F.list[i], Urls, urls'[i], urlAge'[i])
          /\ F.edit # 0 => Fresh(F.url, Urls, urls'[F.edit], urlAge'[F.edit])
          /\ F.edit = 0 => F.url.val \in Urls \cup {None}
      BY <1>1, <2>1, <2>2, StillFresh DEF FormInv, FreshToken, FreshUrl
    <2> QED
      BY <2>1, <2>3 DEF FormInv, FreshToken, FreshUrl
  <1>6. ASSUME NEW q \in Requests
        PROVE  ReqFresh(req[q])'
    <2>1. PICK R \in Reqs : req'[q] = R /\ ReqFresh(R)
      BY <1>1, <1>2
    <2>2. R.token \in TokenCopies /\ R.list \in [ProxyIds -> UrlCopies] /\ R.url \in UrlCopies
          /\ R.id \in ProxyIds \cup {0}
      BY DEF Reqs
    <2>3. /\ Fresh(R.token, Tokens, botToken', tokenAge')
          /\ \A i \in ProxyIds : Fresh(R.list[i], Urls, urls'[i], urlAge'[i])
          /\ R.id # 0 => Fresh(R.url, Urls, urls'[R.id], urlAge'[R.id])
      BY <1>1, <2>1, <2>2, StillFresh DEF ReqFresh, FreshToken, FreshUrl
    <2> QED
      BY <2>1, <2>3 DEF ReqFresh, FreshToken, FreshUrl
  <1>7. ASSUME NEW q \in Requests
        PROVE  (Relies(req[q]) => Exists(req[q].proxy) \/ q \in robbed)'
    <2>1. CASE q = r
      BY <1>2, <2>1 DEF Relies
    <2>2. CASE q # r
      BY <1>2, <2>2 DEF Relies, Exists
    <2> QED
      BY <2>1, <2>2
  <1> QED
    BY <1>3, <1>4, <1>5, <1>6, <1>7 DEF IInv

\* The proxies are left alone.
LEMMA UpsertStep ==
  ASSUME IInv, NEW r \in Requests, UpsertTelegram(r) \/ UpsertWebhook(r)
  PROVE  IInv'
  <1>1. /\ TypeOK /\ SecretsAreReal /\ req[r] \in Reqs /\ ReqSends(req[r], overtaken)
        /\ req[r].pc \in {"upsertTelegram", "upsertWebhook"}
    BY ReqParts DEF UpsertTelegram, UpsertWebhook, At, IInv
  <1>2. PICK pc \in {"telegramSaved", "webhookSaved"} : Reply(r, pc)
    BY DEF UpsertTelegram, UpsertWebhook
  <1>3. PICK x \in Reqs : req' = [req EXCEPT ![r] = x] /\ Blank(x) /\ x.pc = pc /\ x.tab \in Tabs
    BY <1>1, <1>2, ReplyFields
  <1>4. ReqFresh(x)
    BY <1>1, <1>3, BlankFresh
  <1>5. /\ UNCHANGED <<urls, used, urlAge, form, sent, overtaken>> /\ robbed' = robbed \ {r}
        /\ \E c \in Channels : uses' = [uses EXCEPT ![c] = req[r].proxy]
    BY DEF UpsertTelegram, UpsertWebhook, Channels
  <1>6. uses' \in Uses
    BY <1>1, <1>5 DEF TypeOK, Uses, Reqs
  <1>7. /\ botToken' \in Tokens \cup Masks(Tokens) \cup {None}
        /\ botToken' \in Tokens \cup {None} \/ 0 \in overtaken
        /\ tokenAge' = IF botToken' = botToken THEN tokenAge ELSE tokenAge + 1
    <2>1. CASE UpsertTelegram(r)
      BY <1>1, <2>1 DEF UpsertTelegram, ReqSends, At
    <2>2. CASE UpsertWebhook(r)
      BY <1>1, <2>2 DEF UpsertWebhook, SecretsAreReal, TypeOK
    <2> QED
      BY <2>1, <2>2
  <1>8. StoredTypes' /\ Older /\ SecretsAreReal'
    BY <1>1, <1>5, <1>6, <1>7 DEF TypeOK, StoredTypes, Older, SecretsAreReal
  <1>9. robbed' \subseteq Requests
    BY <1>1, <1>5 DEF TypeOK
  <1>10. ASSUME NEW q \in Requests \ {r}, Relies(req[q])
         PROVE  Exists(req[q].proxy)' \/ q \in robbed'
    <2>1. PICK j : j = req[q].proxy
      OBVIOUS
    <2>2. req'[q] = req[q]
      BY <1>1, <1>3, Parts
    <2>3. Exists(j) \/ q \in robbed
      BY <1>10, <2>1 DEF IInv
    <2> QED
      BY <1>5, <2>1, <2>2, <2>3 DEF Exists
  <1> QED
    BY <1>3, <1>4, <1>5, <1>8, <1>9, <1>10, StoreStep

\* A row of the table of proxies is written.
LEMMA WriteRow ==
  ASSUME IInv, NEW i \in ProxyIds, NEW u \in Urls \cup Masks(Urls) \cup {None}, Write(i, u),
         u \in Masks(Urls) => i \in overtaken, used' \subseteq ProxyIds
  PROVE  /\ StoredTypes' /\ Older /\ SecretsAreReal' /\ UNCHANGED <<form, sent, overtaken>>
         /\ urls'[i] = u /\ \A j \in ProxyIds \ {i} : urls'[j] = urls[j]
  <1>1. TypeOK /\ SecretsAreReal
    BY DEF IInv
  <1>2. /\ urls' = [urls EXCEPT ![i] = u]
        /\ urlAge' = IF urls[i] = u THEN urlAge ELSE [urlAge EXCEPT ![i] = @ + 1]
        /\ UNCHANGED <<botToken, tokenAge, uses, form, sent, overtaken>>
    BY DEF Write
  <1>3. urls \in [ProxyIds -> Urls \cup Masks(Urls) \cup {None}] /\ urlAge \in [ProxyIds -> Nat]
        /\ tokenAge \in Nat
    BY <1>1 DEF TypeOK
  <1>4. urls'[i] = u /\ \A j \in ProxyIds \ {i} : urls'[j] = urls[j]
    BY <1>2, <1>3
  <1>5. urlAge' \in [ProxyIds -> Nat] /\ StoredTypes'
    BY <1>1, <1>2, <1>3 DEF TypeOK, StoredTypes
  <1>6. Older
    BY <1>2, <1>3, <1>4 DEF Older
  <1>7. SecretsAreReal'
    BY <1>1, <1>2, <1>4 DEF SecretsAreReal
  <1> QED
    BY <1>2, <1>4, <1>5, <1>6, <1>7

LEMMA SaveProxyStep ==
  ASSUME IInv, NEW r \in Requests, CreateProxy(r) \/ UpdateProxy(r)
  PROVE  IInv'
  <1>1. /\ TypeOK /\ req[r] \in Reqs /\ ReqSends(req[r], overtaken) /\ Reply(r, "proxySaved")
        /\ req[r].pc \in {"createProxy", "updateProxy"} /\ UNCHANGED robbed
    BY ReqParts DEF CreateProxy, UpdateProxy, At
  <1>2. PICK x \in Reqs : req' = [req EXCEPT ![r] = x] /\ Blank(x) /\ x.pc = "proxySaved" /\ x.tab \in Tabs
    BY <1>1, ReplyFields
  <1>3. ReqFresh(x)
    BY <1>1, <1>2, BlankFresh
  <1>4. PICK i \in ProxyIds, u \in Urls \cup Masks(Urls) :
          Write(i, u) /\ (u \in Masks(Urls) => i \in overtaken) /\ used' \subseteq ProxyIds
    <2>1. CASE CreateProxy(r)
      <3>1. PICK i \in ProxyIds \ used : Write(i, req[r].url.val) /\ used' = used \cup {i}
        BY <2>1 DEF CreateProxy
      <3>2. req[r].url.val \in Urls /\ used \subseteq ProxyIds
        BY <1>1, <2>1 DEF ReqSends, CreateProxy, At, TypeOK
      <3> QED
        BY <3>1, <3>2, Values
    <2>2. CASE UpdateProxy(r)
      <3>1. Write(req[r].id, req[r].send) /\ used' = used /\ req[r].pc = "updateProxy"
        BY <2>2 DEF UpdateProxy, At
      <3>2. /\ req[r].id \in ProxyIds /\ used \subseteq ProxyIds /\ req[r].send \in Urls \cup Masks(Urls)
            /\ req[r].send \in Masks(Urls) => req[r].id \in overtaken
        BY <1>1, <3>1, Values DEF ReqSends, TypeOK
      <3> QED
        BY <3>1, <3>2
    <2> QED
      BY <2>1, <2>2
  <1>5. /\ StoredTypes' /\ Older /\ SecretsAreReal' /\ UNCHANGED <<form, sent, overtaken>>
        /\ urls'[i] = u /\ \A j \in ProxyIds \ {i} : urls'[j] = urls[j]
    BY <1>4, WriteRow
  <1>6. u # None /\ robbed' \subseteq Requests
    BY <1>1, Values DEF TypeOK
  <1>7. ASSUME NEW q \in Requests \ {r}, Relies(req[q])
        PROVE  Exists(req[q].proxy)' \/ q \in robbed'
    <2>1. PICK j : j = req[q].proxy /\ j \in ProxyIds \cup {0}
      BY <1>1, Parts DEF Reqs
    <2>2. req'[q] = req[q]
      BY <1>1, <1>2, Parts
    <2>3. Exists(j) \/ q \in robbed
      BY <1>7, <2>1 DEF IInv
    <2>4. j \in ProxyIds /\ urls[j] # None => urls'[j] # None
      BY <1>5, <1>6
    <2> QED
      BY <1>1, <2>1, <2>2, <2>3, <2>4 DEF Exists
  <1> QED
    BY <1>2, <1>3, <1>5, <1>6, <1>7, StoreStep

LEMMA RemoveStep ==
  ASSUME IInv, NEW r \in Requests, RemoveProxy(r)
  PROVE  IInv'
  <1> DEFINE R == req[r]
             i == R.id
             x == [R EXCEPT !.pc = "proxyDeleted"]
  <1>1. TypeOK /\ R \in Reqs /\ ReqFresh(R) /\ R.tab \in Tabs /\ i \in ProxyIds
    BY ReqParts DEF RemoveProxy, At, ReqSends
  <1>2. /\ Write(i, None) /\ used' = used /\ req' = [req EXCEPT ![r] = x]
        /\ robbed' = robbed \cup { q \in Requests : Relying(q) /\ req[q].proxy = i }
    BY DEF RemoveProxy
  <1>3. /\ StoredTypes' /\ Older /\ SecretsAreReal' /\ UNCHANGED <<form, sent, overtaken>>
        /\ \A j \in ProxyIds \ {i} : urls'[j] = urls[j]
    BY <1>1, <1>2, WriteRow, Values DEF TypeOK
  <1>4. robbed' \subseteq Requests
    BY <1>1, <1>2 DEF TypeOK
  <1>5. ASSUME NEW q \in Requests \ {r}, Relies(req[q])
        PROVE  Exists(req[q].proxy)' \/ q \in robbed'
    <2>1. PICK j : j = req[q].proxy /\ j \in ProxyIds \cup {0}
      BY <1>1, Parts DEF Reqs
    <2>2. req'[q] = req[q]
      BY <1>1, <1>2, Parts
    <2>3. Exists(j) \/ q \in robbed
      BY <1>5, <2>1 DEF IInv
    <2>4. j = i => q \in robbed'
      BY <1>2, <1>5, <2>1 DEF Relies, Relying
    <2>5. j \in ProxyIds /\ j # i => urls'[j] = urls[j]
      BY <1>3
    <2>6. q \in robbed => q \in robbed'
      BY <1>2
    <2> QED
      BY <2>1, <2>2, <2>3, <2>4, <2>5, <2>6 DEF Exists
  <1> HIDE DEF R
  <1>6. /\ x \in Reqs /\ x.pc = "proxyDeleted" /\ x.tab = R.tab /\ x.token = R.token /\ x.id = R.id
        /\ x.url = R.url /\ x.list = R.list
    BY <1>1 DEF Reqs, PCs
  <1> HIDE DEF x
  <1>7. ReqFresh(x)
    BY <1>1, <1>6 DEF ReqFresh
  <1> QED
    BY <1>1, <1>2, <1>3, <1>4, <1>5, <1>6, <1>7, StoreStep

-----------------------------------------------------------------------------
(* The theorems *)

LEMMA InitInv == ASSUME Init PROVE IInv
  <1>1. Channels = {"telegram", "webhook"} /\ [c \in Channels |-> 0] \in Uses
        /\ [i \in ProxyIds |-> Empty] \in [ProxyIds -> UrlCopies]
    BY EmptyType DEF Channels, Uses
  <1>2. /\ EmptyForm \in Forms /\ EmptyForm.token = Empty /\ EmptyForm.edit = 0 /\ EmptyForm.url = Empty
        /\ EmptyForm.list = [i \in ProxyIds |-> Empty]
    BY <1>1, EmptyType DEF EmptyForm, Forms
  <1>3. /\ form \in [Tabs -> Forms] /\ \A t \in Tabs : form[t] = EmptyForm
        /\ req \in [Requests -> Reqs] /\ \A r \in Requests : req[r] = NoReq
    BY <1>2, NoReqType DEF Init
  <1>4. /\ botToken = None /\ uses \in Uses /\ urls = [i \in ProxyIds |-> None] /\ used = {}
        /\ tokenAge = 0 /\ urlAge = [i \in ProxyIds |-> 0]
        /\ sent \in 0..MaxSent /\ overtaken = {} /\ robbed = {}
    BY <1>1, SettingsAssumption DEF Init
  <1>5. TypeOK
    BY <1>3, <1>4, NoReqType DEF TypeOK, Forms, Reqs
  <1>6. SecretsAreReal
    BY <1>4 DEF SecretsAreReal
  <1>7. \A t \in Tabs : FormInv(form[t])
    BY <1>2, <1>3, <1>5, EmptyFresh, EmptyType DEF FormInv
  <1>8. \A r \in Requests : ReqFresh(req[r]) /\ ReqSends(req[r], overtaken) /\ ~Relies(req[r])
    BY <1>3, <1>5, NoReqType, BlankFresh DEF Blank, ReqSends, Relies
  <1> QED
    BY <1>5, <1>6, <1>7, <1>8 DEF IInv

LEMMA NextInv == ASSUME IInv, [Next]_vars PROVE IInv'
  <1>1. CASE \E t \in Tabs : User(t)
    BY <1>1, TypingStep, Buttons DEF User
  <1>2. CASE \E r \in Requests : Proceed(r)
    BY <1>2, ValidateStep, BuildStep, UpsertStep, SaveProxyStep, GetStep, RemoveStep, AnswerStep,
       FetchStep, ShowStep, FailStep DEF Proceed
  <1>3. CASE UNCHANGED vars
    <2>1. UNCHANGED <<stored, form, req, sent, overtaken, robbed>>
      BY <1>3 DEF vars, history
    <2>2. /\ TypeOK /\ form \in [Tabs -> Forms] /\ req \in [Requests -> Reqs]
          /\ \A t \in Tabs : FormInv(form[t])
          /\ \A r \in Requests : /\ ReqFresh(req[r]) /\ ReqSends(req[r], overtaken)
                                 /\ Relies(req[r]) => Exists(req[r].proxy) \/ r \in robbed
      BY Parts DEF IInv
    <2>3. sent \in 0..MaxSent /\ robbed \subseteq Requests /\ overtaken \subseteq ProxyIds \cup {0}
      BY <2>2 DEF TypeOK
    <2> QED
      BY <2>1, <2>2, <2>3, QuietStep
  <1> QED
    BY <1>1, <1>2, <1>3 DEF Next

\* The forms, the requests under way and the tables stay consistent: copies of a
\* row's age are copies of what it holds, and what is about to be written comes
\* from such a copy, or the row is in overtaken or the save in robbed.
THEOREM SettingsInvariant == Spec => []IInv
  <1>1. Init => IInv
    BY InitInv
  <1>2. IInv /\ [Next]_vars => IInv'
    BY NextInv
  <1> QED
    BY <1>1, <1>2, PTL DEF Spec

\* Forms hold tokens, URLs and their masks, and the tables what a save may write
\* (alert_service.go:526-840, App.tsx:1404-1506).
THEOREM SettingsTypeCorrect == Spec => []TypeOK
  <1>1. IInv => TypeOK
    BY DEF IInv
  <1> QED
    BY <1>1, SettingsInvariant, PTL

\* In any number of windows, with any requests under way: a mask is stored in
\* place of a secret only where a form was saved that showed the row as it was
\* before another change (alert_service.go:779 and 813).
THEOREM SettingsSecretsAreReal == Spec => []SecretsAreReal
  <1>1. IInv => SecretsAreReal
    BY DEF IInv
  <1> QED
    BY <1>1, SettingsInvariant, PTL

\* In any number of windows: a save whose token field was left alone keeps the
\* token, unless it was changed since the field was filled (alert_service.go:779).
THEOREM SettingsUntouchedIsKept == Spec => UntouchedIsKept
  <1> DEFINE Kept(r) == UpsertTelegram(r) /\ req[r].token.val \notin Tokens /\ req[r].token.age = tokenAge =>
                          botToken' = botToken
             A == \A r \in Requests : Kept(r)
  <1>1. ASSUME IInv, NEW r \in Requests
        PROVE  Kept(r)
    <2>1. ReqSends(req[r], overtaken)
      BY <1>1 DEF IInv
    <2> QED
      BY <2>1 DEF ReqSends, UpsertTelegram, At
  <1>2. IInv => A
    BY <1>1
  <1>3. IInv /\ [Next]_vars => [A]_vars
    BY <1>2
  <1> QED
    BY <1>3, SettingsInvariant, PTL DEF Spec, UntouchedIsKept

\* In any number of windows: a channel is saved with a proxy that does not exist
\* only if the proxy was deleted between the check and the write
\* (alert_service.go:391).
THEOREM SettingsSavedProxyExists == Spec => SavedProxyExists
  <1> DEFINE A == \A r \in Requests \ robbed :
                    UpsertTelegram(r) \/ UpsertWebhook(r) => Exists(req[r].proxy)
  <1>1. ASSUME IInv, NEW r \in Requests \ robbed, UpsertTelegram(r) \/ UpsertWebhook(r)
        PROVE  Exists(req[r].proxy)
    <2>1. Relies(req[r])
      BY <1>1 DEF UpsertTelegram, UpsertWebhook, At, Relies
    <2> QED
      BY <1>1, <2>1 DEF IInv
  <1>2. IInv => A
    BY <1>1
  <1>3. IInv /\ [Next]_vars => [A]_vars
    BY <1>2
  <1> QED
    BY <1>3, SettingsInvariant, PTL DEF Spec, SavedProxyExists

=============================================================================
