------------------------ MODULE NotificationSettings ------------------------
(***************************************************************************)
(* Notification channels and proxies as administrators edit them:          *)
(* internal/service/alert_service.go and the forms of web/src/App.tsx.     *)
(* The console never sees a secret. It shows the Telegram token and the    *)
(* proxy URLs masked and sends the mask back when the user leaves the      *)
(* field alone; the server puts the secret in its place. A request carries *)
(* the form as it was when the button was clicked. Meanwhile other         *)
(* requests run, from other windows and from the same one, and the user    *)
(* goes on typing and clicking.                                            *)
(***************************************************************************)
EXTENDS Naturals, FiniteSets

CONSTANTS
  Tabs,         \* console windows
  Requests,     \* what they have under way: a save, a deletion or a load
  Tokens,       \* Telegram bot tokens
  Urls,         \* proxy URLs, with a password
  ProxyIds,     \* primary keys of proxies, in Nat \ {0}
  MaxSent,      \* bound on saves and deletions
  None          \* no value, and the empty field

ASSUME SettingsAssumption ==
  /\ ProxyIds \subseteq Nat \ {0} /\ MaxSent \in Nat
  /\ None \notin Tokens \cup Urls
  /\ \A x \in Tokens \cup Urls : <<"mask", x>> \notin Tokens \cup Urls \cup {None}

Channels == {"telegram", "webhook"}
Mask(x) == <<"mask", x>>
Masks(secrets) == { Mask(x) : x \in secrets }

\* maskToken and maskProxyURL: a mask is its own mask.
masked(secrets, x) == IF x \in secrets THEN Mask(x) ELSE x

VARIABLES
  botToken,   \* the stored Telegram token
  uses,       \* the stored proxy of each channel, 0 for none
  urls,       \* the table of proxies: id to URL, None for no row
  used,       \* ids given out
  form,       \* what each window shows
  req,        \* what is under way
  sent,       \* saves and deletions so far, for the bound
  tokenAge, urlAge,  \* history: how often the token, and each proxy, has changed
  overtaken,  \* history: rows (an id, 0 for the token) saved from a mask that was too old
  robbed      \* history: channel saves whose proxy was deleted after it was checked

stored == <<botToken, uses, urls, used, tokenAge, urlAge>>
history == <<overtaken, robbed>>
vars == <<stored, form, req, sent, history>>

\* A value shown or typed, with the age of its row when it was read; what was
\* typed has none.
Copy(x, age) == [val |-> x, age |-> age]
Empty == Copy(None, 0)
Exists(i) == i # 0 => urls[i] # None

EmptyForm ==
  [busy |-> FALSE, token |-> Empty, uses |-> [c \in Channels |-> 0],
   list |-> [i \in ProxyIds |-> Empty], edit |-> 0, url |-> Empty]

\* token, proxy, id and url are the body of a save or a deletion, send what the
\* server is about to write; editing says that the proxy to delete was in the
\* form; token, uses and list are also what a load has fetched.
NoReq ==
  [pc |-> "idle", tab |-> None, token |-> Empty, proxy |-> 0, id |-> 0, url |-> Empty,
   send |-> None, editing |-> FALSE, uses |-> [c \in Channels |-> 0],
   list |-> [i \in ProxyIds |-> Empty]]

Init ==
  /\ botToken = None /\ uses = [c \in Channels |-> 0]
  /\ urls = [i \in ProxyIds |-> None] /\ used = {}
  /\ tokenAge = 0 /\ urlAge = [i \in ProxyIds |-> 0]
  /\ form = [t \in Tabs |-> EmptyForm] /\ req = [r \in Requests |-> NoReq]
  /\ sent = 0 /\ overtaken = {} /\ robbed = {}

Listed(t) == { i \in ProxyIds : form[t].list[i].val # None }
At(r, pc) == req[r].pc = pc
Goto(r, pc) == req' = [req EXCEPT ![r].pc = pc]
Reply(r, pc) == req' = [req EXCEPT ![r] = [NoReq EXCEPT !.pc = pc, !.tab = req[r].tab]]

-----------------------------------------------------------------------------
(* The forms: none of these controls is ever disabled (NotificationsPage.tsx:210-241). *)

Typed(t, f) == form' = [form EXCEPT ![t] = f] /\ UNCHANGED <<stored, req, sent, history>>

TypeToken(t) == \E x \in Tokens \cup {None} : Typed(t, [form[t] EXCEPT !.token = Copy(x, 0)])

ChooseProxy(t) ==
  \E c \in Channels, i \in Listed(t) \cup {0} : Typed(t, [form[t] EXCEPT !.uses[c] = i])

\* startEditNotificationProxy takes the masked URL from the list, which is as
\* old as the last load.
StartEdit(t) ==
  \E i \in Listed(t) : Typed(t, [form[t] EXCEPT !.edit = i, !.url = form[t].list[i]])

CancelEdit(t) == Typed(t, [form[t] EXCEPT !.edit = 0, !.url = Empty])

TypeUrl(t) == \E u \in Urls : Typed(t, [form[t] EXCEPT !.url = Copy(u, 0)])

-----------------------------------------------------------------------------
(* The buttons. busy is set here and reset by whatever ends first. A save also *)
(* needs a changed form; the fields left out here (names, the chat id) change.  *)

Begin(r, t, x) ==
  /\ At(r, "idle")
  /\ req' = [req EXCEPT ![r] = x]
  /\ form' = [form EXCEPT ![t].busy = TRUE]
  /\ UNCHANGED <<stored, history>>

Submit(r, t, x) == sent < MaxSent /\ sent' = sent + 1 /\ Begin(r, t, x)

SaveTelegram(r, t) ==
  /\ ~form[t].busy
  /\ Submit(r, t, [NoReq EXCEPT !.pc = "checkTelegram", !.tab = t, !.token = form[t].token,
                                !.proxy = form[t].uses["telegram"]])

SaveWebhook(r, t) ==
  /\ ~form[t].busy
  /\ Submit(r, t, [NoReq EXCEPT !.pc = "checkWebhook", !.tab = t, !.proxy = form[t].uses["webhook"]])

\* A proxy without a URL is refused.
SaveProxy(r, t) ==
  /\ ~form[t].busy /\ form[t].url.val # None
  /\ Submit(r, t, [NoReq EXCEPT !.pc = IF form[t].edit = 0 THEN "createProxy" ELSE "getProxy",
                                !.tab = t, !.id = form[t].edit, !.url = form[t].url])

\* Delete is not disabled while the window is busy.
PressDelete(r, t) ==
  \E i \in Listed(t) :
    Submit(r, t, [NoReq EXCEPT !.pc = "deleteProxy", !.tab = t, !.id = i,
                              !.editing = (form[t].edit = i)])

\* loadProtectedData, after the login or for another page.
Load(r, t) == Begin(r, t, [NoReq EXCEPT !.pc = "load", !.tab = t]) /\ UNCHANGED sent

\* What was under way ends, and with it busy.
End(r, f) ==
  /\ req' = [req EXCEPT ![r] = NoReq]
  /\ form' = [form EXCEPT ![req[r].tab] = [f EXCEPT !.busy = FALSE]]

-----------------------------------------------------------------------------
(* Channels *)

SkipProxyCheck(r) ==
  /\ \/ At(r, "checkTelegram") /\ Goto(r, "listChannels")
     \/ At(r, "checkWebhook") /\ Goto(r, "upsertWebhook")
  /\ UNCHANGED <<stored, form, sent, history>>

\* A proxy that does not exist is a 400, see Fail.
validateNotificationProxyID(r) ==
  /\ Exists(req[r].proxy)
  /\ \/ At(r, "checkTelegram") /\ Goto(r, "listChannels")
     \/ At(r, "checkWebhook") /\ Goto(r, "upsertWebhook")
  /\ UNCHANGED <<stored, form, sent, history>>

KeepOnlyMasked(x, existing) ==
  IF existing # None /\ x = masked(Tokens, existing) THEN existing ELSE x

\* The token a save writes: the existing one if the field is empty or holds
\* its mask.
mergeBotToken(x, existing) ==
  IF existing # None /\ x \in {None, masked(Tokens, existing)} THEN existing ELSE x

TooOld(x, secrets, age) == x.val \in Masks(secrets) /\ x.age # age

\* An empty field stands for the token that is read here.
buildTelegramChannelConfig(r) ==
  /\ At(r, "listChannels")
  /\ LET x == req[r].token IN
       /\ req' = [req EXCEPT ![r].pc = "upsertTelegram", ![r].send = mergeBotToken(x.val, botToken),
                             ![r].token = IF x.val = None THEN Copy(None, tokenAge) ELSE x]
       /\ overtaken' = IF TooOld(x, Tokens, tokenAge) THEN overtaken \cup {0} ELSE overtaken
  /\ UNCHANGED <<stored, form, sent, robbed>>

UpsertTelegram(r) ==
  /\ At(r, "upsertTelegram")
  /\ botToken' = req[r].send
  /\ tokenAge' = IF botToken' = botToken THEN tokenAge ELSE tokenAge + 1
  /\ uses' = [uses EXCEPT !["telegram"] = req[r].proxy]
  /\ Reply(r, "telegramSaved")
  /\ robbed' = robbed \ {r}
  /\ UNCHANGED <<urls, used, urlAge, form, sent, overtaken>>

UpsertWebhook(r) ==
  /\ At(r, "upsertWebhook")
  /\ uses' = [uses EXCEPT !["webhook"] = req[r].proxy]
  /\ Reply(r, "webhookSaved")
  /\ robbed' = robbed \ {r}
  /\ UNCHANGED <<botToken, tokenAge, urls, used, urlAge, form, sent, overtaken>>

-----------------------------------------------------------------------------
(* Proxies *)

Write(i, u) ==
  /\ urls' = [urls EXCEPT ![i] = u]
  /\ urlAge' = IF urls[i] = u THEN urlAge ELSE [urlAge EXCEPT ![i] = @ + 1]
  /\ UNCHANGED <<botToken, tokenAge, uses, form, sent, overtaken>>

CreateProxy(r) ==
  /\ At(r, "createProxy")
  /\ \E i \in ProxyIds \ used :
       /\ \A j \in ProxyIds \ used : i <= j
       /\ Write(i, req[r].url.val)
       /\ used' = used \cup {i}
  /\ Reply(r, "proxySaved")
  /\ UNCHANGED robbed

TakeUrlAsSent(x, existing) == x

\* buildNotificationProxy: the mask stands for the existing URL.
mergeProxyURL(x, existing) == IF x = masked(Urls, existing) THEN existing ELSE x

\* A proxy that is gone is a 404, here and in UpdateProxy and RemoveProxy, see Fail.
GetProxy(r) ==
  /\ At(r, "getProxy") /\ urls[req[r].id] # None
  /\ LET i == req[r].id  x == req[r].url IN
       /\ req' = [req EXCEPT ![r].pc = "updateProxy", ![r].send = mergeProxyURL(x.val, urls[i])]
       /\ overtaken' = IF TooOld(x, Urls, urlAge[i]) THEN overtaken \cup {i} ELSE overtaken
  /\ UNCHANGED <<stored, form, sent, robbed>>

UpdateProxy(r) ==
  /\ At(r, "updateProxy") /\ urls[req[r].id] # None
  /\ Write(req[r].id, req[r].send)
  /\ Reply(r, "proxySaved")
  /\ UNCHANGED <<used, robbed>>

\* A save that has checked its proxy and not yet written it.
Relying(r) == req[r].pc \in {"listChannels", "upsertTelegram", "upsertWebhook"}

\* One statement; channels that use the proxy are not looked at.
RemoveProxy(r) ==
  /\ At(r, "deleteProxy") /\ urls[req[r].id] # None
  /\ Write(req[r].id, None)
  /\ req' = [req EXCEPT ![r].pc = "proxyDeleted"]
  /\ robbed' = robbed \cup { q \in Requests : Relying(q) /\ req[q].proxy = req[r].id }
  /\ UNCHANGED used

-----------------------------------------------------------------------------
(* Answers *)

\* The console empties the token field, or the proxy's form, whatever is in it
\* by now; then it loads everything again.
Answer(r) ==
  /\ req[r].pc \in {"telegramSaved", "webhookSaved", "proxySaved", "proxyDeleted"}
  /\ LET f == form[req[r].tab]
         closes == At(r, "proxySaved") \/ (At(r, "proxyDeleted") /\ req[r].editing)
     IN form' = [form EXCEPT ![req[r].tab] =
                   [f EXCEPT !.token = IF At(r, "telegramSaved") THEN Empty ELSE @,
                             !.edit = IF closes THEN 0 ELSE @,
                             !.url = IF closes THEN Empty ELSE @]]
  /\ Reply(r, "load")
  /\ UNCHANGED <<stored, sent, history>>

Shown(secrets, x, age) == IF x = None THEN Empty ELSE Copy(masked(secrets, x), age)

\* The requests of a load are answered in any order.
GetChannels(r) ==
  /\ req[r].pc \in {"load", "loadChannels"}
  /\ req' = [req EXCEPT ![r].pc = IF @ = "load" THEN "loadProxies" ELSE "show",
                        ![r].token = Shown(Tokens, botToken, tokenAge), ![r].uses = uses]
  /\ UNCHANGED <<stored, form, sent, history>>

GetProxies(r) ==
  /\ req[r].pc \in {"load", "loadProxies"}
  /\ req' = [req EXCEPT ![r].pc = IF @ = "load" THEN "loadChannels" ELSE "show",
                        ![r].list = [i \in ProxyIds |-> Shown(Urls, urls[i], urlAge[i])]]
  /\ UNCHANGED <<stored, form, sent, history>>

\* syncChannelForms, without proxies that are gone. The proxy's form stays.
Show(r) ==
  /\ At(r, "show")
  /\ LET x == req[r]
         shown(i) == IF i # 0 /\ x.list[i].val # None THEN i ELSE 0
     IN End(r, [form[x.tab] EXCEPT !.token = x.token, !.list = x.list,
                                   !.uses = [c \in Channels |-> shown(x.uses[c])]])
  /\ UNCHANGED <<stored, sent, history>>

\* A refusal, a statement that fails, an answer that is lost after the write: the
\* forms stay as they are.
Fail(r) ==
  /\ ~At(r, "idle")
  /\ End(r, form[req[r].tab])
  /\ robbed' = robbed \ {r}
  /\ UNCHANGED <<stored, sent, overtaken>>

-----------------------------------------------------------------------------
User(t) ==
  \/ TypeToken(t) \/ ChooseProxy(t) \/ StartEdit(t) \/ CancelEdit(t) \/ TypeUrl(t)
  \/ \E r \in Requests : \/ SaveTelegram(r, t) \/ SaveWebhook(r, t) \/ SaveProxy(r, t)
                         \/ PressDelete(r, t) \/ Load(r, t)

Proceed(r) ==
  \/ validateNotificationProxyID(r) \/ buildTelegramChannelConfig(r) \/ UpsertTelegram(r)
  \/ UpsertWebhook(r) \/ CreateProxy(r) \/ GetProxy(r) \/ UpdateProxy(r) \/ RemoveProxy(r)
  \/ Answer(r) \/ GetChannels(r) \/ GetProxies(r) \/ Show(r) \/ Fail(r)

Next == (\E t \in Tabs : User(t)) \/ (\E r \in Requests : Proceed(r))

Spec == Init /\ [][Next]_vars

-----------------------------------------------------------------------------
(* Properties *)

Copies(S) == [val : S \cup {None}, age : Nat]
TokenCopies == Copies(Tokens \cup Masks(Tokens))
UrlCopies == Copies(Urls \cup Masks(Urls))
PCs ==
  {"idle", "checkTelegram", "listChannels", "upsertTelegram", "telegramSaved", "checkWebhook",
   "upsertWebhook", "webhookSaved", "createProxy", "getProxy", "updateProxy", "proxySaved",
   "deleteProxy", "proxyDeleted", "load", "loadChannels", "loadProxies", "show"}
Uses == [Channels -> ProxyIds \cup {0}]

TypeOK ==
  /\ botToken \in Tokens \cup Masks(Tokens) \cup {None} /\ uses \in Uses
  /\ urls \in [ProxyIds -> Urls \cup Masks(Urls) \cup {None}] /\ used \subseteq ProxyIds
  /\ tokenAge \in Nat /\ urlAge \in [ProxyIds -> Nat]
  /\ form \in [Tabs -> [busy : BOOLEAN, token : TokenCopies, uses : Uses,
                       list : [ProxyIds -> UrlCopies], edit : ProxyIds \cup {0}, url : UrlCopies]]
  /\ req \in [Requests -> [pc : PCs, tab : Tabs \cup {None}, token : TokenCopies,
                           proxy : ProxyIds \cup {0}, id : ProxyIds \cup {0}, url : UrlCopies,
                           send : Tokens \cup Masks(Tokens) \cup Urls \cup Masks(Urls) \cup {None},
                           editing : BOOLEAN, uses : Uses, list : [ProxyIds -> UrlCopies]]]
  /\ sent \in 0..MaxSent /\ overtaken \subseteq ProxyIds \cup {0} /\ robbed \subseteq Requests
  /\ \A r \in Requests :
       /\ req[r].pc # "idle" => req[r].tab \in Tabs
       /\ req[r].pc \in {"getProxy", "updateProxy", "deleteProxy"} => req[r].id \in ProxyIds

\* A mask is stored in place of a secret (notifications would go out with a token
\* or a password of dots, alert_service.go:779 and 813) only if a form was saved
\* that showed the row as it was before another change: with an up-to-date mask
\* the server always finds the secret, whatever else is under way.
SecretsAreReal ==
  /\ botToken \in Tokens \cup {None} \/ 0 \in overtaken
  /\ \A i \in ProxyIds : urls[i] \in Urls \cup {None} \/ i \in overtaken

\* A save whose token field was left alone keeps the token, unless the token was
\* changed since the field was filled; an empty field counts as filled when
\* the server reads the existing token.
UntouchedIsKept ==
  [][\A r \in Requests :
       UpsertTelegram(r) /\ req[r].token.val \notin Tokens /\ req[r].token.age = tokenAge =>
         botToken' = botToken]_vars

\* A channel is saved with a proxy that does not exist only if the proxy was
\* deleted between validateNotificationProxyID and the write: not because the form
\* or the list it was chosen from was old (alert_service.go:391).
SavedProxyExists ==
  [][\A r \in Requests \ robbed :
       UpsertTelegram(r) \/ UpsertWebhook(r) => Exists(req[r].proxy)]_vars

=============================================================================
