---------------------------- MODULE RestoreToken ----------------------------
(***************************************************************************)
(* Restore mode: the one-time token of internal/handler/restore_handler.go *)
(* and the password reset of internal/service/auth_service.go it guards.   *)
(*                                                                         *)
(* A request takes the token under the handler's mutex, resets the         *)
(* password in two database calls without it, and hands the token back if  *)
(* that failed. Requests run concurrently; the process may be restarted.   *)
(* A password is identified with the request that asked for it.            *)
(***************************************************************************)
EXTENDS Naturals

CONSTANTS
  Resets,     \* POST /restore/admin-password requests
  Usernames,  \* usernames a request may name
  Admins,     \* the ones in the admins table
  Initial,    \* the password before any reset
  TTL,        \* restoreTokenTTL
  MaxTime     \* bound on the clock

ASSUME RestoreAssumption ==
  /\ Admins \subseteq Usernames
  /\ Initial \notin Resets
  /\ TTL \in Nat /\ MaxTime \in Nat

VARIABLES
  now,             \* the wall clock
  tokenUsed,       \* handler.tokenUsed
  tokenExpiresAt,  \* handler.tokenExpiresAt
  pc,              \* progress of each request
  user,            \* the username each request names
  password         \* whose password hash each admin has

restoreVars == <<now, tokenUsed, tokenExpiresAt, pc, user, password>>

\* Between a successful consumeRestoreToken and the end of the handler.
Holding == {"lookup", "update", "release"}
PCs == {"new", "ok", "refused", "error", "over"} \cup Holding

\* NewRestoreHandler.
RestoreInit ==
  /\ now = 0
  /\ tokenUsed = FALSE
  /\ tokenExpiresAt = TTL
  /\ pc = [r \in Resets |-> "new"]
  /\ user \in [Resets -> Usernames]
  /\ password = [a \in Admins |-> Initial]

Goto(r, s) == pc' = [pc EXCEPT ![r] = s]

AcceptUsedToken == now <= tokenExpiresAt

\* What consumeRestoreToken demands beside the right token: it is unused and
\* time.Now is not after the deadline.
TokenAvailable == ~tokenUsed /\ now <= tokenExpiresAt

\* The request carries the configured token and the mutex-protected check
\* succeeds.
Consume(r) ==
  /\ pc[r] = "new"
  /\ TokenAvailable
  /\ tokenUsed' = TRUE
  /\ Goto(r, "lookup")
  /\ UNCHANGED <<now, tokenExpiresAt, user, password>>

\* 400 for a malformed body or 403 for a rejected token. A request with a
\* wrong token is refused in every state.
Refuse(r) ==
  /\ pc[r] = "new"
  /\ Goto(r, "refused")
  /\ UNCHANGED <<now, tokenUsed, tokenExpiresAt, user, password>>

\* The first half of ResetPasswordByUsername: the length check, GetByUsername
\* and the hash. Any of them may fail, an unknown username always does.
Lookup(r) ==
  /\ pc[r] = "lookup"
  /\ \/ user[r] \in Admins /\ Goto(r, "update")
     \/ Goto(r, "release")
  /\ UNCHANGED <<now, tokenUsed, tokenExpiresAt, user, password>>

\* UpdatePasswordHash, and the 200 answer.
Update(r) ==
  /\ pc[r] = "update"
  /\ password' = [password EXCEPT ![user[r]] = r]
  /\ Goto(r, "ok")
  /\ UNCHANGED <<now, tokenUsed, tokenExpiresAt, user>>

\* UpdatePasswordHash returns an error: nothing was written, or the commit
\* went through and only its answer was lost.
UpdateFails(r) ==
  /\ pc[r] = "update"
  /\ \/ UNCHANGED password
     \/ password' = [password EXCEPT ![user[r]] = r]
  /\ Goto(r, "release")
  /\ UNCHANGED <<now, tokenUsed, tokenExpiresAt, user>>

AnswerWithoutRelease(r) ==
  /\ pc[r] = "release"
  /\ Goto(r, "error")
  /\ UNCHANGED <<now, tokenUsed, tokenExpiresAt, user, password>>

\* releaseRestoreToken and the 400, 404 or 500 answer.
Release(r) ==
  /\ pc[r] = "release"
  /\ tokenUsed' = FALSE
  /\ Goto(r, "error")
  /\ UNCHANGED <<now, tokenExpiresAt, user, password>>

\* The process is restarted, still in restore mode: a new handler, and what
\* was in flight is gone.
Restart ==
  /\ \E r \in Resets : pc[r] \notin {"new", "over"}
  /\ tokenUsed' = FALSE
  /\ tokenExpiresAt' = now + TTL
  /\ pc' = [r \in Resets |-> IF pc[r] = "new" THEN "new" ELSE "over"]
  /\ UNCHANGED <<now, user, password>>

Tick ==
  /\ now < MaxTime
  /\ now' = now + 1
  /\ UNCHANGED <<tokenUsed, tokenExpiresAt, pc, user, password>>

Handle(r) == Lookup(r) \/ Update(r) \/ UpdateFails(r) \/ Release(r)

RestoreNext ==
  \/ \E r \in Resets : Consume(r) \/ Refuse(r) \/ Handle(r)
  \/ Restart
  \/ Tick

RestoreSpec == RestoreInit /\ [][RestoreNext]_restoreVars

\* A handler that took the token runs to its end.
RestoreFairSpec == RestoreSpec /\ \A r \in Resets : WF_restoreVars(Handle(r))

-----------------------------------------------------------------------------
(* Properties *)

RestoreTypeOK ==
  /\ now \in Nat
  /\ tokenUsed \in BOOLEAN
  /\ tokenExpiresAt \in Nat
  /\ pc \in [Resets -> PCs]
  /\ user \in [Resets -> Usernames]
  /\ password \in [Admins -> Resets \cup {Initial}]
  /\ \A r \in Resets : pc[r] = "update" => user[r] \in Admins

\* The restore-mode delivery note, line 12: the token dies with the first
\* success. Once a request was answered 200, no other request that was already
\* under way or is still to come changes a password in this process.
SuccessIsFinal ==
  [][(\E r \in Resets : pc[r] = "ok") => UNCHANGED password]_restoreVars

\* A 200 tells the truth for as long as the process runs: the admin has the
\* password of that request, not of one that failed or raced it.
OkMeansStored ==
  \A r \in Resets :
    pc[r] = "ok" => user[r] \in Admins /\ password[user[r]] = r

\* A failed reset does not lock the administrator out: the token comes back,
\* unless a reset succeeded.
TokenComesBack ==
  tokenUsed ~> (~tokenUsed \/ \E r \in Resets : pc[r] = "ok")

=============================================================================
