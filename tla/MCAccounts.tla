------------------------------ MODULE MCAccounts ------------------------------
(* A small instance of ServiceProcess and one of RestoreToken, side by side. *)
EXTENDS ServiceProcess, RestoreToken, TLC

Plain == [user |-> None, pass |-> None, restore |-> FALSE, token |-> 0,
          collect |-> TRUE, cleanup |-> FALSE, numbers |-> TRUE, cleanupNumbers |-> FALSE]

\* No bootstrap account, a named one, a password without a name, restore mode
\* with and without a proper token, an enabled cleanup with bad settings.
SmallConfigs ==
  { Plain,
    [Plain EXCEPT !.user = "root", !.pass = "p1", !.cleanup = TRUE, !.cleanupNumbers = TRUE],
    [Plain EXCEPT !.pass = "p1"],
    [Plain EXCEPT !.restore = TRUE, !.token = 32],
    [Plain EXCEPT !.restore = TRUE, !.token = 31],
    [Plain EXCEPT !.cleanup = TRUE] }

VARIABLE part  \* the module this behaviour is about; the other one stays in its initial state

AccountsInit ==
  /\ Init /\ RestoreInit
  /\ part = "token" \/ (part = "process" /\ user = [r \in Resets |-> CHOOSE u \in Usernames : TRUE])

AccountsNext ==
  \/ part = "process" /\ Next /\ UNCHANGED <<part, restoreVars>>
  \/ part = "token" /\ RestoreNext /\ UNCHANGED <<part, vars>>

AccountsSpec ==
  /\ AccountsInit /\ [][AccountsNext]_<<part, vars, restoreVars>>
  /\ \A r \in Resets : WF_restoreVars(part = "token" /\ Handle(r) /\ UNCHANGED <<part, vars>>)

=============================================================================
