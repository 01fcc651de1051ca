----------------------------- MODULE AlertLedger -----------------------------
(***************************************************************************)
(* What the alert pipeline promises, without collectors, statements or     *)
(* failures: an alert is raised once, each channel is asked at most once   *)
(* to announce it and never after it was settled, it is settled at most    *)
(* once and truthfully, and the history cleanup may remove it at any time. *)
(***************************************************************************)
EXTENDS Naturals

CONSTANTS
  Alerts,    \* alert rows that may ever exist
  Channels   \* notification channels

VARIABLES
  status,    \* notify_status of each alert, "none" before and "gone" after
  asked      \* how often each channel was asked to announce it

ledger == <<status, asked>>

Settled == {"sent", "failed", "skipped"}
SomebodyAsked(a) == \E ch \in Channels : asked[a][ch] > 0

Init ==
  /\ status = [a \in Alerts |-> "none"]
  /\ asked = [a \in Alerts |-> [ch \in Channels |-> 0]]

Raise(a) ==
  /\ status[a] = "none"
  /\ status' = [status EXCEPT ![a] = "pending"]
  /\ UNCHANGED asked

\* One request to a channel names one or several alerts. An alert that the
\* cleanup removed while it was pending is still announced.
Announce(ch) ==
  /\ asked' \in [Alerts -> [Channels -> Nat]]
  /\ \A a \in Alerts :
       \/ asked'[a] = asked[a]
       \/ /\ status[a] \in {"pending", "gone"}
          /\ asked[a][ch] = 0
          /\ asked'[a] = [asked[a] EXCEPT ![ch] = 1]
  /\ UNCHANGED status

\* "skipped" says that no channel was asked, the others that one was.
Settle(a) ==
  /\ status[a] = "pending"
  /\ \E s \in Settled :
       /\ (s = "skipped") = ~SomebodyAsked(a)
       /\ status' = [status EXCEPT ![a] = s]
  /\ UNCHANGED asked

\* The cleanup removes any alerts that exist.
Remove ==
  /\ status' \in [Alerts -> {"none", "pending", "gone"} \cup Settled]
  /\ \A a \in Alerts :
       \/ status'[a] = status[a]
       \/ status[a] # "none" /\ status'[a] = "gone"
  /\ UNCHANGED asked

Next ==
  \/ \E a \in Alerts : Raise(a) \/ Settle(a)
  \/ \E ch \in Channels : Announce(ch)
  \/ Remove

Spec == Init /\ [][Next]_ledger

=============================================================================
