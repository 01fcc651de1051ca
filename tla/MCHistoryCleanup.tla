-------------------------- MODULE MCHistoryCleanup --------------------------
(* Small instances of HistoryCleanup. *)
EXTENDS HistoryCleanup

\* A retention of one day.
OneDay == [t \in Tables |-> 1]

\* The console's request: everything, with the configured retention.
ConsoleRequest == {[tables |-> Tables, machine |-> All, days |-> OneDay]}

=============================================================================
