--------------------------- MODULE MCAlertPipeline ---------------------------
(* Small instances of AlertPipeline. *)
EXTENDS AlertPipeline, TLC

\* A quiet entry and one with uploads only: over the upload and total rules.
UploadAmounts == {[up |-> 0, down |-> 0], [up |-> 1, down |-> 0]}

\* Both directions active, so that all three metrics exceed their rule.
BusyAmounts == {[up |-> 1, down |-> 1]}

\* The rules that are on in one instance, all with threshold 0.
RulesFor(on) == [d \in Dims |-> IF d \in on THEN 0 ELSE Off]
AllOn == {RulesFor(Dims)}
OnOrUploadOff == {RulesFor(Dims), RulesFor({d \in Dims : d[2] # "upload"})}

\* Collectors run the same code.
CollectorSymmetry == Permutations(Collectors)

=============================================================================
