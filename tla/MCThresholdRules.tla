--------------------------- MODULE MCThresholdRules ---------------------------
(* A small instance of ThresholdRules. *)
EXTENDS ThresholdRules, TLC

Row(d, v, u, e, s) == [dim |-> d, value |-> v, unit |-> u, enabled |-> e, strategy |-> s]

\* Requests of other clients: a threshold for each dimension, one in each unit;
\* one row disabled without naming a strategy, the other inherited; a row twice.
SmallRequests ==
  { { Row("daily", 1, "GB", TRUE, ""), Row("hourly", 3, "MB", FALSE, "") },
    { Row("daily", 1, "MB", FALSE, ""), Row("hourly", 0, "GB", FALSE, "inherit") },
    { Row("daily", 1, "MB", TRUE, "override"), Row("daily", 2, "MB", TRUE, "override") } }

LoadSymmetry == Permutations(Loads)

=============================================================================
