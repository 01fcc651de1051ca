----------------------- MODULE MCNotificationSettings -----------------------
(* Small instances of NotificationSettings. *)
EXTENDS NotificationSettings, TLC

Symmetry ==
  Permutations(Tabs) \cup Permutations(Requests) \cup Permutations(Tokens) \cup Permutations(Urls)

=============================================================================
