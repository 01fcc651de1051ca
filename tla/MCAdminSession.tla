--------------------------- MODULE MCAdminSession ---------------------------
(* Small instances of AdminSession. *)
EXTENDS AdminSession, TLC

SlotSymmetry == Permutations(Slots)

=============================================================================
