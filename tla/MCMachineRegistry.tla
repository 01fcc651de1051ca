-------------------------- MODULE MCMachineRegistry --------------------------
(* Small instances of MachineRegistry. *)
EXTENDS MachineRegistry, TLC

ClientSymmetry == Permutations(Clients)

=============================================================================
