-------------------------- MODULE MCKernelEnforcer --------------------------
(***************************************************************************)
(* Small instances of KernelEnforcer for TLC.  Addresses are               *)
(* interchangeable, and so are the operators' threads; symmetry is used in *)
(* the runs without liveness properties.                                   *)
(***************************************************************************)
EXTENDS KernelEnforcer, TLC

Symmetry == Permutations(IPs) \cup Permutations(Operators)
=============================================================================
