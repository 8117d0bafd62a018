----------------------------- MODULE MCMachines -----------------------------
(* Model-checking instance of Machines. *)
EXTENDS Machines, TLC

CONSTANTS r1, r2

\* Requests are interchangeable.
RequestSymmetry == Permutations(Requests)
=============================================================================
