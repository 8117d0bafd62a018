--------------------------------- MODULE Sums ---------------------------------
(***************************************************************************)
(* The sum of a function's values over a finite set, in terms of which the *)
(* ledgers of the other modules are stated.                                *)
(***************************************************************************)
EXTENDS Integers, FiniteSets, FiniteSetsExt

Total(f, S) == MapThenSumSet(LAMBDA x : f[x], S)

=============================================================================
