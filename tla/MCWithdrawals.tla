---------------------------- MODULE MCWithdrawals ----------------------------
(* Small instances of Withdrawals. *)
EXTENDS Withdrawals, TLC

CONSTANTS r1, r2, a1, t1

RequestSymmetry == Permutations({r1, r2})
=============================================================================
