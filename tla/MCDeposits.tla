----------------------------- MODULE MCDeposits -----------------------------
(* Small instances of Deposits. *)
EXTENDS Deposits

CONSTANTS h1, H1, r1, v1, v2, c0, c1, s1, s2

\* One transfer, whose hash is written in either case.
LowerCase == [h \in Hashes |-> h1]
=============================================================================
