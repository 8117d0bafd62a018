---------------------------- MODULE MCBackground ----------------------------
(* Small instances of the parts of Background. *)
EXTENDS Background

CONSTANTS r1, r2             \* RewardCycle
CONSTANTS p1, p2, s1         \* Streams
CONSTANTS w1, w2, rd1, o1    \* EngineLedger

SpentOrReceived == {-3, 2}
=============================================================================
