---------------------------- MODULE MCEngineLedger ----------------------------
(* Small instances of EngineLedger. *)
EXTENDS EngineLedger

CONSTANTS w1, w2, rd1, p1, p2

MCAmounts == {-3, 2}

===============================================================================
