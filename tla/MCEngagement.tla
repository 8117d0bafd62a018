---------------------------- MODULE MCEngagement ----------------------------
(* Small instances of Missions and CheckIn. *)
EXTENDS Engagement

CONSTANTS p1, p2, mLogin, mGame, tLogin, g1, b1, b2   \* Missions
CONSTANTS k1, k2, hGood, HGood, hBad                   \* CheckIn

TaskTwo == [x \in {mLogin, mGame, tLogin} |-> IF x = tLogin THEN 2 ELSE 1]
OwnedByFirst == [g \in {g1} |-> p1]
FirstHasFour == [p \in {p1, p2} |-> IF p = p1 THEN 4 ELSE 0]
PaidBy == [h \in {hGood, HGood, hBad} |-> IF h = hBad THEN "bad" ELSE "good"]
FreeHashes == <<"free1", "free2", "free3">>
=============================================================================
