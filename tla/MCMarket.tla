------------------------------ MODULE MCMarket ------------------------------
(* Small instances of Purchases and AutoMining. *)
EXTENDS Market, TLC

CONSTANTS u1, u2, c1, c2, inPol, inUsdc   \* Purchases
CONSTANTS x1, x2                          \* AutoMining

EitherSign == {-1, 1}
RoomPricesShort == <<0, 2>>
OneOrTwo == [m \in Modes |-> IF m = "TURBO" THEN 2 ELSE 1]

\* The calls of each part are interchangeable.
CallSymmetry == Permutations({c1, c2}) \cup Permutations({x1, x2})
=============================================================================
