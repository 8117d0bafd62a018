-------------------------------- MODULE Stock --------------------------------
(***************************************************************************)
(* What the stock of an offer promises: however many sales are under way   *)
(* at a time, no more is sold than the offer ever had.                     *)
(***************************************************************************)
EXTENDS Naturals

VARIABLES
  sold,   \* what buyers have
  most    \* the largest stock the offer ever had

StockInit == sold = 0 /\ most \in Nat

Sell ==
  /\ sold' \in sold + 1 .. most
  /\ UNCHANGED most

Restock ==
  /\ most' \in Nat /\ most' > most
  /\ UNCHANGED sold

StockSpec == StockInit /\ [][Sell \/ Restock]_<<sold, most>>

=============================================================================
