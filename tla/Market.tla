-------------------------------- MODULE Market --------------------------------
(***************************************************************************)
(* What players spend and what they mine by hand: the purchases and Auto   *)
(* Mining.  They have no state in common, so one of them moves in a        *)
(* behaviour, and the other stays where it starts.                         *)
(***************************************************************************)
EXTENDS Purchases, AutoMining

VARIABLE trade   \* the part that moves

\* The first stock of the offer is left open by the purchases alone.
TradeInit ==
  /\ trade \in {"purchases", "auto mining"}
  /\ PInit /\ AInit
  /\ trade # "purchases" => offer = CHOOSE o \in FirstOffers : TRUE

TradeNext ==
  /\ \/ trade = "purchases" /\ PNext /\ UNCHANGED aVars
     \/ trade = "auto mining" /\ ANext /\ UNCHANGED pVars
  /\ UNCHANGED trade

TradeSpec == TradeInit /\ [][TradeNext]_<<trade, pVars, aVars>>

=============================================================================
