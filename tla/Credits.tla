-------------------------------- MODULE Credits --------------------------------
(***************************************************************************)
(* What a player is credited with for what he does: the errands he has     *)
(* run, the campaigns he has taken part in and the games he has won.  They *)
(* have no state in common (a reward is a row that the mining engine sums  *)
(* up, or an amount added to a balance), so one of them moves in a         *)
(* behaviour, and the others stay where they start.                        *)
(***************************************************************************)
EXTENDS Errands, Campaigns, Arcade

VARIABLE activity   \* the part that moves

\* What a part may start with is left open by that part alone.
CreditInit ==
  /\ activity \in {"errands", "campaigns", "games"}
  /\ ErrandInit /\ CampaignInit /\ ArcadeInit
  /\ activity # "errands" => mind = "watch"
  /\ activity # "campaigns" => wall = "read"
  /\ activity # "games" => booth = "tap"

CreditNext ==
  /\ \/ activity = "errands" /\ ErrandNext /\ UNCHANGED <<campaignVars, arcadeVars>>
     \/ activity = "campaigns" /\ CampaignNext /\ UNCHANGED <<eVars, arcadeVars>>
     \/ activity = "games" /\ ArcadeNext /\ UNCHANGED <<eVars, campaignVars>>
  /\ UNCHANGED activity

CreditSpec == CreditInit /\ [][CreditNext]_<<activity, eVars, campaignVars, arcadeVars>>

=============================================================================
