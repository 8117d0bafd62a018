------------------------------ MODULE Engagement ------------------------------
(***************************************************************************)
(* What players are rewarded for: the mini pass with the daily tasks, and  *)
(* the check-in.  A check-in that is confirmed tells the goals, by a call  *)
(* that nobody awaits and that may be lost: any call of the missions'      *)
(* model.  The two have no other state in common, and interleaving their   *)
(* steps would multiply the states and show nothing that the behaviours of *)
(* one do not.  So one of them moves in a behaviour, and the other stays   *)
(* where it starts.                                                        *)
(***************************************************************************)
EXTENDS Missions, CheckIn

VARIABLE reward   \* the part that moves

EInit == reward \in {"missions", "check-in"} /\ MInit /\ KInit

ENext ==
  /\ \/ reward = "missions" /\ MNext /\ UNCHANGED kVars
     \/ reward = "check-in" /\ KNext /\ UNCHANGED mVars
  /\ UNCHANGED reward

ESpec == EInit /\ [][ENext]_<<reward, mVars, kVars>>

=============================================================================
