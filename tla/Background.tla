------------------------------ MODULE Background ------------------------------
(***************************************************************************)
(* What the server does by itself from time to time: it shares out the     *)
(* BLK rewards, keeps the live streams running and writes what the mining  *)
(* engine holds of the balances.  The three have no state in common, so    *)
(* one of them moves in a behaviour, and the others stay where they start, *)
(* where nothing that is fair is enabled.                                  *)
(***************************************************************************)
EXTENDS RewardCycle, Streams, EngineLedger

VARIABLE job   \* the part that moves

BInit == job \in {"reward", "streams", "ledger"} /\ Init /\ SInit /\ LInit

BNext ==
  /\ \/ job = "reward" /\ Next /\ UNCHANGED <<sVars, lVars>>
     \/ job = "streams" /\ SNext /\ UNCHANGED <<vars, lVars>>
     \/ job = "ledger" /\ LNext /\ UNCHANGED <<vars, sVars>>
  /\ UNCHANGED job

BSpec == BInit /\ [][BNext]_<<job, vars, sVars, lVars>>

FairBSpec == BSpec /\ Fairness /\ SFairness /\ LFairness

=============================================================================
