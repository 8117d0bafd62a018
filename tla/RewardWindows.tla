---------------------------- MODULE RewardWindows ----------------------------
(***************************************************************************)
(* What the BLK emission promises: a window is settled once, and what it   *)
(* gives each player is in his balance from then on.                       *)
(***************************************************************************)
EXTENDS Integers

CONSTANTS
  Players,
  Windows,  \* starts of the emission's windows
  Open      \* the entry of a window that is not settled

VARIABLES
  ledger,   \* what each window gave, or Open
  credited  \* BLK each player received from all windows

Init ==
  /\ ledger = [w \in Windows |-> Open]
  /\ credited = [p \in Players |-> 0]

Settle(w) ==
  /\ ledger[w] = Open
  /\ ledger'[w] \in [Players -> Nat]
  /\ ledger' = [ledger EXCEPT ![w] = ledger'[w]]
  /\ credited' = [p \in Players |-> credited[p] + ledger'[w][p]]

Next == \E w \in Windows : Settle(w)

Spec == Init /\ [][Next]_<<ledger, credited>>

=============================================================================
