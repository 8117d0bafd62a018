------------------------------ MODULE MCCredits ------------------------------
(* Small instances of the parts of Credits. *)
EXTENDS Credits

CONSTANTS q1, q2                   \* Errands
CONSTANTS d1, d2, w1, w2           \* Campaigns
CONSTANTS n1, n2, k1, k2           \* Arcade
=============================================================================
