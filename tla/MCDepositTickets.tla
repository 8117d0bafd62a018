--------------------------- MODULE MCDepositTickets ---------------------------
(* Small instances of DepositTickets. *)
EXTENDS DepositTickets

CONSTANTS h1, H1, r1, v1, v2, c0, c1, d1, a1, a2

\* One transfer, whose hash is written in either case.
LowerCase == [h \in Hashes |-> h1]
=============================================================================
