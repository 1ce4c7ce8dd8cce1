------------------------------ MODULE MCBidding ------------------------------
(***************************************************************************)
(* Instances of Bidding for TLC.  The names of the users and of the         *)
(* consumers are interchangeable in every property but the temporal ones.   *)
(***************************************************************************)
EXTENDS Bidding, TLC

CONSTANTS u1, u2, w1, w2

\* Whole cents: one cent and two, or three amounts.
TwoCents == {10, 20}
ThreeCents == {10, 20, 30}

NameSymmetry == Permutations(Bidders) \cup Permutations(Workers)
=============================================================================
