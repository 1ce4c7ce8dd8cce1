---------------------------- MODULE MCBidThrottle ----------------------------
(***************************************************************************)
(* Instances of BidThrottle for TLC.  The bids are interchangeable.         *)
(***************************************************************************)
EXTENDS BidThrottle, TLC

CONSTANTS b1, b2, b3, b4

BidSymmetry == Permutations(Bids)
=============================================================================
