---------------------------- MODULE MCBidPipeline ----------------------------
(***************************************************************************)
(* Instances of BidPipeline for TLC.                                         *)
(***************************************************************************)
EXTENDS BidPipeline

CONSTANTS b1, b2, b3

\* Bids of auction 1, and b3 of auction 2.
TwoAuctions == [b \in Bids |-> IF b = b3 THEN 2 ELSE 1]
=============================================================================
