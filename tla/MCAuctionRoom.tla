---------------------------- MODULE MCAuctionRoom ----------------------------
(***************************************************************************)
(* The instance of AuctionRoom for TLC.                                      *)
(***************************************************************************)
EXTENDS AuctionRoom

\* One cent and two.
TwoCents == {10, 20}
=============================================================================
