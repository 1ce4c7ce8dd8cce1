-------------------------- MODULE AscendingAuction --------------------------
(***************************************************************************)
(* What one auction promises to its bidders: an open-outcry auction.  While *)
(* it is open a bid is accepted only when it beats the highest one, and     *)
(* closing is final.  The program keeps this promise up to one bid: the     *)
(* transaction of a bid that was judged while the auction was open may       *)
(* commit after the close.  MaxLate is the number of such bids.             *)
(***************************************************************************)
EXTENDS Integers

CONSTANTS
  Bidders,   \* the users who bid
  Amounts,   \* what a bid row may hold
  None,      \* no winner
  MaxLate    \* accepted bids that may land after the close

VARIABLES
  isOpen,    \* bids are judged as those of an open auction
  highest,   \* the current highest bid, 0 when there is none
  winner,    \* who placed it
  late       \* bids accepted after the close

vars == <<isOpen, highest, winner, late>>

Init ==
  /\ isOpen = TRUE
  /\ highest = 0
  /\ winner = None
  /\ late = 0

\* A bid above the highest one takes its place.
Beat(user, amount) ==
  /\ amount > highest
  /\ highest' = amount
  /\ winner' = user

Accept(user, amount) ==
  /\ isOpen
  /\ Beat(user, amount)
  /\ UNCHANGED <<isOpen, late>>

AcceptLate(user, amount) ==
  /\ ~isOpen
  /\ late < MaxLate
  /\ Beat(user, amount)
  /\ late' = late + 1
  /\ UNCHANGED isOpen

Close ==
  /\ isOpen
  /\ isOpen' = FALSE
  /\ UNCHANGED <<highest, winner, late>>

Next ==
  \/ \E user \in Bidders, amount \in Amounts :
       Accept(user, amount) \/ AcceptLate(user, amount)
  \/ Close

Spec == Init /\ [][Next]_vars
=============================================================================
