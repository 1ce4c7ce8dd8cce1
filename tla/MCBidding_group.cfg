CONSTANTS
  u1 = u1
  u2 = u2
  w1 = w1
  w2 = w2
  None = None
  Bidders = {u1, u2}
  Workers = {w1, w2}
  Admins = {c1, c2}
  Joiners = {}
  TxOutlivesSession = FALSE
  Amounts <- ThreeCents
  MaxStorable = 20
  MaxLog = 2
  MaxFaults = 2
SPECIFICATION SafeSpec
SYMMETRY NameSymmetry
INVARIANT IInv
INVARIANT HighestIsTopBid
INVARIANT BidsAscend
INVARIANT OneRowPerRequest
INVARIANT AtMostOneLateBid
INVARIANT AnnouncementStands
INVARIANT RejectedForCause
PROPERTY HighestNeverFalls
PROPERTY KeepsAscending
CHECK_DEADLOCK FALSE
