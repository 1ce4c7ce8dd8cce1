CONSTANTS
  u1 = u1
  u2 = u2
  w1 = w1
  w2 = w2
  None = None
  Bidders = {u1, u2}
  Workers = {w1}
  Admins = {}
  Joiners = {}
  TxOutlivesSession = FALSE
  Amounts <- TwoCents
  MaxStorable = 99
  MaxLog = 2
  MaxFaults = 1
SPECIFICATION SafeSpec
INVARIANT NoRejectionOfAcceptedBid
CHECK_DEADLOCK FALSE
