CONSTANTS
  u1 = u1
  u2 = u2
  w1 = w1
  w2 = w2
  None = None
  Bidders = {u1}
  Workers = {w1, w2}
  Admins = {c1}
  Joiners = {j1}
  TxOutlivesSession = FALSE
  Amounts <- ThreeCents
  MaxStorable = 20
  MaxLog = 2
  MaxFaults = 1
SPECIFICATION Spec
PROPERTY EveryBidAnswered
PROPERTY CloseIsAnnounced
PROPERTY CacheSettles
CHECK_DEADLOCK FALSE
