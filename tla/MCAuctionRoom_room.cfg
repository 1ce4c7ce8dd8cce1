CONSTANTS
  None = None
  Bidders = {u1}
  Workers = {w1}
  Admins = {c1}
  Joiners = {j1}
  TxOutlivesSession = FALSE
  Amounts <- TwoCents
  MaxStorable = 99
  MaxLog = 2
  MaxFaults = 1
SPECIFICATION RoomSpec
INVARIANT TypeOK
INVARIANT CacheShowsARow
INVARIANT RoomShowsTheRow
PROPERTY NewBidsAscend
PROPERTY ShownBidRecovers
PROPERTY RoomIsToldOfTheEnd
CHECK_DEADLOCK FALSE
