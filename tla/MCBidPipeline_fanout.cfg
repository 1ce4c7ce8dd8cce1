CONSTANTS
  b1 = b1
  b2 = b2
  b3 = b3
  None = None
  Bids = {b1, b2, b3}
  AuctionOf <- TwoAuctions
  PartitionCount = 2
  RejectionKeys = {"auction_not_found"}
  MaxRejections = 1
  MaxFaults = 1
SPECIFICATION Spec
INVARIANT TypeOK
INVARIANT RecordsAreOfQueuedBids
INVARIANT RefusedIsNotQueued
PROPERTY EveryBidQueuedOrAnswered
PROPERTY RefusalReachesSocket
CHECK_DEADLOCK FALSE
