CONSTANTS
  b1 = b1
  b2 = b2
  b3 = b3
  None = None
  Bids = {b1, b3}
  AuctionOf <- TwoAuctions
  PartitionCount = 2
  RejectionKeys = {}
  MaxRejections = 0
  MaxFaults = 0
SPECIFICATION Spec
PROPERTY EveryAuctionTakesBids
CHECK_DEADLOCK FALSE
