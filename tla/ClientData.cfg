CONSTANTS
  MaxRequests <- MCMaxRequests
  MaxReplies <- MCMaxReplies
  Depth <- MCDepth
  InFlightBits <- MCInFlightBits
  NodeDataFound = TRUE
SPECIFICATION Spec
PROPERTY ImplementsReplyBuffer
INVARIANTS
  TypeOK
  InFlightCountsDrops
  QueueHoldsNewestReplies
  TakenInArrivalOrder
  NoLostWakeup
CHECK_DEADLOCK FALSE
