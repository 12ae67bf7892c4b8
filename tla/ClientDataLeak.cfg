CONSTANTS
  MaxRequests <- MCMaxRequests
  MaxReplies <- MCMaxReplies
  Depth <- MCDepth
  InFlightBits <- MCInFlightBits
  NodeDataFound = TRUE
SPECIFICATION FairSpec
PROPERTY EventuallyFreed
\* A leaked client stops with nothing left to do.
CHECK_DEADLOCK FALSE
