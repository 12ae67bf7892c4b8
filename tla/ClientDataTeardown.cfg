CONSTANTS
  MaxRequests <- MCMaxRequests
  MaxReplies <- MCMaxReplies
  Depth <- MCDepth
  InFlightBits <- MCInFlightBits
  NodeDataFound = TRUE
SPECIFICATION Spec
INVARIANT NoCallbackAfterFree
CHECK_DEADLOCK FALSE
