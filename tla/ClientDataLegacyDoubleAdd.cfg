CONSTANTS
  MaxRequests <- MCLegacyMaxRequests
  MaxReplies <- MCLegacyMaxReplies
  Depth <- MCLegacyDepth
SPECIFICATION Spec
INVARIANT EachReplyQueuedOnce
CHECK_DEADLOCK FALSE
