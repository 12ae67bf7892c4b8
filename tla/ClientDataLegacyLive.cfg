CONSTANTS
  MaxRequests <- MCLegacyMaxRequests
  MaxReplies <- MCLegacyMaxReplies
  Depth <- MCLegacyDepth
SPECIFICATION FairSpec
PROPERTY
  EventuallyFreed
\* Once the record is freed and the queries are over, nothing is left to do.
CHECK_DEADLOCK FALSE
