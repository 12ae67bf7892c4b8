CONSTANTS
  MaxRequests <- MCLegacyMaxRequests
  MaxReplies <- MCLegacyMaxReplies
  Depth <- MCLegacyDepth
SPECIFICATION Spec
PROPERTY ImplementsClientLifetime
INVARIANTS
  TypeOK
  NoCallbackAfterFree
  NoLostWakeup
CHECK_DEADLOCK FALSE
