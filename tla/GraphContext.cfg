CONSTANTS
  Tokens = {t1, t2}
  NoSample = NoSample
  MaxChanges <- MCMaxChanges
  MaxEntityIds <- MCMaxEntityIds
SPECIFICATION Spec
INVARIANT
  SubscribedTokensTracked
  GuardFreedOnlyWhenQuiescent
PROPERTY
  ImplementsGraphView
CHECK_DEADLOCK FALSE
