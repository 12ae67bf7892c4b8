CONSTANTS
  Tokens = {t1, t2}
  NoSample = NoSample
  MaxChanges <- MCMaxChanges
  MaxEntityIds <- MCMaxEntityIds
SPECIFICATION Spec
INVARIANT
  NoHandlerAfterDestroy
CHECK_DEADLOCK FALSE
