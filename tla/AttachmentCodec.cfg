CONSTANTS
  Base = 8
  IntBytes = 2
  GidLen = 2
  SeqKey <- MCSeqKey
  TsKey <- MCTsKey
  GidKey <- MCGidKey
  Attachments <- MCAttachments
  NoValue = NoValue
SPECIFICATION Spec
INVARIANTS
  RoundTrip
  DecodeSound
\* The decoder stops once it has returned or thrown.
CHECK_DEADLOCK FALSE
