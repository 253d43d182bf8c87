SPECIFICATION FairSpec
CONSTANTS
  Texts = {t1}
  Masked = Masked
  Empty = Empty
  Files = {f1}
  Paste = Paste
  MaxRuns = 3
  MaxEdits = 1
  MaxSteps = 3
  NoRun = NoRun
  Chips = {FALSE, TRUE}
INVARIANTS AuthorisedSend OneSendPerGesture NoReferenceToSentFile
PROPERTIES EveryInspectionEnds
CHECK_DEADLOCK FALSE
