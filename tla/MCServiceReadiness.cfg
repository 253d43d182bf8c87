SPECIFICATION ReadinessSpec
CONSTANTS
  Checks = {c1}
  Jobs = {j1}
  ReadinessTimeout = 15
  AnalyzeTimeout = 30
  OcrTimeout = 60
  Settings <- MCSettings
  MaxChanges = 3
  None = None
INVARIANT AnswersAreHonest
CHECK_DEADLOCK FALSE
