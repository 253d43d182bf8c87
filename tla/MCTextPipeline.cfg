SPECIFICATION PipelineSpec
CONSTANTS
  a = a
  d = d
  dash = dash
  blank = blank
  line = line
  dot = dot
  fence = fence
  bar = bar
  comma = comma
  card = card
  account = account
  header = header
  name = name
  topic = topic
  NoRange = NoRange
  None = None
  Specials <- MCSpecials
  Blanks <- MCBlanks
  MinimumRepeat = 2
  Words <- MCWords
  Kind <- MCKind
  Key <- MCKey
  YieldsTo <- MCYieldsTo
  MinConditions <- MCMinConditions
  Newline = line
  Sentences = {dot}
  Fences = {fence}
  Bar = bar
  Comma = comma
  MaxAtomChars = 4
  MinAtoms = 1
  TargetChars = 4
  MaxChars = 6
  BreakThreshold = 1
  Cases <- MCCases
  Settings <- MCSettings
  BatchSize = 2
  Bad = Bad
  Full = 1
  w = w
  x = x
  y = y
  LexicalRules = {header, name}
  Enabled = {card, account, header, name, topic}
  Masking = {card, account, header, name}
  Similarities = {0, 1}
INVARIANTS SignalsCoverTheirMatch FindingsMasked NothingIsLost ClearMeansClassified LoadedFitsTogether
CHECK_DEADLOCK FALSE
