SPECIFICATION Spec
CONSTANTS
  Pages = {p1}
  Slots = {s1, s2}
  Touched = {"API_SECRET"}
  NewIds = {"c1", "c2"}
  MadeBefore <- MCMadeBefore
  Words <- MCWords
  Groupings <- MCGroupings
  Drafts <- MCDrafts
  Compiling = {"w1", "w2", "API_SECRET"}
  Samples <- MCSamples
  MaxClicks = 2
  None = None
INVARIANTS RulesStayUsable LoadingIsAwaited
PROPERTIES ImplementsEditors
CHECK_DEADLOCK FALSE
