SPECIFICATION Spec
CONSTANTS
  BuiltIn = {"email", "phone", "token", "payroll"}
  Custom = {}
  Settings = "settings"
  Seeded = {"email"}
  Default <- MCDefault
  Made <- MCMade
  Patches <- MCSilencing
  Edits = {e1}
  NoRow = NoRow
  NoEdit = NoEdit
  Requests = {r1}
  KeyOf <- MCKeyOf
  Payload <- MCPayload
  Kind <- MCKind
  Contents <- MCCleanContents
  Labels = {"payroll"}
  SpanLess = {}
  ClassifierEnabled = TRUE
  None = None
INVARIANT DisabledRulesAreSilent
CHECK_DEADLOCK FALSE
