SPECIFICATION Spec
CONSTANTS
  BuiltIn = {"email", "phone", "token", "payroll"}
  Custom = {"keyword"}
  Settings = "settings"
  Seeded = {"email"}
  Default <- MCDefault
  Made <- MCMade
  Patches <- MCPatches
  Edits = {e1}
  NoRow = NoRow
  NoEdit = NoEdit
  Requests = {r1, r2}
  KeyOf <- MCKeyOf
  Payload <- MCPayload
  Kind <- MCKind
  Contents <- MCContents
  Labels = {"payroll"}
  SpanLess = {}
  ClassifierEnabled = TRUE
  None = None
SYMMETRY Symmetry
INVARIANTS OneEventPerKey NoFindingOverruled ConfirmedRiskIsNotAllowed MaskCoversAllFindings
CHECK_DEADLOCK FALSE
