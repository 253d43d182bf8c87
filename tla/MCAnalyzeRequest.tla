-------------------------- MODULE MCAnalyzeRequest --------------------------
EXTENDS AnalyzeRequest, TLC

Symmetry == Permutations(Requests)

Row(action, severity) == [action |-> action, severity |-> severity, enabled |-> TRUE, archived |-> FALSE]

DefaultSettings ==
  [context_classifier_action |-> "warn", content_not_scanned_action |-> "warn",
   parser_or_ocr_failure_action |-> "block", empty_input_action |-> "allow",
   unsupported_mask_fallback_action |-> "block"]

MCDefault ==
  [email    |-> Row("mask", "medium"),
   phone    |-> Row("allow", "high"),
   token    |-> Row("block", "low"),
   payroll  |-> Row("warn", "high"),
   keyword  |-> Row("warn", "low"),
   settings |-> DefaultSettings]

MCMade == {Row("warn", "low")}

\* An administrator relaxes a label rule and the settings, and makes and
\* archives a rule of his own.
MCPatches ==
  [id \in DOMAIN MCDefault |->
     CASE id = "payroll" -> {[action |-> "allow"]}
       [] id = "settings" -> {[content_not_scanned_action |-> "allow", unsupported_mask_fallback_action |-> "warn"]}
       [] OTHER -> {}]

\* An administrator switches a built-in rule off.
MCSilencing == [id \in DOMAIN MCDefault |-> IF id = "token" THEN {[enabled |-> FALSE]} ELSE {}]

\* A maskable prompt with a blocked match in the file; an allowed match in the
\* prompt with something to mask in the file.
MCContents ==
  {[prompt |-> {"email"}, paste |-> {}, file |-> {"token"}],
   [prompt |-> {"phone"}, paste |-> {}, file |-> {"email"}]}

\* Nothing matches.
MCCleanContents == {[i \in {"prompt", "paste", "file"} |-> {}]}

MCKind == [prompt |-> "composer", paste |-> "converted_paste", file |-> "file_reference"]
MCKeyOf == [r \in Requests |-> "key"]
MCPayload == [r \in Requests |-> <<"prompt", "file">>]
=============================================================================
