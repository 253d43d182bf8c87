--------------------------- MODULE PolicyDecision ---------------------------
(***************************************************************************)
(* The policy of the API: what PolicyOrchestrator.decide answers for the   *)
(* findings of one request, and how the answers of the context worker      *)
(* become one piece of evidence.  There is no state here.                  *)
(*                                                                         *)
(* A reason code is abstracted to the basis it names: a filter rule, a     *)
(* context risk, a failure setting, an empty request, or nothing.  The     *)
(* rules of a request are a set: their order in the code only decides ties *)
(* of action and severity, and there filter rules come before context      *)
(* labels, and those before failure settings.                              *)
(***************************************************************************)
EXTENDS Integers, FiniteSets

Actions == {"allow", "warn", "mask", "block"}

ActionPriority == [allow |-> 0, warn |-> 1, mask |-> 2, block |-> 3]

SeverityPriority == [info |-> 0, low |-> 1, medium |-> 2, high |-> 3, critical |-> 4]

Severities == DOMAIN SeverityPriority

Bases == {"filter", "context", "failure"}

Rule == [action: Actions, severity: Severities, maskable: BOOLEAN, basis: Bases]

Configurable == {"allow", "warn", "block"}

PolicyActionSettings ==
  [context_classifier_action: Configurable, content_not_scanned_action: Configurable,
   parser_or_ocr_failure_action: Configurable, empty_input_action: Configurable,
   unsupported_mask_fallback_action: {"warn", "block"}]

SeverityForAction(action) ==
  CASE action = "block" -> "high" [] action = "warn" -> "medium" [] OTHER -> "info"

ConfiguredRule(action) ==
  [action |-> action, severity |-> SeverityForAction(action), maskable |-> FALSE, basis |-> "failure"]

NotScanned(request) ==
  \/ \E input \in DOMAIN request.scanned : ~request.scanned[input]
  \/ request.codes \cap {"CONTENT_NOT_SCANNED", "UNSUPPORTED_FILE"} # {}

FailureRules(request) ==
  (IF "PARSER_OR_OCR_FAILED" \in request.codes
     THEN {ConfiguredRule(request.settings.parser_or_ocr_failure_action)} ELSE {})
    \cup (IF NotScanned(request)
            THEN {ConfiguredRule(request.settings.content_not_scanned_action)} ELSE {})

\* The key of Python's max(), which keeps the first of equal rules.
\* Mutant: the severity is compared before the action.
RankBySeverity(rule) == 4 * SeverityPriority[rule.severity] + ActionPriority[rule.action]

Rank(rule) ==
  15 * ActionPriority[rule.action] + 3 * SeverityPriority[rule.severity]
    + [filter |-> 2, context |-> 1, failure |-> 0][rule.basis]

HighestPriority(rules) == CHOOSE rule \in rules : \A other \in rules : Rank(other) <= Rank(rule)

ContextSignal(context) ==
  \/ context.status = "verified" /\ context.accepted > 0
  \/ context.status \in {"timeout", "failed"} /\ (context.candidates > 0 \/ context.accepted > 0)

ContextDecision(request) ==
  [action |-> request.settings.context_classifier_action, basis |-> "context"]

MlOrAllowDecision(request) ==
  CASE DOMAIN request.scanned = {} -> [action |-> request.settings.empty_input_action, basis |-> "empty"]
    [] DOMAIN request.scanned # {} /\ ContextSignal(request.context) -> ContextDecision(request)
    [] OTHER -> [action |-> "allow", basis |-> "none"]

MaskUnsupported(request) == \E rule \in request.rules : rule.action = "mask" /\ ~rule.maskable

\* Mutant: a rule that matched is final, also when it allows.
DecisionForMatchedRule(selected, request) ==
  [action |-> IF selected.action = "mask" /\ MaskUnsupported(request)
                THEN request.settings.unsupported_mask_fallback_action ELSE selected.action,
   basis |-> selected.basis]

DecisionForRule(selected, request) ==
  CASE selected.action = "mask" /\ MaskUnsupported(request) ->
         [action |-> request.settings.unsupported_mask_fallback_action, basis |-> selected.basis]
    [] selected.action = "allow" /\ ContextSignal(request.context) -> ContextDecision(request)
    [] OTHER -> [action |-> selected.action, basis |-> selected.basis]

Candidates(request) == request.rules \cup FailureRules(request)

Decide(request) ==
  IF Candidates(request) = {}
    THEN MlOrAllowDecision(request)
    ELSE DecisionForRule(HighestPriority(Candidates(request)), request)

(***************************************************************************)
(* Context evidence                                                        *)
(***************************************************************************)
\* What a worker says of one text.  A label names the rule of its risk.
Failures == {"timeout", "failed"}
WorkerAnswers(labels) ==
  [outcome: {"clear", "candidate"} \cup Failures, labels: {{}}]
    \cup [outcome: {"verified"}, labels: SUBSET labels \ {{}}]

\* AnalyzeTorchWorker.evaluate asks for the texts in order, up to the first failure.
AnswersTo(texts, labels) ==
  UNION {{answers \in [1 .. n -> WorkerAnswers(labels)] :
            /\ \A i \in 1 .. n - 1 : answers[i].outcome \notin Failures
            /\ n = texts \/ answers[n].outcome \in Failures} :
         n \in (IF texts = 0 THEN {0} ELSE 1 .. texts)}

ContextStatus(candidates, accepted) ==
  CASE accepted > 0 -> "verified"
    [] accepted = 0 /\ candidates > 0 -> "candidate"
    [] OTHER -> "no_candidate"

\* A failure's evidence has no counts and no labels.
ContextOfTexts(answers) ==
  LET With(outcomes) == {i \in DOMAIN answers : answers[i].outcome \in outcomes}
      candidates == Cardinality(With({"candidate", "verified"}))
      accepted == Cardinality(With({"verified"}))
  IN IF With(Failures) # {}
       THEN [evidence |-> [status |-> answers[CHOOSE i \in With(Failures) : TRUE].outcome,
                           candidates |-> 0, accepted |-> 0],
             labels |-> {}]
       ELSE [evidence |-> [status |-> ContextStatus(candidates, accepted),
                           candidates |-> candidates, accepted |-> accepted],
             labels |-> UNION {answers[i].labels : i \in DOMAIN answers}]
=============================================================================
