--------------------------- MODULE AnalyzeRequest ---------------------------
(***************************************************************************)
(* POST /prompts/analyze beside the administrators of FilterRules.         *)
(*                                                                         *)
(* analyze_prompt awaits four times: it looks the idempotency key up,      *)
(* loads the rules, reads the policy settings and commits.  What it does   *)
(* between two awaits runs in one piece, parsers and context worker        *)
(* included, since they block the event loop.  An input is matched by the  *)
(* rules in "hits" of it.  Scores, placeholders and the columns of an      *)
(* event that copy the request are left out.                               *)
(***************************************************************************)
EXTENDS FilterRules, Sequences

CONSTANTS
  Requests,
  KeyOf,        \* [Requests -> the (login_id, client_request_id) of the request]
  Payload,      \* [Requests -> sequence of input ids]
  Kind,         \* [inputs -> "composer", "converted_paste", "file_reference" or "unavailable"]
  Contents,     \* what the inputs may hold: for each input the rules that match it
  Labels,       \* the built-in rules that stand for labels of the context model
  SpanLess,     \* the rules of kind context_rule, which match without spans
  ClassifierEnabled,
  None

Inputs == DOMAIN Kind
InputsOf(r) == {Payload[r][i] : i \in DOMAIN Payload[r]}
Files(r) == {i \in InputsOf(r) : Kind[i] = "file_reference"}
IncludedTexts(r) == {i \in InputsOf(r) : Kind[i] \in {"composer", "converted_paste"}}
TextsOf(r) == SelectSeq(Payload[r], LAMBDA i : i \in IncludedTexts(r))

ASSUME AnalyzeAssumption ==
  /\ Labels \subseteq BuiltIn /\ SpanLess \subseteq RuleIds
  /\ \A r \in Requests : Payload[r] \in Seq(Inputs) \ {<<>>}
  /\ \A q, r \in Requests : KeyOf[q] = KeyOf[r] => Payload[q] = Payload[r]
  /\ Contents \subseteq [Inputs -> SUBSET (RuleIds \ Labels)]
  /\ ClassifierEnabled \in BOOLEAN

VARIABLES
  hits,         \* [Inputs -> rules that match the content]
  pc,
  found,        \* what the request gathered before it decided
  decided,      \* settings it read, action, basis and what its mask replaces
  answer,       \* the action of the response
  events        \* committed events with their idempotency keys

vars == <<rows, edit, hits, pc, found, decided, answer, events>>
requestVars == <<hits, pc, found, decided, answer, events>>

Init ==
  /\ AdminInit
  /\ hits \in Contents
  /\ pc = [r \in Requests |-> "received"]
  /\ found = [r \in Requests |-> None]
  /\ decided = [r \in Requests |-> None]
  /\ answer = [r \in Requests |-> None]
  /\ events = {}

Step(r, from, to) == pc[r] = from /\ pc' = [pc EXCEPT ![r] = to]

KeyTaken(r) == \E event \in events : event.key = KeyOf[r]

CheckKey(r) ==
  /\ IF KeyTaken(r) THEN Step(r, "received", "duplicate") ELSE Step(r, "received", "new")
  /\ UNCHANGED <<rows, edit, hits, found, decided, answer, events>>

(***************************************************************************)
(* Load the rules, match texts, parse files, match what was parsed, ask    *)
(* the context worker.                                                     *)
(***************************************************************************)
\* A document parsed in part is neither scanned nor failed.
ParserOutcomes == {"parsed", "partial", "failed"}

Scanned(parsed, i) == Kind[i] \in {"composer", "converted_paste"} \/ (i \in DOMAIN parsed /\ parsed[i] = "parsed")

Matches(r, active, parsed) ==
  {m \in [input: InputsOf(r), rule: DOMAIN active] :
     m.rule \in hits[m.input] /\ Scanned(parsed, m.input)}

CodeOf(parsed, i) ==
  CASE i \in DOMAIN parsed /\ parsed[i] = "failed" -> {"PARSER_OR_OCR_FAILED"}
    [] Scanned(parsed, i) -> {}
    [] OTHER -> {"CONTENT_NOT_SCANNED"}

\* What the context worker says of the texts.
Answers(r) == IF ClassifierEnabled THEN AnswersTo(Len(TextsOf(r)), Labels) ELSE {<<>>}

Disabled == [evidence |-> [status |-> "disabled", candidates |-> 0, accepted |-> 0], labels |-> {}]

Inspect(r) ==
  /\ Step(r, "new", "inspected")
  /\ \E parsed \in [Files(r) -> ParserOutcomes], answers \in Answers(r) :
       found' = [found EXCEPT ![r] =
         [active  |-> ActiveRules,
          matches |-> Matches(r, ActiveRules, parsed),
          scanned |-> [i \in InputsOf(r) |-> Scanned(parsed, i)],
          codes   |-> UNION {CodeOf(parsed, i) : i \in InputsOf(r)},
          answers |-> answers,
          context |-> IF ClassifierEnabled THEN ContextOfTexts(answers) ELSE Disabled]]
  /\ UNCHANGED <<rows, edit, hits, decided, answer, events>>

\* Mutant: whatever has text is taken to be maskable.
MatchRuleMaskable(active, m) ==
  [action |-> active[m.rule].action, severity |-> active[m.rule].severity,
   maskable |-> Kind[m.input] # "unavailable", basis |-> "filter"]

(***************************************************************************)
(* Read the settings and decide.                                           *)
(***************************************************************************)
MatchRule(active, m) ==
  [action |-> active[m.rule].action, severity |-> active[m.rule].severity,
   maskable |-> Kind[m.input] = "composer", basis |-> "filter"]

\* A label decides through the rule of its name; it cannot mask.
LabelRules(f) ==
  IF f.context.evidence.status \notin {"verified", "candidate"} THEN {}
  ELSE {[action |-> IF f.active[l].action = "mask" THEN "block" ELSE f.active[l].action,
         severity |-> f.active[l].severity, maskable |-> FALSE, basis |-> "context"] :
          l \in f.context.labels \cap DOMAIN f.active}

PolicyRequest(f, settings) ==
  [rules |-> {MatchRule(f.active, m) : m \in f.matches} \cup LabelRules(f),
   scanned |-> f.scanned, codes |-> f.codes, context |-> f.context.evidence, settings |-> settings]

\* Spans to replace: those of MASK rules in the first composer text that matched.
MaskingMatches(r, f) ==
  LET matched == {i \in DOMAIN Payload[r] : /\ Kind[Payload[r][i]] = "composer"
                                            /\ \E m \in f.matches : m.input = Payload[r][i]}
  IN {m \in f.matches :
        /\ \E i \in matched : m.input = Payload[r][i] /\ \A j \in matched : i <= j
        /\ f.active[m.rule].action = "mask" /\ m.rule \notin SpanLess}

ReadSettingsAndDecide(r) ==
  /\ Step(r, "inspected", "decided")
  /\ LET decision == Decide(PolicyRequest(found[r], ActionSettings))
     IN decided' = [decided EXCEPT ![r] =
          [settings |-> ActionSettings, action |-> decision.action, basis |-> decision.basis,
           masked |-> IF decision.action = "mask" THEN MaskingMatches(r, found[r]) ELSE {}]]
  /\ UNCHANGED <<rows, edit, hits, found, answer, events>>

(***************************************************************************)
(* Event and idempotency key in one transaction, then the answer.          *)
(***************************************************************************)
Event(r, action) == [key |-> KeyOf[r], by |-> r, action |-> action]

\* Mutant: nothing refuses a second row of the key.
WriteUnchecked(r) == events' = events \cup {Event(r, decided[r].action)}

Write(r) ==
  IF KeyTaken(r) THEN events' = events ELSE events' = events \cup {Event(r, decided[r].action)}

Return(r, to) ==
  /\ Step(r, "decided", to)
  /\ found' = [found EXCEPT ![r] = None]
  /\ decided' = [decided EXCEPT ![r] = None]
  /\ UNCHANGED <<rows, edit, hits>>

CommitAndAnswer(r) ==
  /\ IF KeyTaken(r)
       THEN Return(r, "duplicate") /\ UNCHANGED answer
       ELSE Return(r, "answered") /\ answer' = [answer EXCEPT ![r] = decided[r].action]
  /\ Write(r)

\* A statement fails, or the server stops: the client learns nothing.  What a
\* commit wrote stays when only its acknowledgement is lost.
Fail(r) ==
  /\ pc[r] \in {"received", "new", "inspected", "decided"}
  /\ pc' = [pc EXCEPT ![r] = "failed"]
  /\ found' = [found EXCEPT ![r] = None]
  /\ decided' = [decided EXCEPT ![r] = None]
  /\ events' = events \/ (pc[r] = "decided" /\ Write(r))
  /\ UNCHANGED <<rows, edit, hits, answer>>

Next ==
  \/ AdminNext /\ UNCHANGED requestVars
  \/ \E r \in Requests : CheckKey(r) \/ Inspect(r) \/ ReadSettingsAndDecide(r) \/ CommitAndAnswer(r) \/ Fail(r)

Spec == Init /\ [][Next]_vars

(***************************************************************************)
(* Properties                                                              *)
(***************************************************************************)
TypeOK ==
  /\ pc \in [Requests -> {"received", "new", "inspected", "decided", "answered", "duplicate", "failed"}]
  /\ \A r \in Requests : decided[r] = None \/ decided[r].action \in Actions
  /\ events \subseteq [key: {KeyOf[r] : r \in Requests}, by: Requests, action: Actions]

\* Requests with one key store one event, whatever the order of their look-ups
\* and commits, and only the request that stored it gets an answer, which is the
\* action that is stored; the others were told to retry.
OneEventPerKey ==
  /\ \A a, b \in events : a.key = b.key => a = b
  /\ \A r \in Requests :
       /\ pc[r] = "answered" => Event(r, answer[r]) \in events
       /\ pc[r] = "duplicate" => \E event \in events : event.key = KeyOf[r] /\ event.by # r

HasDecided(r) == decided[r] # None

AtLeast(action, floor) == ActionPriority[floor] <= ActionPriority[action]

\* No finding is overruled by a weaker one: the action is at least what each
\* matching rule, and each failure setting that applies, asks for.  The only way
\* down is from a mask that cannot be applied to its configured fallback.
NoFindingOverruled ==
  \A r \in Requests : HasDecided(r) =>
    LET f == found[r]
        action == decided[r].action
        settings == decided[r].settings
        Demand(m) == f.active[m.rule].action
        outsideComposer == \E m \in f.matches : Demand(m) = "mask" /\ Kind[m.input] # "composer"
    IN /\ \A m \in f.matches :
            \/ AtLeast(action, Demand(m))
            \/ Demand(m) = "mask" /\ outsideComposer
               /\ action = settings.unsupported_mask_fallback_action
       /\ (\E i \in DOMAIN f.scanned : ~f.scanned[i]) =>
            AtLeast(action, settings.content_not_scanned_action)
       /\ "PARSER_OR_OCR_FAILED" \in f.codes =>
            AtLeast(action, settings.parser_or_ocr_failure_action)

\* A risk that the verifier confirmed is not sent without a word, whatever rules
\* with the action allow match beside it or stand for its label, unless the
\* settings say so.
ConfirmedRiskIsNotAllowed ==
  \A r \in Requests : HasDecided(r) =>
    \/ decided[r].action # "allow"
    \/ decided[r].settings.context_classifier_action = "allow"
    \/ \A i \in DOMAIN found[r].answers : found[r].answers[i].outcome # "verified"
    \/ \E i \in DOMAIN found[r].answers : found[r].answers[i].outcome \in Failures

\* The answer is Mask only if everything to be masked is text of the composer:
\* nothing from a paste or a file hides behind a masked prompt.  What has spans
\* is replaced.
MaskCoversAllFindings ==
  \A r \in Requests : HasDecided(r) /\ decided[r].action = "mask" =>
    \A m \in found[r].matches : found[r].active[m.rule].action = "mask" =>
      Kind[m.input] = "composer" /\ (m.rule \in SpanLess \/ m \in decided[r].masked)

\* Contract: a timeout or failure of the context worker is not a reason to allow.
FailureIsNotAllowReason ==
  \A r \in Requests : HasDecided(r) =>
    \/ found[r].context.evidence.status \notin {"timeout", "failed"}
    \/ decided[r].settings.context_classifier_action = "allow"
    \/ decided[r].action # "allow"
=============================================================================
