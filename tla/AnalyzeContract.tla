-------------------------- MODULE AnalyzeContract --------------------------
(***************************************************************************)
(* What one analyze request looks like on its way: the inputs the          *)
(* extension builds for a send attempt, the contract the API holds them    *)
(* to, the result it records for each input, and what the answer and the   *)
(* administrators' pages say of it.                                        *)
(*                                                                         *)
(* A text is "blank", "plain", "secret" (a rule matches it) or "oversized" *)
(* (more bytes than its source may have).  An attachment is the state of a *)
(* file the user attached: uploaded and then parsed with some outcome, too *)
(* large or of an unsupported type, or only a chip on the page.            *)
(***************************************************************************)
EXTENDS Naturals, Sequences, SequencesExt, FiniteSetsExt

CONSTANT None

TextStates == {"blank", "plain", "secret", "oversized"}
Uploads == {"parsed", "parsed_secret", "partial", "failed"}

\* over_count: there were too many files already.
Attempts ==
  [text : TextStates, paste : TextStates \cup {""},
   files : Seq(Uploads \cup {"too_large", "unsupported_type", "over_count", "chip"})]

(***************************************************************************)
(* The extension                                                           *)
(***************************************************************************)
Blank(content) == content \in {"", "blank"}

UnavailableTextInput(source, reason, limit) ==
  [kind |-> "text", source |-> source, included |-> FALSE, content |-> None, reason |-> reason, limit |-> limit]

LimitOf(source) == IF source = "composer" THEN "MAX_COMPOSER_TEXT_BYTES" ELSE "MAX_CONVERTED_PASTE_TEXT_BYTES"

TextInput(source, text) ==
  IF text = "oversized" THEN UnavailableTextInput(source, "oversized", LimitOf(source))
  ELSE [kind |-> "text", source |-> source, included |-> TRUE, content |-> text, reason |-> None, limit |-> None]

FileReferenceInput(file) ==
  [kind |-> "file_reference", source |-> "attached_file", included |-> FALSE, content |-> file,
   reason |-> None, limit |-> None]

AttachmentMetadataInput ==
  [kind |-> "attachment_metadata", source |-> "attachment_chip", included |-> FALSE, content |-> None,
   reason |-> None, limit |-> None]

UnsupportedAttachmentInput(reason) ==
  [kind |-> "unsupported_attachment", source |-> "attachment_chip", included |-> FALSE, content |-> None,
   reason |-> reason, limit |-> None]

\* A file that is refused because there are too many leaves no input at all.
MetadataOnlyInputs(file) ==
  CASE file = "too_large" -> <<UnsupportedAttachmentInput("oversized")>>
    [] file = "unsupported_type" -> <<UnsupportedAttachmentInput("unsupported")>>
    [] OTHER -> <<>>

AttachmentInputs(file) ==
  CASE file \in Uploads -> <<FileReferenceInput(file)>>
    [] file = "chip" -> <<AttachmentMetadataInput>>
    [] OTHER -> MetadataOnlyInputs(file)

\* A send attempt: the composer, the paste the page took out of it ("" if none),
\* and the attachments.
PromptInputs(attempt) ==
  LET attached == FlattenSeq([i \in DOMAIN attempt.files |-> AttachmentInputs(attempt.files[i])])
      composer == IF ~Blank(attempt.text) \/ attached = <<>> THEN <<TextInput("composer", attempt.text)>> ELSE <<>>
      paste == IF attempt.paste = "" THEN <<>> ELSE <<TextInput("converted_paste", attempt.paste)>>
  IN composer \o attached \o paste

Has(inputs, P(_)) == \E i \in DOMAIN inputs : P(inputs[i])

\* What handleAttempt sends rather than refuses.
SentByExtension(inputs) ==
  /\ Has(inputs, LAMBDA item : item.kind = "attachment_metadata") =>
       Has(inputs, LAMBDA item : item.kind \in {"file_reference", "unsupported_attachment"})
  /\ Has(inputs, LAMBDA item : item.kind # "text" \/ (item.included /\ item.content # ""))

(***************************************************************************)
(* The API                                                                 *)
(***************************************************************************)
Accepted(item) ==
  CASE item.kind = "text" /\ item.included ->
         ~Blank(item.content) /\ item.content # "oversized" /\ item.reason = None /\ item.limit = None
    [] item.kind = "text" /\ ~item.included ->
         item.content = None /\ item.reason # None /\ (item.reason = "oversized" => item.limit # None)
    [] item.kind = "file_reference" -> ~item.included
    [] item.kind = "attachment_metadata" -> ~item.included /\ item.content = None
    [] item.kind = "unsupported_attachment" -> ~item.included /\ item.content = None /\ item.reason # None

ParserResult(item) ==
  IF item.kind # "file_reference" THEN None
  ELSE IF item.content = "parsed_secret" THEN "parsed" ELSE item.content

\* The rule that matches, by the input it matches in: each has a type of its own.
MatchesOf(item) ==
  CASE item.kind = "text" /\ item.included /\ item.content = "secret" -> <<"TOKEN">>
    [] item.kind = "file_reference" /\ item.content = "parsed_secret" -> <<"TOKEN", "PHONE">>
    [] OTHER -> <<>>

CategoryOf(type) == IF type = "PHONE" THEN "PII" ELSE "Secret"

InputScanResult(item) ==
  LET found == IF MatchesOf(item) = <<>> THEN "no_detection" ELSE "detection" IN
  CASE ParserResult(item) = "parsed" -> [scanned |-> TRUE, basis |-> found]
    [] item.included -> [scanned |-> item.kind = "text", basis |-> found]
    [] item.kind = "attachment_metadata" -> [scanned |-> FALSE, basis |-> "metadata_only"]
    [] OTHER -> [scanned |-> FALSE, basis |-> "content_unavailable"]

\* The codes of what was not read that the policy weighs.
EvidenceCode(item) ==
  IF ParserResult(item) = "failed" THEN {"PARSER_OR_OCR_FAILED"}
  ELSE IF ParserResult(item) = "parsed" THEN {}
  ELSE IF item.kind = "unsupported_attachment" \/ item.reason = "unsupported" THEN {"UNSUPPORTED_FILE"}
  ELSE IF ~item.included THEN {"CONTENT_NOT_SCANNED"}
  ELSE {}

ContextDecisionBasis(result, riskConfirmed) ==
  IF riskConfirmed /\ result.basis = "no_detection" /\ result.scanned
    THEN [result EXCEPT !.basis = "context_risk"] ELSE result

ScoreForFinalAction(score, action) ==
  CASE action = "BLOCK" -> Max({score, 95})
    [] action = "WARN"  -> Max({score, 40})
    [] OTHER            -> score

RiskLevelForScore(score) ==
  IF score >= 90 THEN "critical" ELSE IF score >= 70 THEN "high" ELSE IF score >= 40 THEN "medium" ELSE "low"

\* What the answer says was not scanned.
ContentUnavailable(result) == ~result.scanned /\ result.basis \in {"content_unavailable", "metadata_only"}

\* What the event page says was not scanned.
IsContentUnavailable(result, reason) == ~result.scanned \/ result.basis = "content_unavailable" \/ reason # None
=============================================================================
