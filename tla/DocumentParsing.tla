---------------------------- MODULE DocumentParsing ----------------------------
(***************************************************************************)
(* The pure part of the parsers under apps/api/app/parser: which plan a    *)
(* file kind gets (planning.py), what the adapters of the registry make    *)
(* of a document (native_text.py, code_text.py, pdf_foundation.py), which  *)
(* pages of a PDF go to OCR (pdf_coverage.py), and how the OCR results are *)
(* merged into one result (pdf_ocr_fake.py, image_ocr.py, executor.py).    *)
(*                                                                         *)
(* A document is what its bytes are: empty, text that decodes, other       *)
(* bytes, or a PDF with its pages.  Of a page we keep the bucket of its    *)
(* native text, the evidence of an image, and whether OCR would find text. *)
(***************************************************************************)
EXTENDS Integers, Sequences, FiniteSets, Functions

CONSTANT MaxOcrPages     \* max_ocr_pages of PdfNativeOcrAdapter

ASSUME MaxOcrPagesIsNatural == MaxOcrPages \in Nat

Kinds == {"plain_text", "image", "pdf", "office_document", "spreadsheet", "slide", "code", "unknown"}

Buckets == {"failed", "zero", "very_low", "low", "sufficient"}
Pages == [native : Buckets, image : {"present", "absent", "unknown"}, legible : BOOLEAN]
Documents == [format : {"empty", "text", "bytes", "encrypted", "pdf"}, pages : Seq(Pages)]

-------------------------------------------------------------------------------
(* Plans: the file kind decides the extraction requirement and the plan. *)

(* The step kinds of the adapters that build_parser_worker_pool registers. *)
Capabilities == {"native_text_extract", "code_parse", "pdf_native_text_extract", "pdf_native_ocr",
                 "image_ocr", "ocr_fallback"}

PLAN_STEPS == [native_text |-> <<"native_text_extract">>,
               pdf_native_ocr |-> <<"pdf_native_ocr">>,
               pdf_native_then_page_ocr |-> <<"pdf_native_text_extract", "pdf_coverage_evaluate",
                                              "render_ocr_candidate_pages", "ocr_primary",
                                              "ocr_fallback", "merge_blocks">>,
               pdf_native |-> <<"pdf_native_text_extract">>,
               image_ocr |-> <<"image_ocr", "ocr_fallback">>,
               office_parse |-> <<"office_parse">>,
               spreadsheet_parse |-> <<"spreadsheet_parse">>,
               slide_parse |-> <<"slide_parse">>,
               code_parse |-> <<"code_parse">>,
               metadata_only |-> << >>]

PlanOfKind == [plain_text |-> "native_text", pdf |-> "pdf_native_then_page_ocr", image |-> "image_ocr",
               office_document |-> "office_parse", spreadsheet |-> "spreadsheet_parse",
               slide |-> "slide_parse", code |-> "code_parse", unknown |-> "metadata_only"]

Runnable(plan) == Range(PLAN_STEPS[plan]) \subseteq Capabilities

(* _select_available_plan_kind: one combined step is preferred to the six single ones. *)
SelectPlan(kind) ==
  LET plan == PlanOfKind[kind]
  IN  CASE plan # "pdf_native_then_page_ocr" -> plan
        [] Runnable("pdf_native_ocr") -> "pdf_native_ocr"
        [] ~Runnable(plan) /\ Runnable("pdf_native") -> "pdf_native"
        [] OTHER -> plan

-------------------------------------------------------------------------------
(* Results: status, failure code, the pages whose text is in the document,  *)
(* and the OCR status that the analysis is told.                            *)

Failed(code) == [status |-> "failed", failure |-> code, document |-> FALSE, text |-> {}, ocr |-> "not_applicable"]
TimedOut == [Failed("PARSER_TIMEOUT") EXCEPT !.status = "timeout"]
Parsed(text, ocr) == [status |-> "parsed", failure |-> "none", document |-> TRUE, text |-> text, ocr |-> ocr]

(* A plan without steps ends "parsed" with no document: nothing was looked at. *)
Skipped == [Parsed({}, "not_applicable") EXCEPT !.document = FALSE]

(* NativeTextAdapter and CodeTextParserAdapter: utf-8 or nothing. *)
TextResult(doc) == CASE doc.format = "empty" -> Parsed({}, "not_applicable")
                     [] doc.format = "text" -> Parsed({1}, "not_applicable")
                     [] OTHER -> Failed("TEXT_DECODE_FAILED")

(* PdfParserFoundationAdapter: what is wrong with the whole document, if anything is. *)
PdfDefect(doc) == CASE doc.format \in {"text", "bytes"} -> "PDF_PARSE_FAILED"
                    [] doc.format = "encrypted" -> "PDF_ENCRYPTED"
                    [] OTHER -> "none"

(* _evaluate_page: too little native text for what the page may show. *)
Candidate(page) == \/ page.native \in {"failed", "zero", "very_low"}
                   \/ page.native = "low" /\ page.image # "absent"

PageNumbers(doc) == 1..Len(doc.pages)
NativeText(doc) == {n \in PageNumbers(doc) : doc.pages[n].native \in {"very_low", "low", "sufficient"}}
Candidates(doc) == {n \in PageNumbers(doc) : Candidate(doc.pages[n])}

(* evaluate: the first MaxOcrPages candidates are selected, the others skipped. *)
Selected(doc) == {n \in Candidates(doc) : Cardinality({m \in Candidates(doc) : m <= n}) <= MaxOcrPages}
Skips(doc) == Cardinality(Candidates(doc)) > MaxOcrPages

(* integrate, for one page after the other: seen is what OCR said of the    *)
(* pages so far, text the pages it found text on, and failure the first     *)
(* code that was recorded.                                                  *)
NoOcrYet(doc) == [seen |-> {}, text |-> {}, read |-> {},
                  failure |-> IF Skips(doc) THEN "OCR_PAGE_LIMIT_EXCEEDED" ELSE "none"]

FailureOf == [failed |-> "OCR_FAILED", timeout |-> "OCR_TIMEOUT", unrendered |-> "PDF_RENDER_FAILED",
              text_found |-> "none", no_text_detected |-> "none"]

(* Mutant: a page whose OCR timed out is passed over in silence. *)
AddPageIgnoringTimeout(ocr, n, said) ==
  [seen |-> ocr.seen \union {said},
   text |-> IF said = "text_found" THEN ocr.text \union {n} ELSE ocr.text,
   read |-> IF said \in {"text_found", "no_text_detected"} THEN ocr.read \union {n} ELSE ocr.read,
   failure |-> IF ocr.failure = "none" /\ said # "timeout" THEN FailureOf[said] ELSE ocr.failure]

AddPage(ocr, n, said) ==
  [seen |-> ocr.seen \union {said},
   text |-> IF said = "text_found" THEN ocr.text \union {n} ELSE ocr.text,
   read |-> IF said \in {"text_found", "no_text_detected"} THEN ocr.read \union {n} ELSE ocr.read,
   failure |-> IF ocr.failure = "none" THEN FailureOf[said] ELSE ocr.failure]

(* A timeout is not among the statuses that make the OCR of a PDF failed. *)
OcrStatus(doc, ocr) == CASE ocr.text # {} -> "text_found"
                         [] ocr.seen \intersect {"failed", "unrendered"} # {} -> "failed"
                         [] Selected(doc) # {} -> "no_text_detected"
                         [] OTHER -> "not_applicable"

(* The merged document: what native extraction itself had failed on is only *)
(* reported if the OCR of these pages failed too.                           *)
PdfResult(doc, ocr) ==
  [status |-> IF ocr.failure = "none" THEN "parsed" ELSE "partial",
   failure |-> ocr.failure, document |-> TRUE,
   text |-> NativeText(doc) \union ocr.text, ocr |-> OcrStatus(doc, ocr)]

(* ImageOcrAdapter: a step that failed, with a trigger no fallback rule has. *)
ImageResult(said) == CASE said = "text_found" -> Parsed({1}, said)
                       [] said = "no_text_detected" -> Parsed({}, said)
                       [] OTHER -> Failed(FailureOf[said])
===============================================================================
