-------------------------- MODULE FileInspectionProofs --------------------------
(***************************************************************************)
(* FileInspection for any number of files, users, requests and pages.      *)
(*                                                                         *)
(* Two facts carry the proofs.  What is stored under a reference is never  *)
(* replaced by something else, only removed, so that a check a job has     *)
(* passed stays true of the content it reads later.  And the pages that a  *)
(* job has read, together with those still to do, are all that needed OCR, *)
(* unless a failure has been recorded.                                     *)
(***************************************************************************)
EXTENDS FileInspection, FiniteSetTheorems, TLAPS

LEMMA Constants ==
  /\ MaxRequests \in Nat /\ MaxItems \in Nat /\ MaxOcrPages \in Nat /\ NoFile \notin Files
  /\ Uploads \subseteq [owner : Users, kind : Kinds, doc : Documents]
  /\ \A items \in ItemLists : items \in Seq(Items) /\ Len(items) <= MaxItems
BY FileConstants, MaxOcrPagesIsNatural

-------------------------------------------------------------------------------
(* The types, and the invariant. *)

Statuses == {"parsed", "partial", "failed", "timeout"}
Codes == {"none", "PARSER_LIMIT_EXCEEDED", "PARSER_TIMEOUT", "PARSER_WORKER_FAILED",
          "TEMP_FILE_NOT_FOUND", "TEMP_FILE_OWNER_MISMATCH", "TEMP_FILE_SCOPE_MISMATCH", "TEMP_FILE_EXPIRED",
          "UNSUPPORTED_FILE_KIND", "TEXT_DECODE_FAILED", "PDF_PARSE_FAILED", "PDF_ENCRYPTED",
          "PDF_RENDER_FAILED", "OCR_FAILED", "OCR_TIMEOUT", "OCR_PAGE_LIMIT_EXCEEDED"}
OcrStatuses == {"not_applicable", "text_found", "failed", "no_text_detected"}
Told == {"failed", "timeout", "unrendered", "text_found", "no_text_detected"}

Result == [status : Statuses, failure : Codes, document : BOOLEAN, text : SUBSET Nat, ocr : OcrStatuses]
OcrSoFar == [seen : SUBSET Told, text : SUBSET Nat, read : SUBSET Nat, failure : Codes]

Stages == {"none", "queued", "validate", "read", "write", "render", "ocr", "finished", "cancelled", "dead"}
JobState == [stage : Stages, user : Users \cup {"none"}, item : Items \cup {NoItem},
             image : {"none", "disk", "memory"}, doc : Documents, todo : SUBSET Nat,
             ocr : OcrSoFar, result : Result]
FileState == [owner : Users \cup {"none"}, kind : Kinds \cup {"none"}, doc : Documents,
              blob : BOOLEAN, manifest : BOOLEAN, expired : BOOLEAN]
Uploading == [op : {"upload"}, ref : Files]
Analyzing == [op : {"analyze"}, user : Users, items : ItemLists, told : Seq(Result)]

TypeOK == /\ file \in [Files -> FileState]
          /\ sweep \in Files \cup {NoFile}
          /\ loop \in {Idle} \cup Uploading \cup Analyzing
          /\ requests \in 0 .. MaxRequests
          /\ job \in [JobIds -> JobState]

(* What is stored stays what it is: its owner, kind and content are never  *)
(* written again.                                                          *)
Stored(f) == file[f].blob \/ file[f].expired

FilesInOrder ==
  /\ LiveFileIsWhole
  /\ loop.op = "upload" => file[loop.ref].blob /\ ~file[loop.ref].manifest

(* The job may see the file: it was checked while the file was stored.     *)
Granted(j) == LET f == file[j.item.ref]
              IN  /\ j.item.ref \in Files /\ Stored(j.item.ref)
                  /\ f.owner = j.user /\ j.item.claim

ReadPdfWhole(j) == j.stage = "finished" /\ j.result.status = "parsed" /\ j.item.kind = "pdf"

SeesContent(j) == \/ j.stage \in {"read", "write", "render", "ocr"}
                  \/ j.stage = "finished" /\ j.result.document
                  \/ ReadPdfWhole(j)
Entitled(j) == SeesContent(j) => Granted(j)

(* Pages of a PDF are under way; as long as nothing failed, every candidate *)
(* has been read or is still to do.                                        *)
OnPages(j) == j.stage = "render" \/ (j.stage = "ocr" /\ j.image = "memory")
Looked(j) ==
  /\ OnPages(j) =>
       /\ j.doc = file[j.item.ref].doc
       /\ j.todo # {}
       /\ j.ocr.failure = "none" => Candidates(j.doc) \subseteq j.ocr.read \cup j.todo
  /\ j.stage = "write" => j.image = "disk" /\ j.item.kind = "image"
  /\ j.stage = "ocr" /\ j.image = "disk" => j.item.kind = "image"
  /\ LET doc == file[j.item.ref].doc
     IN  ReadPdfWhole(j) => PageNumbers(doc) \subseteq NativeText(doc) \cup j.ocr.read

Tidy(j) == \/ j.image = "none"
           \/ j.stage \in {"write", "ocr"}
           \/ j.image = "disk" /\ j.stage = "dead"
           \/ j.image = "disk" /\ j.stage = "finished" /\ ~j.result.document

(* Every job is for an item, those of the request under way for its items. *)
Belongs(id, j) ==
  /\ id[1] > requests => j.stage = "none"
  /\ j.stage \notin {"none", "dead"} => j.item \in Items
  /\ loop.op = "analyze" /\ id[1] = requests /\ j.stage \notin {"none", "dead"} =>
       j.user = loop.user /\ id[2] \in 1 .. Len(loop.items) /\ j.item = loop.items[id[2]]

JobInOrder(id, j) == Entitled(j) /\ Looked(j) /\ Tidy(j) /\ Belongs(id, j)
JobsInOrder == \A id \in JobIds : JobInOrder(id, job[id])

ToldInOrder == loop.op = "analyze" => requests > 0 /\ Len(loop.told) <= Len(loop.items)

Ind == TypeOK /\ FilesInOrder /\ JobsInOrder /\ ToldInOrder /\ OwnContentOnly

-------------------------------------------------------------------------------
(* What the parsers make of a document. *)

LEMMA PageSets ==
  ASSUME NEW doc \in Documents
  PROVE  /\ PageNumbers(doc) \subseteq Nat /\ IsFiniteSet(Candidates(doc))
         /\ Candidates(doc) \subseteq PageNumbers(doc) /\ Selected(doc) \subseteq Candidates(doc)
         /\ NativeText(doc) \subseteq PageNumbers(doc)
<1>1. Len(doc.pages) \in Nat
  BY DEF Documents
<1>2. PageNumbers(doc) \subseteq Nat /\ IsFiniteSet(PageNumbers(doc))
  BY <1>1, FS_Interval DEF PageNumbers
<1>3. /\ Candidates(doc) \subseteq PageNumbers(doc) /\ Selected(doc) \subseteq Candidates(doc)
      /\ NativeText(doc) \subseteq PageNumbers(doc)
  BY DEF Candidates, Selected, NativeText
<1> QED
  BY <1>2, <1>3, FS_Subset

(* Below the limit every candidate is selected. *)
LEMMA AllSelected ==
  ASSUME NEW doc \in Documents, ~Skips(doc)
  PROVE  Selected(doc) = Candidates(doc)
<1> SUFFICES ASSUME NEW n \in Candidates(doc)
             PROVE  Cardinality({m \in Candidates(doc) : m <= n}) <= MaxOcrPages
  BY DEF Selected
<1> DEFINE before == {m \in Candidates(doc) : m <= n}
<1>1. IsFiniteSet(Candidates(doc)) /\ before \subseteq Candidates(doc)
  BY PageSets
<1>2. /\ Cardinality(before) \in Nat /\ Cardinality(Candidates(doc)) \in Nat
      /\ Cardinality(before) <= Cardinality(Candidates(doc))
  BY <1>1, FS_Subset, FS_CardinalityType
<1> HIDE DEF before
<1>3. Cardinality(before) <= MaxOcrPages
  BY <1>2, Constants DEF Skips
<1> QED
  BY <1>3 DEF before

(* A page without native text is a candidate. *)
LEMMA TextOrCandidate ==
  ASSUME NEW doc \in Documents
  PROVE  PageNumbers(doc) \subseteq NativeText(doc) \cup Candidates(doc)
<1> SUFFICES ASSUME NEW n \in PageNumbers(doc) PROVE n \in NativeText(doc) \cup Candidates(doc)
  OBVIOUS
<1>1. doc.pages[n] \in Pages
  BY DEF Documents, PageNumbers
<1>2. doc.pages[n].native \in Buckets
  BY <1>1 DEF Pages
<1> QED
  BY <1>2 DEF Buckets, NativeText, Candidates, Candidate

LEMMA FailedForm ==
  ASSUME NEW code \in Codes
  PROVE  Failed(code) \in Result /\ Failed(code).document = FALSE /\ Failed(code).status = "failed"
<1>1. "failed" \in Statuses /\ "not_applicable" \in OcrStatuses /\ {} \in SUBSET Nat /\ FALSE \in BOOLEAN
  BY DEF Statuses, OcrStatuses
<1> QED
  BY <1>1 DEF Failed, Result

LEMMA TimedOutForm == TimedOut \in Result /\ TimedOut.document = FALSE
<1>1. "PARSER_TIMEOUT" \in Codes /\ "timeout" \in Statuses
  BY DEF Codes, Statuses
<1>2. /\ Failed("PARSER_TIMEOUT") \in Result /\ Failed("PARSER_TIMEOUT").document = FALSE
  BY <1>1, FailedForm
<1>3. ASSUME NEW r \in Result PROVE [r EXCEPT !.status = "timeout"] \in Result /\ [r EXCEPT !.status = "timeout"].document = r.document
  BY <1>1 DEF Result
<1> QED
  BY <1>2, <1>3 DEF TimedOut

LEMMA ParsedForm ==
  ASSUME NEW text \in SUBSET Nat, NEW ocr \in OcrStatuses
  PROVE  Parsed(text, ocr) \in Result
<1>1. "parsed" \in Statuses /\ "none" \in Codes /\ TRUE \in BOOLEAN
  BY DEF Statuses, Codes
<1> QED
  BY <1>1 DEF Parsed, Result

LEMMA SkippedForm == Skipped \in Result /\ Skipped.document = FALSE
<1>1. Parsed({}, "not_applicable") \in Result
  BY ParsedForm DEF OcrStatuses
<1>2. ASSUME NEW r \in Result PROVE [r EXCEPT !.document = FALSE] \in Result /\ [r EXCEPT !.document = FALSE].document = FALSE
  <2>1. FALSE \in BOOLEAN
    OBVIOUS
  <2> QED
    BY <2>1 DEF Result
<1> QED
  BY <1>1, <1>2 DEF Skipped

LEMMA TextForm ==
  ASSUME NEW doc \in Documents
  PROVE  TextResult(doc) \in Result
<1>1. {} \in SUBSET Nat /\ {1} \in SUBSET Nat /\ "not_applicable" \in OcrStatuses /\ "TEXT_DECODE_FAILED" \in Codes
  BY DEF OcrStatuses, Codes
<1>2. Parsed({}, "not_applicable") \in Result /\ Parsed({1}, "not_applicable") \in Result
  BY <1>1, ParsedForm
<1>3. Failed("TEXT_DECODE_FAILED") \in Result
  BY <1>1, FailedForm
<1> QED
  BY <1>2, <1>3 DEF TextResult

LEMMA Failures ==
  ASSUME NEW said \in Told
  PROVE  /\ FailureOf[said] \in Codes
         /\ FailureOf[said] = "none" => said \in {"text_found", "no_text_detected"}
BY DEF Told, FailureOf, Codes

LEMMA ImageForm ==
  ASSUME NEW said \in Told
  PROVE  ImageResult(said) \in Result
<1>1. /\ {} \in SUBSET Nat /\ {1} \in SUBSET Nat
      /\ "no_text_detected" \in OcrStatuses /\ "text_found" \in OcrStatuses
  BY DEF OcrStatuses
<1>2. Parsed({}, "no_text_detected") \in Result /\ Parsed({1}, "text_found") \in Result
  BY <1>1, ParsedForm
<1>3. Failed(FailureOf[said]) \in Result
  BY Failures, FailedForm
<1> QED
  BY <1>2, <1>3 DEF ImageResult

LEMMA NoOcrForm ==
  ASSUME NEW doc \in Documents
  PROVE  /\ NoOcrYet(doc) \in OcrSoFar /\ NoOcrYet(doc).read = {}
         /\ NoOcrYet(doc).failure = "none" => ~Skips(doc)
<1>1. "OCR_PAGE_LIMIT_EXCEEDED" \in Codes /\ "none" \in Codes /\ {} \in SUBSET Nat /\ {} \in SUBSET Told
  BY DEF Codes
<1>2. (IF Skips(doc) THEN "OCR_PAGE_LIMIT_EXCEEDED" ELSE "none") \in Codes
  BY <1>1
<1> QED
  BY <1>1, <1>2 DEF NoOcrYet, OcrSoFar

LEMMA PdfForm ==
  ASSUME NEW doc \in Documents, NEW ocr \in OcrSoFar
  PROVE  /\ PdfResult(doc, ocr) \in Result
         /\ PdfResult(doc, ocr).status = "parsed" => ocr.failure = "none"
<1>1. NativeText(doc) \cup ocr.text \in SUBSET Nat /\ ocr.failure \in Codes
  BY PageSets DEF OcrSoFar
<1>2. OcrStatus(doc, ocr) \in OcrStatuses
  BY DEF OcrStatus, OcrStatuses
<1>3. (IF ocr.failure = "none" THEN "parsed" ELSE "partial") \in Statuses
  BY DEF Statuses
<1>4. TRUE \in BOOLEAN
  OBVIOUS
<1>5. PdfResult(doc, ocr) \in Result
  BY <1>1, <1>2, <1>3, <1>4 DEF PdfResult, Result
<1> QED
  BY <1>5 DEF PdfResult

LEMMA PageAdded ==
  ASSUME NEW ocr \in OcrSoFar, NEW n \in Nat, NEW said \in Told
  PROVE  /\ AddPage(ocr, n, said) \in OcrSoFar
         /\ AddPage(ocr, n, said).failure = "none" =>
              ocr.failure = "none" /\ AddPage(ocr, n, said).read = ocr.read \cup {n}
<1>1. /\ ocr.seen \in SUBSET Told /\ ocr.text \in SUBSET Nat /\ ocr.read \in SUBSET Nat /\ ocr.failure \in Codes
  BY DEF OcrSoFar
<1>2. /\ ocr.seen \cup {said} \in SUBSET Told
      /\ (IF said = "text_found" THEN ocr.text \cup {n} ELSE ocr.text) \in SUBSET Nat
      /\ (IF said \in {"text_found", "no_text_detected"} THEN ocr.read \cup {n} ELSE ocr.read) \in SUBSET Nat
      /\ (IF ocr.failure = "none" THEN FailureOf[said] ELSE ocr.failure) \in Codes
  BY <1>1, Failures
<1>3. AddPage(ocr, n, said) \in OcrSoFar
  BY <1>2 DEF AddPage, OcrSoFar
<1> QED
  BY <1>3, Failures DEF AddPage

-------------------------------------------------------------------------------
(* What the variables hold. *)

LEMMA NoDocument == NoDoc \in Documents
<1>1. << >> \in Seq(Pages)
  OBVIOUS
<1> QED
  BY <1>1 DEF NoDoc, Documents

LEMMA NoJobForm == NoJob \in JobState /\ NoJob.stage = "none" /\ NoJob.image = "none"
<1>1. /\ NoOcrYet(NoDoc) \in OcrSoFar /\ Skipped \in Result /\ NoDoc \in Documents
      /\ "none" \in Stages /\ {} \in SUBSET Nat
  BY NoDocument, NoOcrForm, SkippedForm DEF Stages
<1> QED
  BY <1>1 DEF NoJob, JobState

(* A job that is over is forgotten, but for the image file it left. *)
LEMMA GoneForm ==
  ASSUME NEW j
  PROVE  \/ Gone(j) = NoJob
         \/ /\ j.image = "disk" /\ Gone(j) \in JobState
            /\ Gone(j).stage = "dead" /\ Gone(j).image = "disk"
<1> DEFINE dead == [NoJob EXCEPT !.stage = "dead", !.image = "disk"]
<1>1. dead \in JobState /\ dead.stage = "dead" /\ dead.image = "disk"
  <2>1. "dead" \in Stages
    BY DEF Stages
  <2> QED
    BY <2>1, NoJobForm DEF JobState
<1> QED
  BY <1>1 DEF Gone

LEMMA JobForm ==
  ASSUME TypeOK, NEW id \in JobIds
  PROVE  /\ id[1] \in 1 .. MaxRequests /\ id[2] \in 1 .. MaxItems
         /\ job[id] \in JobState /\ job[id].stage \in Stages /\ job[id].doc \in Documents
         /\ job[id].todo \in SUBSET Nat /\ job[id].ocr \in OcrSoFar /\ job[id].result \in Result
<1>1. job[id] \in JobState
  BY DEF TypeOK
<1> QED
  BY <1>1 DEF JobIds, JobState

LEMMA LoopForm ==
  ASSUME TypeOK
  PROVE  /\ loop.op = "analyze" =>
              /\ loop \in Analyzing /\ loop.user \in Users /\ loop.items \in ItemLists
              /\ loop.items \in Seq(Items) /\ Len(loop.items) \in Nat /\ Len(loop.items) <= MaxItems
              /\ loop.told \in Seq(Result) /\ Len(loop.told) \in Nat
         /\ loop.op = "upload" => loop.ref \in Files
         /\ Idle.op = "idle"
<1>1. Idle.op = "idle" /\ \A l \in Uploading : l.op = "upload" /\ l.ref \in Files
  BY DEF Idle, Uploading
<1>2. \A l \in Analyzing : l.op = "analyze" /\ l.user \in Users /\ l.items \in ItemLists /\ l.told \in Seq(Result)
  BY DEF Analyzing
<1>3. loop \in {Idle} \cup Uploading \cup Analyzing
  BY DEF TypeOK
<1>4. CASE loop.op = "analyze"
  <2>1. loop \in Analyzing
    BY <1>1, <1>3, <1>4
  <2>2. loop.user \in Users /\ loop.items \in ItemLists /\ loop.told \in Seq(Result)
    BY <1>2, <2>1
  <2>3. loop.items \in Seq(Items) /\ Len(loop.items) <= MaxItems
    BY <2>2, Constants
  <2> QED
    BY <1>1, <1>4, <2>1, <2>2, <2>3
<1> QED
  BY <1>1, <1>2, <1>3, <1>4

LEMMA FileForm ==
  ASSUME TypeOK, NEW f \in Files
  PROVE  /\ file[f] \in FileState /\ file[f].doc \in Documents
         /\ file[f].blob \in BOOLEAN /\ file[f].manifest \in BOOLEAN /\ file[f].expired \in BOOLEAN
<1>1. file[f] \in FileState
  BY DEF TypeOK
<1> QED
  BY <1>1 DEF FileState

LEMMA CurrentForm ==
  ASSUME TypeOK, ToldInOrder, Busy
  PROVE  /\ Current \in JobIds /\ Current[1] = requests /\ Current[2] = Len(loop.told) + 1
         /\ Current[2] \in 1 .. Len(loop.items) /\ loop.items[Current[2]] \in Items
<1>1. /\ loop.op = "analyze" /\ Len(loop.told) < Len(loop.items) /\ requests > 0
      /\ loop.items \in Seq(Items) /\ Len(loop.items) \in Nat /\ Len(loop.items) <= MaxItems
      /\ Len(loop.told) \in Nat /\ requests \in 0 .. MaxRequests
  BY LoopForm DEF Busy, ToldInOrder, TypeOK
<1>2. Len(loop.told) + 1 \in 1 .. Len(loop.items) /\ Len(loop.told) + 1 \in 1 .. MaxItems /\ requests \in 1 .. MaxRequests
  BY <1>1, Constants
<1>3. loop.items[Len(loop.told) + 1] \in Items
  BY <1>1, <1>2
<1> QED
  BY <1>2, <1>3 DEF Current, JobIds

-------------------------------------------------------------------------------
(* What steps leave in order. *)

(* A job takes a step: only what it is afterwards has to be looked at. *)
LEMMA JobMoves ==
  ASSUME Ind, JobStep, NEW id \in JobIds, NEW j \in JobState,
         job' = [job EXCEPT ![id] = j], JobInOrder(id, j)
  PROVE  Ind'
<1>1. TypeOK'
  BY DEF Ind, TypeOK, JobStep
<1>2. FilesInOrder' /\ ToldInOrder' /\ OwnContentOnly'
  BY DEF Ind, JobStep, FilesInOrder, LiveFileIsWhole, ToldInOrder, OwnContentOnly
<1>3. job \in [JobIds -> JobState]
  BY DEF Ind, TypeOK
<1>4. ASSUME NEW k \in JobIds PROVE JobInOrder(k, job[k])'
  <2>1. JobInOrder(k, job'[k])
    BY <1>3 DEF Ind, JobsInOrder
  <2> QED
    BY <2>1 DEF JobStep, JobInOrder, Entitled, SeesContent, ReadPdfWhole, Granted, Stored, Looked, OnPages, Tidy, Belongs
<1> QED
  BY <1>1, <1>2, <1>4 DEF Ind, JobsInOrder

(* What a job has been granted stays what it was. *)
FilesStay == \A f \in Files :
  Stored(f) => /\ Stored(f)'
               /\ file'[f].owner = file[f].owner /\ file'[f].kind = file[f].kind /\ file'[f].doc = file[f].doc

LEMMA JobStays ==
  ASSUME FilesStay, NEW j, Entitled(j), Looked(j)
  PROVE  Entitled(j)' /\ Looked(j)'
<1>1. CASE ~SeesContent(j)
  <2>1. ~OnPages(j) /\ ~ReadPdfWhole(j)
    BY <1>1 DEF SeesContent, OnPages
  <2> QED
    BY <1>1, <2>1 DEF Entitled, Looked, SeesContent, OnPages, ReadPdfWhole
<1>2. CASE SeesContent(j)
  <2>1. /\ j.item.ref \in Files /\ Stored(j.item.ref)
        /\ file[j.item.ref].owner = j.user /\ j.item.claim
    BY <1>2 DEF Entitled, Granted
  <2>2. /\ Stored(j.item.ref)' /\ file'[j.item.ref].owner = file[j.item.ref].owner
        /\ file'[j.item.ref].doc = file[j.item.ref].doc
    BY <2>1 DEF FilesStay
  <2>3. Granted(j)'
    BY <2>1, <2>2 DEF Granted
  <2>4. Looked(j)'
    BY <2>2 DEF Looked, OnPages, ReadPdfWhole
  <2> QED
    BY <2>3, <2>4 DEF Entitled
<1> QED
  BY <1>1, <1>2

LEMMA FilesMove ==
  ASSUME Ind, UNCHANGED <<requests, job>>, FilesStay, FilesInOrder',
         file' \in [Files -> FileState], sweep' \in Files \cup {NoFile},
         \/ loop' = loop /\ \A f \in Files : file'[f].owner = file[f].owner
         \/ loop' \in {Idle} \cup Uploading /\ loop'.op # "analyze"
  PROVE  Ind'
<1>1. TypeOK'
  BY DEF Ind, TypeOK
<1>2. ASSUME NEW k \in JobIds PROVE JobInOrder(k, job[k])'
  <2>1. Entitled(job[k]) /\ Looked(job[k]) /\ Tidy(job[k]) /\ Belongs(k, job[k])
    BY DEF Ind, JobsInOrder, JobInOrder
  <2>2. Entitled(job[k])' /\ Looked(job[k])'
    BY <2>1, JobStays DEF Entitled, SeesContent, ReadPdfWhole, Granted, Looked, OnPages
  <2>3. Belongs(k, job[k])'
    BY <2>1 DEF Belongs
  <2> QED
    BY <2>1, <2>2, <2>3 DEF JobInOrder, Tidy
<1>3. ToldInOrder'
  BY DEF Ind, ToldInOrder
<1>4. OwnContentOnly'
  <2>1. CASE loop'.op # "analyze"
    BY <2>1 DEF OwnContentOnly
  <2>2. CASE loop' = loop /\ loop.op = "analyze" /\ \A f \in Files : file'[f].owner = file[f].owner
    <3>1. loop.items \in Seq(Items) /\ Len(loop.items) \in Nat /\ Len(loop.told) \in Nat /\ Len(loop.told) <= Len(loop.items)
      BY <2>2, LoopForm DEF Ind, ToldInOrder
    <3>2. ASSUME NEW i \in 1 .. Len(loop.told) PROVE loop.items[i].ref \in Files
      <4>1. loop.items[i] \in Items
        BY <3>1
      <4> QED
        BY <4>1 DEF Items
    <3> QED
      BY <2>2, <3>2 DEF Ind, OwnContentOnly
  <2> QED
    BY <2>1, <2>2
<1> QED
  BY <1>1, <1>2, <1>3, <1>4 DEF Ind, JobsInOrder

-------------------------------------------------------------------------------
(* The store. *)

LEMMA StoreBlobStep ==
  ASSUME Ind, NEW f \in Files, NEW up \in Uploads, StoreBlob(f, up)
  PROVE  Ind'
<1> DEFINE stored == [owner |-> up.owner, kind |-> up.kind, doc |-> up.doc, blob |-> TRUE,
                      manifest |-> FALSE, expired |-> FALSE]
           upload == [op |-> "upload", ref |-> f]
<1>1. stored \in FileState
  <2>1. up.owner \in Users /\ up.kind \in Kinds /\ up.doc \in Documents
    BY Constants
  <2> QED
    BY <2>1 DEF FileState
<1>2. stored.blob = TRUE /\ stored.manifest = FALSE
  OBVIOUS
<1>3. upload \in Uploading /\ upload.op = "upload" /\ upload.ref = f
  BY DEF Uploading
<1>4. /\ file' = [file EXCEPT ![f] = stored] /\ loop' = upload
      /\ file[f] = Absent /\ UNCHANGED <<sweep, requests, job>>
  BY DEF StoreBlob
<1> HIDE DEF stored, upload
<1>5. file \in [Files -> FileState] /\ sweep \in Files \cup {NoFile}
  BY DEF Ind, TypeOK
<1>6. file' \in [Files -> FileState] /\ file'[f] = stored /\ \A g \in Files : g # f => file'[g] = file[g]
  BY <1>1, <1>4, <1>5
<1>7. ~Stored(f)
  BY <1>4 DEF Stored, Absent
<1>8. FilesStay
  BY <1>6, <1>7 DEF FilesStay, Stored
<1>9. FilesInOrder'
  BY <1>2, <1>3, <1>4, <1>6 DEF Ind, FilesInOrder, LiveFileIsWhole
<1> QED
  BY <1>3, <1>4, <1>5, <1>6, <1>8, <1>9, FilesMove

(* A file loses or gains a mark; nothing else of it changes. *)
LEMMA MarkStep ==
  ASSUME Ind, NEW f \in Files, NEW marked \in FileState, file' = [file EXCEPT ![f] = marked],
         marked.owner = file[f].owner, marked.kind = file[f].kind, marked.doc = file[f].doc,
         Stored(f) => marked.blob \/ marked.expired
  PROVE  /\ file' \in [Files -> FileState] /\ file'[f] = marked /\ FilesStay
         /\ \A g \in Files : g # f => file'[g] = file[g]
         /\ \A g \in Files : file'[g].owner = file[g].owner
<1>1. file \in [Files -> FileState]
  BY DEF Ind, TypeOK
<1> QED
  BY <1>1 DEF FilesStay, Stored

LEMMA StoreManifestStep ==
  ASSUME Ind, StoreManifest
  PROVE  Ind'
<1>1. /\ loop.op = "upload" /\ loop.ref \in Files /\ file[loop.ref].blob
      /\ file' = [file EXCEPT ![loop.ref].manifest = TRUE] /\ loop' = Idle /\ UNCHANGED <<sweep, requests, job>>
  BY LoopForm DEF Ind, StoreManifest, FilesInOrder
<1> DEFINE marked == [file[loop.ref] EXCEPT !.manifest = TRUE]
<1>2. marked \in FileState /\ marked.blob = file[loop.ref].blob /\ marked.expired = file[loop.ref].expired
      /\ marked.owner = file[loop.ref].owner /\ marked.kind = file[loop.ref].kind /\ marked.doc = file[loop.ref].doc
  <2>1. file[loop.ref] \in FileState /\ TRUE \in BOOLEAN
    BY <1>1, FileForm DEF Ind
  <2> QED
    BY <2>1 DEF FileState
<1>3. file' = [file EXCEPT ![loop.ref] = marked]
  BY <1>1
<1> HIDE DEF marked
<1>4. /\ file' \in [Files -> FileState] /\ file'[loop.ref] = marked /\ FilesStay
      /\ \A g \in Files : g # loop.ref => file'[g] = file[g]
  BY <1>1, <1>2, <1>3, MarkStep DEF Stored
<1>5. Idle.op = "idle"
  BY DEF Idle
<1>6. FilesInOrder'
  BY <1>1, <1>2, <1>4, <1>5 DEF Ind, FilesInOrder, LiveFileIsWhole
<1> QED
  BY <1>1, <1>4, <1>5, <1>6, FilesMove DEF Ind, TypeOK

LEMMA StoreFailsStep ==
  ASSUME Ind, StoreFails
  PROVE  Ind'
<1>1. loop' = Idle /\ Idle.op = "idle" /\ UNCHANGED <<file, sweep, requests, job>>
  BY DEF StoreFails, Idle
<1>2. file' \in [Files -> FileState] /\ sweep' \in Files \cup {NoFile} /\ FilesStay
  BY <1>1 DEF Ind, TypeOK, FilesStay, Stored
<1>3. FilesInOrder'
  BY <1>1 DEF Ind, FilesInOrder, LiveFileIsWhole
<1> QED
  BY <1>1, <1>2, <1>3, FilesMove DEF Ind, TypeOK

LEMMA ExpireStep ==
  ASSUME Ind, NEW f \in Files, Expire(f)
  PROVE  Ind'
<1> DEFINE marked == [file[f] EXCEPT !.expired = TRUE]
<1>1. marked \in FileState /\ marked.expired = TRUE /\ marked.blob = file[f].blob /\ marked.manifest = file[f].manifest
      /\ marked.owner = file[f].owner /\ marked.kind = file[f].kind /\ marked.doc = file[f].doc
  <2>1. file[f] \in FileState /\ TRUE \in BOOLEAN
    BY FileForm DEF Ind
  <2> QED
    BY <2>1 DEF FileState
<1>2. file' = [file EXCEPT ![f] = marked] /\ UNCHANGED <<sweep, loop, requests, job>>
  BY DEF Expire
<1> HIDE DEF marked
<1>3. /\ file' \in [Files -> FileState] /\ file'[f] = marked /\ FilesStay
      /\ \A g \in Files : g # f => file'[g] = file[g]
      /\ \A g \in Files : file'[g].owner = file[g].owner
  BY <1>1, <1>2, MarkStep DEF Stored
<1>4. FilesInOrder'
  BY <1>1, <1>2, <1>3, LoopForm DEF Ind, FilesInOrder, LiveFileIsWhole
<1> QED
  BY <1>2, <1>3, <1>4, FilesMove DEF Ind, TypeOK

LEMMA SweepBlobStep ==
  ASSUME Ind, NEW f \in Files, SweepBlob(f)
  PROVE  Ind'
<1> DEFINE marked == [file[f] EXCEPT !.blob = FALSE]
<1>1. marked \in FileState /\ marked.expired = file[f].expired /\ marked.manifest = file[f].manifest
      /\ marked.owner = file[f].owner /\ marked.kind = file[f].kind /\ marked.doc = file[f].doc
  <2>1. file[f] \in FileState /\ FALSE \in BOOLEAN
    BY FileForm DEF Ind
  <2> QED
    BY <2>1 DEF FileState
<1>2. /\ file' = [file EXCEPT ![f] = marked] /\ sweep' = f /\ UNCHANGED <<loop, requests, job>>
      /\ file[f].manifest /\ file[f].expired
  BY DEF SweepBlob
<1> HIDE DEF marked
<1>3. /\ file' \in [Files -> FileState] /\ file'[f] = marked /\ FilesStay
      /\ \A g \in Files : g # f => file'[g] = file[g]
      /\ \A g \in Files : file'[g].owner = file[g].owner
  BY <1>1, <1>2, MarkStep DEF Stored
<1>4. FilesInOrder'
  BY <1>1, <1>2, <1>3, LoopForm DEF Ind, FilesInOrder, LiveFileIsWhole
<1> QED
  BY <1>2, <1>3, <1>4, FilesMove DEF Ind, TypeOK

LEMMA SweepManifestStep ==
  ASSUME Ind, SweepManifest
  PROVE  Ind'
<1>0. sweep \in Files /\ sweep # NoFile
  BY DEF Ind, TypeOK, SweepManifest
<1> DEFINE marked == [file[sweep] EXCEPT !.manifest = FALSE]
<1>1. marked \in FileState /\ marked.expired = file[sweep].expired /\ marked.manifest = FALSE
      /\ marked.blob = file[sweep].blob
      /\ marked.owner = file[sweep].owner /\ marked.kind = file[sweep].kind /\ marked.doc = file[sweep].doc
  <2>1. file[sweep] \in FileState /\ FALSE \in BOOLEAN
    BY <1>0, FileForm DEF Ind
  <2> QED
    BY <2>1 DEF FileState
<1>2. file' = [file EXCEPT ![sweep] = marked] /\ sweep' = NoFile /\ UNCHANGED <<loop, requests, job>>
  BY DEF SweepManifest
<1> HIDE DEF marked
<1>3. /\ file' \in [Files -> FileState] /\ file'[sweep] = marked /\ FilesStay
      /\ \A g \in Files : g # sweep => file'[g] = file[g]
      /\ \A g \in Files : file'[g].owner = file[g].owner
  BY <1>0, <1>1, <1>2, MarkStep DEF Stored
<1>4. FilesInOrder'
  BY <1>1, <1>2, <1>3, LoopForm DEF Ind, FilesInOrder, LiveFileIsWhole
<1> QED
  BY <1>2, <1>3, <1>4, FilesMove DEF Ind, TypeOK

-------------------------------------------------------------------------------
(* The event loop. *)

(* A job that has not read anything owes nothing. *)
LEMMA NothingRead ==
  ASSUME NEW j, j.stage \in {"none", "queued", "validate", "cancelled", "dead"}
  PROVE  Entitled(j) /\ Looked(j)
BY DEF Entitled, SeesContent, ReadPdfWhole, Looked, OnPages

(* The loop and the jobs change, the store does not. *)
LEMMA JobsMove ==
  ASSUME Ind, UNCHANGED <<file, sweep>>, requests' \in 0 .. MaxRequests,
         loop' \in {Idle} \cup Analyzing, loop'.op # "upload",
         job' \in [JobIds -> JobState],
         \A id \in JobIds : Entitled(job'[id]) /\ Looked(job'[id]) /\ Tidy(job'[id]) /\ Belongs(id, job[id])',
         ToldInOrder', OwnContentOnly'
  PROVE  Ind'
<1>1. TypeOK'
  BY DEF Ind, TypeOK
<1>2. FilesInOrder'
  BY DEF Ind, FilesInOrder, LiveFileIsWhole
<1>3. ASSUME NEW id \in JobIds PROVE JobInOrder(id, job[id])'
  <2>1. Entitled(job'[id]) /\ Looked(job'[id]) /\ Tidy(job'[id]) /\ Belongs(id, job[id])'
    OBVIOUS
  <2> QED
    BY <2>1 DEF JobInOrder, Entitled, SeesContent, ReadPdfWhole, Granted, Stored, Looked, OnPages, Tidy
<1> QED
  BY <1>1, <1>2, <1>3 DEF Ind, JobsInOrder

LEMMA ReceiveStep ==
  ASSUME Ind, NEW u \in Users, NEW items \in ItemLists, Receive(u, items)
  PROVE  Ind'
<1> DEFINE received == [op |-> "analyze", user |-> u, items |-> items, told |-> << >>]
<1>1. /\ received \in Analyzing /\ received.op = "analyze" /\ received.items = items
      /\ received.told = << >> /\ Len(received.told) = 0
  <2>1. << >> \in Seq(Result) /\ Len(<< >>) = 0
    OBVIOUS
  <2> QED
    BY <2>1 DEF Analyzing
<1>2. loop' = received /\ requests' = requests + 1 /\ requests < MaxRequests /\ UNCHANGED <<file, sweep, job>>
  BY DEF Receive
<1> HIDE DEF received
<1>3. requests \in Nat /\ requests + 1 \in 0 .. MaxRequests /\ job \in [JobIds -> JobState]
  BY <1>2, Constants DEF Ind, TypeOK
<1>4. Len(items) \in Nat
  BY Constants
<1>5. ToldInOrder' /\ OwnContentOnly'
  BY <1>1, <1>2, <1>3, <1>4 DEF ToldInOrder, OwnContentOnly
<1>6. ASSUME NEW id \in JobIds
      PROVE  Entitled(job'[id]) /\ Looked(job'[id]) /\ Tidy(job'[id]) /\ Belongs(id, job[id])'
  <2>1. Entitled(job[id]) /\ Looked(job[id]) /\ Tidy(job[id]) /\ Belongs(id, job[id])
    BY DEF Ind, JobsInOrder, JobInOrder
  <2>2. id[1] \in Nat
    BY JobForm DEF Ind
  <2> QED
    BY <1>2, <1>3, <2>1, <2>2 DEF Belongs
<1> QED
  BY <1>1, <1>2, <1>3, <1>5, <1>6, JobsMove

(* The request is told of the item at hand. *)
LEMMA Tells ==
  ASSUME Ind, Busy, NEW r \in Result, Tell(r), UNCHANGED <<file, requests>>,
         LET item == loop.items[Current[2]]
         IN  r.document => file[item.ref].owner = loop.user /\ item.claim
  PROVE  /\ loop' \in Analyzing /\ loop'.op = "analyze" /\ loop'.user = loop.user /\ loop'.items = loop.items
         /\ ToldInOrder' /\ OwnContentOnly'
<1>1. /\ loop \in Analyzing /\ loop.op = "analyze" /\ loop.told \in Seq(Result) /\ requests > 0
      /\ Len(loop.told) \in Nat /\ Len(loop.items) \in Nat /\ Len(loop.told) < Len(loop.items)
  BY LoopForm DEF Ind, Busy, ToldInOrder
<1>2. /\ Append(loop.told, r) \in Seq(Result) /\ Len(Append(loop.told, r)) = Len(loop.told) + 1
      /\ Append(loop.told, r)[Len(loop.told) + 1] = r
      /\ \A i \in 1 .. Len(loop.told) : Append(loop.told, r)[i] = loop.told[i]
  BY <1>1
<1>3. /\ loop' \in Analyzing /\ loop'.op = "analyze" /\ loop'.user = loop.user /\ loop'.items = loop.items
      /\ loop'.told = Append(loop.told, r)
  BY <1>1, <1>2 DEF Tell, Analyzing
<1>4. ToldInOrder'
  BY <1>1, <1>2, <1>3 DEF ToldInOrder
<1>5. ASSUME NEW i \in 1 .. Len(loop'.told), loop'.told[i].document
      PROVE  file'[loop'.items[i].ref].owner = loop'.user /\ loop'.items[i].claim
  <2>1. CASE i = Len(loop.told) + 1
    <3>1. Current[2] = i /\ r.document
      BY <1>2, <1>3, <1>5, <2>1 DEF Current
    <3> QED
      BY <1>3, <3>1
  <2>2. CASE i \in 1 .. Len(loop.told)
    <3>1. loop.told[i].document
      BY <1>2, <1>3, <1>5, <2>2
    <3> QED
      BY <1>1, <1>3, <2>2, <3>1 DEF Ind, OwnContentOnly
  <2> QED
    BY <1>1, <1>2, <1>3, <2>1, <2>2
<1>6. OwnContentOnly'
  BY <1>5 DEF OwnContentOnly
<1> QED
  BY <1>3, <1>4, <1>6

(* No other request is served meanwhile, so that every job stays with the   *)
(* request it is of.                                                        *)
LEMMA JobsStay ==
  ASSUME Ind, NEW id \in JobIds, requests' = requests,
         loop'.op = "analyze" => loop.op = "analyze" /\ loop'.user = loop.user /\ loop'.items = loop.items
  PROVE  /\ Entitled(job[id]) /\ Looked(job[id]) /\ Tidy(job[id]) /\ Belongs(id, job[id])
         /\ job'[id] = job[id] => Belongs(id, job[id])'
<1>1. Entitled(job[id]) /\ Looked(job[id]) /\ Tidy(job[id]) /\ Belongs(id, job[id])
  BY DEF Ind, JobsInOrder, JobInOrder
<1> QED
  BY <1>1 DEF Belongs

(* What remains of a job is in order. *)
LEMMA GoneInOrder ==
  ASSUME Ind, NEW id \in JobIds, requests' = requests, job'[id] = Gone(job[id])
  PROVE  /\ Gone(job[id]) \in JobState
         /\ Entitled(job'[id]) /\ Looked(job'[id]) /\ Tidy(job'[id]) /\ Belongs(id, job[id])'
<1>1. Tidy(job[id]) /\ Belongs(id, job[id])
  BY DEF Ind, JobsInOrder, JobInOrder
<1>2. CASE Gone(job[id]) = NoJob
  BY <1>2, NoJobForm, NothingRead DEF Tidy, Belongs
<1>3. CASE /\ job[id].image = "disk" /\ Gone(job[id]) \in JobState
           /\ Gone(job[id]).stage = "dead" /\ Gone(job[id]).image = "disk"
  <2>1. Belongs(id, job[id])'
    BY <1>1, <1>3 DEF Tidy, Belongs
  <2> QED
    BY <1>3, <2>1, NothingRead DEF Tidy
<1> QED
  BY <1>2, <1>3, GoneForm

LEMMA SubmitStep ==
  ASSUME Ind, Submit
  PROVE  Ind'
<1>1. /\ Busy /\ loop.op = "analyze" /\ loop.user \in Users /\ loop \in Analyzing
      /\ UNCHANGED <<file, sweep, requests>> /\ requests \in 0 .. MaxRequests /\ job \in [JobIds -> JobState]
      /\ Current \in JobIds /\ Current[1] = requests /\ Current[2] \in 1 .. Len(loop.items)
      /\ loop.items[Current[2]] \in Items
  BY LoopForm, CurrentForm DEF Ind, TypeOK, Submit, Busy
<1>2. CASE Tell(Failed("PARSER_LIMIT_EXCEEDED")) /\ UNCHANGED job
  <2>1. Failed("PARSER_LIMIT_EXCEEDED") \in Result /\ Failed("PARSER_LIMIT_EXCEEDED").document = FALSE
    BY FailedForm DEF Codes
  <2>2. /\ loop' \in Analyzing /\ loop'.op = "analyze" /\ loop'.user = loop.user /\ loop'.items = loop.items
        /\ ToldInOrder' /\ OwnContentOnly'
    BY <1>1, <1>2, <2>1, Tells
  <2> QED
    BY <1>1, <1>2, <2>2, JobsStay, JobsMove
<1>3. CASE /\ UNCHANGED loop
           /\ job' = [job EXCEPT ![Current] = [NoJob EXCEPT !.stage = "queued", !.user = loop.user,
                                                            !.item = loop.items[Current[2]]]]
  <2> DEFINE queued == [NoJob EXCEPT !.stage = "queued", !.user = loop.user, !.item = loop.items[Current[2]]]
  <2>1. /\ queued \in JobState /\ queued.stage = "queued" /\ queued.image = "none"
        /\ queued.user = loop.user /\ queued.item = loop.items[Current[2]]
    <3>1. "queued" \in Stages /\ loop.user \in Users \cup {"none"} /\ loop.items[Current[2]] \in Items \cup {NoItem}
      BY <1>1 DEF Stages
    <3>2. NoJob \in JobState /\ NoJob.image = "none"
      BY NoJobForm
    <3> QED
      BY <3>1, <3>2 DEF JobState
  <2> HIDE DEF queued
  <2>2. job' = [job EXCEPT ![Current] = queued]
    BY <1>3 DEF queued
  <2>3. Entitled(queued) /\ Looked(queued) /\ Tidy(queued)
    BY <2>1, NothingRead DEF Tidy
  <2>4. Belongs(Current, queued)
    <3>1. requests \in Nat
      BY <1>1
    <3> QED
      BY <1>1, <2>1, <3>1 DEF Belongs
  <2> QED
    BY <1>1, <1>3, <2>1, <2>2, <2>3, <2>4, JobMoves DEF JobInOrder, JobStep
<1> QED
  BY <1>2, <1>3 DEF Submit

LEMMA TakeResultStep ==
  ASSUME Ind, TakeResult
  PROVE  Ind'
<1>1. /\ Busy /\ loop.op = "analyze" /\ job[Current].stage = "finished" /\ Tell(job[Current].result)
      /\ UNCHANGED <<file, sweep, requests, job>> /\ requests \in 0 .. MaxRequests /\ job \in [JobIds -> JobState]
      /\ Current \in JobIds /\ Current[1] = requests
  BY CurrentForm DEF Ind, TypeOK, TakeResult, Busy
<1>2. Entitled(job[Current]) /\ Belongs(Current, job[Current]) /\ job[Current].result \in Result
  BY <1>1, JobForm DEF Ind, JobsInOrder, JobInOrder
<1>3. job[Current].user = loop.user /\ job[Current].item = loop.items[Current[2]]
  BY <1>1, <1>2 DEF Belongs
<1>4. job[Current].result.document =>
        file[loop.items[Current[2]].ref].owner = loop.user /\ loop.items[Current[2]].claim
  BY <1>1, <1>2, <1>3 DEF Entitled, SeesContent, Granted
<1>5. /\ loop' \in Analyzing /\ loop'.op = "analyze" /\ loop'.user = loop.user /\ loop'.items = loop.items
      /\ ToldInOrder' /\ OwnContentOnly'
  BY <1>1, <1>2, <1>4, Tells
<1> QED
  BY <1>1, <1>5, JobsStay, JobsMove

LEMMA TimeoutStep ==
  ASSUME Ind, Timeout
  PROVE  Ind'
<1>1. /\ Busy /\ loop.op = "analyze" /\ Tell(TimedOut) /\ UNCHANGED <<file, sweep, requests>>
      /\ requests \in 0 .. MaxRequests /\ job \in [JobIds -> JobState] /\ Current \in JobIds
  BY CurrentForm DEF Ind, TypeOK, Timeout, Busy
<1>2. /\ loop' \in Analyzing /\ loop'.op = "analyze" /\ loop'.user = loop.user /\ loop'.items = loop.items
      /\ ToldInOrder' /\ OwnContentOnly'
  BY <1>1, TimedOutForm, Tells
<1>3. CASE job[Current].stage # "queued"
  <2>1. job' = job
    BY <1>1, <1>3 DEF Timeout, JobState
  <2> QED
    BY <1>1, <1>2, <2>1, JobsStay, JobsMove
<1>4. CASE job[Current].stage = "queued"
  <2> DEFINE cancelled == [job[Current] EXCEPT !.stage = "cancelled"]
  <2>1. /\ cancelled \in JobState /\ cancelled.stage = "cancelled" /\ cancelled.image = job[Current].image
        /\ cancelled.user = job[Current].user /\ cancelled.item = job[Current].item
    <3>1. job[Current] \in JobState /\ "cancelled" \in Stages
      BY <1>1 DEF Stages
    <3> QED
      BY <3>1 DEF JobState
  <2>2. job' = [job EXCEPT ![Current] = cancelled]
    BY <1>1, <1>4 DEF Timeout
  <2> HIDE DEF cancelled
  <2>3. job' \in [JobIds -> JobState] /\ job'[Current] = cancelled /\ \A id \in JobIds : id # Current => job'[id] = job[id]
    BY <1>1, <2>1, <2>2
  <2>4. ASSUME NEW id \in JobIds
        PROVE  Entitled(job'[id]) /\ Looked(job'[id]) /\ Tidy(job'[id]) /\ Belongs(id, job[id])'
    <3>1. /\ Entitled(job[id]) /\ Looked(job[id]) /\ Tidy(job[id]) /\ Belongs(id, job[id])
          /\ job'[id] = job[id] => Belongs(id, job[id])'
      BY <1>1, <1>2, JobsStay
    <3>2. CASE id # Current
      BY <2>3, <3>1, <3>2
    <3>3. CASE id = Current
      <4>1. Entitled(cancelled) /\ Looked(cancelled)
        BY <2>1, NothingRead
      <4>2. Tidy(cancelled)
        BY <1>4, <2>1, <3>1, <3>3 DEF Tidy
      <4>3. Belongs(id, job[id])'
        BY <1>1, <1>2, <1>4, <2>1, <2>3, <3>1, <3>3 DEF Belongs
      <4> QED
        BY <2>3, <3>3, <4>1, <4>2, <4>3
    <3> QED
      BY <3>2, <3>3
  <2> QED
    BY <1>1, <1>2, <2>3, <2>4, JobsMove
<1> QED
  BY <1>3, <1>4

(* The request, or the process, ends. *)
LEMMA RespondStep ==
  ASSUME Ind, Respond
  PROVE  Ind'
<1>1. /\ loop' = Idle /\ Idle.op = "idle" /\ UNCHANGED <<file, sweep, requests>>
      /\ job' = [id \in JobIds |-> IF id[1] = requests /\ job[id].stage \notin Threads THEN Gone(job[id]) ELSE job[id]]
      /\ requests \in 0 .. MaxRequests /\ job \in [JobIds -> JobState]
  BY DEF Respond, Ind, TypeOK, Idle
<1>2. job' \in [JobIds -> JobState] /\ \A id \in JobIds : job'[id] = Gone(job[id]) \/ job'[id] = job[id]
  <2>1. \A id \in JobIds : Gone(job[id]) \in JobState
    BY GoneForm, NoJobForm
  <2> QED
    BY <1>1, <2>1
<1>3. ASSUME NEW id \in JobIds
      PROVE  Entitled(job'[id]) /\ Looked(job'[id]) /\ Tidy(job'[id]) /\ Belongs(id, job[id])'
  <2>1. CASE job'[id] = Gone(job[id])
    BY <1>1, <2>1, GoneInOrder
  <2>2. CASE job'[id] = job[id]
    BY <1>1, <2>2, JobsStay
  <2> QED
    BY <1>2, <2>1, <2>2
<1>4. ToldInOrder' /\ OwnContentOnly'
  BY <1>1 DEF ToldInOrder, OwnContentOnly
<1> QED
  BY <1>1, <1>2, <1>3, <1>4, JobsMove

LEMMA CrashStep ==
  ASSUME Ind, Crash
  PROVE  Ind'
<1>1. \A id \in JobIds : Gone(job[id]) \in JobState
  BY GoneForm, NoJobForm
<1>2. /\ loop' = Idle /\ Idle.op = "idle" /\ sweep' = NoFile /\ UNCHANGED <<file, requests>>
      /\ job' = [id \in JobIds |-> Gone(job[id])] /\ requests \in 0 .. MaxRequests
  BY DEF Crash, Ind, TypeOK, Idle
<1>3. job' \in [JobIds -> JobState] /\ \A id \in JobIds : job'[id] = Gone(job[id])
  BY <1>1, <1>2
<1>4. ASSUME NEW id \in JobIds
      PROVE  Entitled(job'[id]) /\ Looked(job'[id]) /\ Tidy(job'[id]) /\ Belongs(id, job[id])'
  BY <1>2, <1>3, GoneInOrder
<1>5. ToldInOrder' /\ OwnContentOnly'
  BY <1>2 DEF ToldInOrder, OwnContentOnly
<1>6. TypeOK'
  BY <1>2, <1>3 DEF Ind, TypeOK
<1>7. FilesInOrder'
  BY <1>2 DEF Ind, FilesInOrder, LiveFileIsWhole
<1>8. ASSUME NEW id \in JobIds PROVE JobInOrder(id, job[id])'
  BY <1>2, <1>4 DEF JobInOrder, Entitled, SeesContent, ReadPdfWhole, Granted, Stored, Looked, OnPages, Tidy
<1> QED
  BY <1>5, <1>6, <1>7, <1>8 DEF Ind, JobsInOrder

-------------------------------------------------------------------------------
(* The jobs. *)

LEMMA UnderWay ==
  ASSUME Ind, NEW id \in JobIds, job[id].stage \notin {"none", "dead"}
  PROVE  /\ Entitled(job[id]) /\ Looked(job[id]) /\ Tidy(job[id]) /\ job[id].item \in Items
         /\ job[id].item.ref \in Files /\ job[id].item.kind \in Kinds /\ job[id].item.claim \in BOOLEAN
         /\ job[id] \in JobState /\ job[id].ocr \in OcrSoFar /\ job[id].todo \in SUBSET Nat
         /\ job[id].doc \in Documents /\ file[job[id].item.ref].doc \in Documents
         /\ \A j : j.user = job[id].user /\ j.item = job[id].item => Belongs(id, j)
<1>1. Entitled(job[id]) /\ Looked(job[id]) /\ Tidy(job[id]) /\ Belongs(id, job[id])
  BY DEF Ind, JobsInOrder, JobInOrder
<1>2. job[id].item \in Items
  BY <1>1 DEF Belongs
<1>3. job[id].item.ref \in Files /\ job[id].item.kind \in Kinds /\ job[id].item.claim \in BOOLEAN
  BY <1>2 DEF Items
<1>4. \A j : j.user = job[id].user /\ j.item = job[id].item => Belongs(id, j)
  BY <1>1 DEF Belongs
<1> QED
  BY <1>1, <1>2, <1>3, <1>4, JobForm, FileForm DEF Ind

(* The job ends, with a result if its caller is still there. *)
LEMMA JobEnds ==
  ASSUME Ind, JobStep, NEW id \in JobIds, job[id].stage \notin {"none", "dead"},
         NEW result \in Result, NEW ocr \in OcrSoFar, job' = Finished(id, result, ocr),
         result.document => Granted(job[id]),
         result.status = "parsed" /\ job[id].item.kind = "pdf" =>
           LET doc == file[job[id].item.ref].doc
           IN  Granted(job[id]) /\ PageNumbers(doc) \subseteq NativeText(doc) \cup ocr.read
  PROVE  Ind'
<1>1. CASE Awaited(id)
  <2> DEFINE done == [job[id] EXCEPT !.stage = "finished", !.result = result, !.ocr = ocr, !.image = "none"]
  <2>1. /\ done \in JobState /\ done.stage = "finished" /\ done.result = result /\ done.ocr = ocr
        /\ done.image = "none" /\ done.user = job[id].user /\ done.item = job[id].item
    <3>1. "finished" \in Stages /\ job[id] \in JobState
      BY UnderWay DEF Stages
    <3> QED
      BY <3>1 DEF JobState
  <2>2. job' = [job EXCEPT ![id] = done]
    BY <1>1 DEF Finished
  <2> HIDE DEF done
  <2>3. Entitled(done)
    BY <2>1 DEF Entitled, SeesContent, ReadPdfWhole, Granted
  <2>4. Looked(done) /\ Tidy(done)
    BY <2>1 DEF Looked, OnPages, ReadPdfWhole, Tidy
  <2>5. Belongs(id, done)
    BY <2>1, UnderWay
  <2> QED
    BY <2>1, <2>2, <2>3, <2>4, <2>5, JobMoves DEF JobInOrder
<1>2. CASE ~Awaited(id)
  <2>1. job' = [job EXCEPT ![id] = NoJob]
    BY <1>2 DEF Finished
  <2>2. Entitled(NoJob) /\ Looked(NoJob) /\ Tidy(NoJob) /\ Belongs(id, NoJob)
    BY NoJobForm, NothingRead DEF Tidy, Belongs
  <2> QED
    BY <2>1, <2>2, NoJobForm, JobMoves DEF JobInOrder
<1> QED
  BY <1>1, <1>2

LEMMA JobFails ==
  ASSUME Ind, JobStep, NEW id \in JobIds, job[id].stage \notin {"none", "dead"},
         NEW code \in Codes, Ends(id, Failed(code))
  PROVE  Ind'
<1>1. Failed(code) \in Result /\ Failed(code).document = FALSE /\ Failed(code).status = "failed"
  BY FailedForm
<1>2. job' = Finished(id, Failed(code), job[id].ocr) /\ job[id].ocr \in OcrSoFar
  BY JobForm DEF Ends, Ind
<1> QED
  BY <1>1, <1>2, JobEnds

LEMMA StartStep ==
  ASSUME Ind, NEW id \in JobIds, Start(id)
  PROVE  Ind'
<1> DEFINE started == [job[id] EXCEPT !.stage = "validate"]
<1>1. job[id].stage = "queued" /\ JobStep /\ job' = [job EXCEPT ![id] = started]
  BY DEF Start, At
<1>2. /\ started \in JobState /\ started.stage = "validate" /\ started.image = job[id].image
      /\ started.user = job[id].user /\ started.item = job[id].item
  <2>1. job[id] \in JobState /\ "validate" \in Stages
    BY JobForm DEF Ind, Stages
  <2> QED
    BY <2>1 DEF JobState
<1> HIDE DEF started
<1>3. Entitled(started) /\ Looked(started) /\ Tidy(started) /\ Belongs(id, started)
  BY <1>1, <1>2, UnderWay, NothingRead DEF Tidy
<1> QED
  BY <1>1, <1>2, <1>3, JobMoves DEF JobInOrder

(* The check passes: from now on the job may see the file. *)
LEMMA Admitted ==
  ASSUME Ind, NEW id \in JobIds, job[id].stage \notin {"none", "dead"}
  PROVE  /\ Refused(id) \in Codes
         /\ Refused(id) = "none" => Granted(job[id])
<1>1. job[id].item.ref \in Files /\ job[id].item.claim \in BOOLEAN
  BY UnderWay
<1>2. /\ file[job[id].item.ref].manifest \in BOOLEAN /\ file[job[id].item.ref].expired \in BOOLEAN
      /\ file[job[id].item.ref].manifest /\ ~file[job[id].item.ref].expired => file[job[id].item.ref].blob
  BY <1>1, FileForm DEF Ind, FilesInOrder, LiveFileIsWhole
<1>3. Refused(id) \in Codes
  BY <1>1, <1>2 DEF Refused, Codes
<1>4. Refused(id) = "none" =>
        /\ file[job[id].item.ref].manifest /\ ~file[job[id].item.ref].expired
        /\ file[job[id].item.ref].owner = job[id].user /\ job[id].item.claim
  BY <1>1, <1>2 DEF Refused
<1> QED
  BY <1>1, <1>2, <1>3, <1>4 DEF Granted, Stored

LEMMA PdfHasAPlan == PLAN_STEPS[SelectPlan("pdf")] # << >>
<1>1. SelectPlan("pdf") \in {"pdf_native_then_page_ocr", "pdf_native_ocr", "pdf_native"}
  BY DEF SelectPlan, PlanOfKind
<1>2. /\ PLAN_STEPS["pdf_native_ocr"] # << >> /\ PLAN_STEPS["pdf_native"] # << >>
      /\ PLAN_STEPS["pdf_native_then_page_ocr"] # << >>
  BY DEF PLAN_STEPS
<1> QED
  BY <1>1, <1>2

LEMMA ValidateStep ==
  ASSUME Ind, NEW id \in JobIds, Validate(id)
  PROVE  Ind'
<1>1. job[id].stage = "validate" /\ JobStep
  BY DEF Validate, At
<1>2. Refused(id) \in Codes /\ (Refused(id) = "none" => Granted(job[id]))
  BY <1>1, Admitted
<1> DEFINE plan == SelectPlan(job[id].item.kind)
<1>3. CASE Refused(id) # "none"
  BY <1>1, <1>2, <1>3, JobFails DEF Validate
<1>4. CASE Refused(id) = "none" /\ ~Runnable(plan)
  <2>1. "UNSUPPORTED_FILE_KIND" \in Codes
    BY DEF Codes
  <2>2. PLAN_STEPS[plan] # << >>
    BY <1>4 DEF Runnable, Range
  <2>3. Ends(id, Failed("UNSUPPORTED_FILE_KIND"))
    BY <1>4, <2>2 DEF Validate
  <2> QED
    BY <1>1, <2>1, <2>3, JobFails
<1>5. CASE Refused(id) = "none" /\ Runnable(plan) /\ PLAN_STEPS[plan] = << >>
  <2>1. Ends(id, Skipped) /\ job[id].item.kind # "pdf"
    BY <1>5, PdfHasAPlan DEF Validate
  <2>2. job' = Finished(id, Skipped, job[id].ocr) /\ job[id].ocr \in OcrSoFar
    BY <2>1, JobForm DEF Ends, Ind
  <2> QED
    BY <1>1, <2>1, <2>2, SkippedForm, JobEnds
<1>6. CASE Refused(id) = "none" /\ Runnable(plan) /\ PLAN_STEPS[plan] # << >>
  <2> DEFINE admitted == [job[id] EXCEPT !.stage = "read"]
  <2>1. job' = [job EXCEPT ![id] = admitted]
    BY <1>6 DEF Validate
  <2>2. /\ admitted \in JobState /\ admitted.stage = "read" /\ admitted.image = job[id].image
        /\ admitted.user = job[id].user /\ admitted.item = job[id].item
    <3>1. job[id] \in JobState /\ "read" \in Stages
      BY JobForm DEF Ind, Stages
    <3> QED
      BY <3>1 DEF JobState
  <2> HIDE DEF admitted
  <2>3. Entitled(admitted)
    BY <1>2, <1>6, <2>2 DEF Entitled, Granted
  <2>4. Looked(admitted) /\ Tidy(admitted) /\ Belongs(id, admitted)
    BY <1>1, <2>2, UnderWay DEF Looked, OnPages, ReadPdfWhole, Tidy
  <2> QED
    BY <1>1, <2>1, <2>2, <2>3, <2>4, JobMoves DEF JobInOrder
<1> QED
  BY <1>3, <1>4, <1>5, <1>6

LEMMA ReadFailsStep ==
  ASSUME Ind, NEW id \in JobIds, ReadFails(id)
  PROVE  Ind'
<1> DEFINE kind == job[id].item.kind
           code == IF SameKind(id) THEN ReadCode(kind) ELSE MismatchCode(kind)
<1>1. job[id].stage = "read" /\ JobStep /\ Ends(id, Failed(code))
  BY DEF ReadFails, At
<1>2. code \in Codes
  BY DEF ReadCode, MismatchCode, Codes
<1> HIDE DEF code
<1> QED
  BY <1>1, <1>2, JobFails

LEMMA ReadTextStep ==
  ASSUME Ind, NEW id \in JobIds, ReadText(id)
  PROVE  Ind'
<1> DEFINE doc == file[job[id].item.ref].doc
<1>1. job[id].stage = "read" /\ JobStep /\ job[id].item.kind # "pdf"
  BY DEF ReadText, Reads, At
<1>2. Granted(job[id]) /\ doc \in Documents /\ job[id].ocr \in OcrSoFar
  BY <1>1, UnderWay DEF Entitled, SeesContent
<1>3. TextResult(doc) \in Result /\ job' = Finished(id, TextResult(doc), job[id].ocr)
  BY <1>2, TextForm DEF ReadText, Ends
<1> QED
  BY <1>1, <1>2, <1>3, JobEnds

LEMMA ReadImageStep ==
  ASSUME Ind, NEW id \in JobIds, ReadImage(id)
  PROVE  Ind'
<1> DEFINE doc == file[job[id].item.ref].doc
           image == [job[id] EXCEPT !.stage = "write", !.image = "disk", !.doc = doc]
<1>1. /\ job[id].stage = "read" /\ JobStep /\ job[id].item.kind = "image"
      /\ job' = [job EXCEPT ![id] = image] \/ Ends(id, Failed("OCR_FAILED"))
  BY DEF ReadImage, Reads, At
<1>2. Granted(job[id]) /\ doc \in Documents /\ job[id] \in JobState
  BY <1>1, UnderWay DEF Entitled, SeesContent
<1>3. /\ image \in JobState /\ image.stage = "write" /\ image.image = "disk"
      /\ image.user = job[id].user /\ image.item = job[id].item
  <2>1. "write" \in Stages
    BY DEF Stages
  <2> QED
    BY <1>2, <2>1 DEF JobState
<1> HIDE DEF image
<1>4. Entitled(image)
  BY <1>2, <1>3 DEF Entitled, Granted
<1>5. Looked(image) /\ Tidy(image) /\ Belongs(id, image)
  BY <1>1, <1>3, UnderWay DEF Looked, OnPages, ReadPdfWhole, Tidy
<1>6. CASE job' = [job EXCEPT ![id] = image]
  BY <1>1, <1>3, <1>4, <1>5, <1>6, JobMoves DEF JobInOrder
<1>7. CASE Ends(id, Failed("OCR_FAILED"))
  <2>1. "OCR_FAILED" \in Codes
    BY DEF Codes
  <2> QED
    BY <1>1, <1>7, <2>1, JobFails
<1> QED
  BY <1>1, <1>6, <1>7

LEMMA WriteImageStep ==
  ASSUME Ind, NEW id \in JobIds, WriteImage(id)
  PROVE  Ind'
<1> DEFINE written == [job[id] EXCEPT !.stage = "ocr"]
<1>1. job[id].stage = "write" /\ JobStep /\ job' = [job EXCEPT ![id] = written]
  BY DEF WriteImage, At
<1>2. /\ Granted(job[id]) /\ job[id].item.kind = "image" /\ job[id] \in JobState /\ job[id].image = "disk"
  BY <1>1, UnderWay DEF Entitled, SeesContent, Looked
<1>3. /\ written \in JobState /\ written.stage = "ocr" /\ written.image = "disk"
      /\ written.user = job[id].user /\ written.item = job[id].item
  <2>1. "ocr" \in Stages
    BY DEF Stages
  <2> QED
    BY <1>2, <2>1 DEF JobState
<1> HIDE DEF written
<1>4. Entitled(written)
  BY <1>2, <1>3 DEF Entitled, Granted
<1>5. Looked(written) /\ Tidy(written) /\ Belongs(id, written)
  BY <1>1, <1>2, <1>3, UnderWay DEF Looked, OnPages, ReadPdfWhole, Tidy
<1> QED
  BY <1>1, <1>3, <1>4, <1>5, JobMoves DEF JobInOrder

LEMMA WriteFailsStep ==
  ASSUME Ind, NEW id \in JobIds, WriteFails(id)
  PROVE  Ind'
<1> DEFINE failed == [job[id] EXCEPT !.stage = "finished", !.result = Failed("OCR_FAILED")]
<1>1. /\ job[id].stage = "write" /\ JobStep
      /\ job' = [job EXCEPT ![id] = failed] \/ job' = [job EXCEPT ![id] = Gone(job[id])]
  BY DEF WriteFails, At
<1>2. job[id] \in JobState /\ job[id].item.kind = "image" /\ job[id].image = "disk"
  BY <1>1, UnderWay DEF Looked
<1>3. /\ failed \in JobState /\ failed.stage = "finished" /\ failed.image = "disk"
      /\ failed.result.document = FALSE /\ failed.result.status = "failed"
      /\ failed.user = job[id].user /\ failed.item = job[id].item
  <2>1. "finished" \in Stages /\ "OCR_FAILED" \in Codes
    BY DEF Stages, Codes
  <2> QED
    BY <1>2, <2>1, FailedForm DEF JobState
<1> HIDE DEF failed
<1>4. Entitled(failed) /\ Looked(failed) /\ Tidy(failed) /\ Belongs(id, failed)
  BY <1>1, <1>3, UnderWay DEF Entitled, SeesContent, Looked, OnPages, ReadPdfWhole, Tidy
<1>5. CASE job' = [job EXCEPT ![id] = failed]
  BY <1>1, <1>3, <1>4, <1>5, JobMoves DEF JobInOrder
<1>6. CASE job' = [job EXCEPT ![id] = Gone(job[id])]
  <2>1. /\ Gone(job[id]) \in JobState /\ Entitled(Gone(job[id])) /\ Looked(Gone(job[id]))
        /\ Tidy(Gone(job[id])) /\ Belongs(id, Gone(job[id]))
    <3>1. CASE Gone(job[id]) = NoJob
      BY <3>1, NoJobForm, NothingRead DEF Tidy, Belongs
    <3>2. CASE /\ Gone(job[id]) \in JobState
               /\ Gone(job[id]).stage = "dead" /\ Gone(job[id]).image = "disk"
      <4>1. ~(id[1] > requests)
        BY <1>1 DEF Ind, JobsInOrder, JobInOrder, Belongs
      <4> QED
        BY <3>2, <4>1, NothingRead DEF Tidy, Belongs
    <3> QED
      BY <3>1, <3>2, GoneForm
  <2> QED
    BY <1>1, <1>6, <2>1, JobMoves DEF JobInOrder
<1> QED
  BY <1>1, <1>5, <1>6

LEMMA ReadPdfStep ==
  ASSUME Ind, NEW id \in JobIds, ReadPdf(id)
  PROVE  Ind'
<1> DEFINE doc == file[job[id].item.ref].doc
<1>1. job[id].stage = "read" /\ JobStep /\ job[id].item.kind = "pdf"
  BY DEF ReadPdf, Reads, At
<1>2. /\ Granted(job[id]) /\ doc \in Documents /\ job[id] \in JobState /\ job[id].ocr \in OcrSoFar
  BY <1>1, UnderWay DEF Entitled, SeesContent
<1>3. CASE PdfDefect(doc) # "none"
  <2>1. PdfDefect(doc) \in Codes /\ Ends(id, Failed(PdfDefect(doc)))
    BY <1>3 DEF ReadPdf, PdfDefect, Codes
  <2> QED
    BY <1>1, <2>1, JobFails
<1>4. NoOcrYet(doc) \in OcrSoFar /\ (NoOcrYet(doc).failure = "none" => Selected(doc) = Candidates(doc))
  BY <1>2, NoOcrForm, AllSelected
<1>5. CASE PdfDefect(doc) = "none" /\ Selected(doc) = {}
  <2>1. job' = Finished(id, PdfResult(doc, NoOcrYet(doc)), job[id].ocr)
    BY <1>5 DEF ReadPdf, Ends
  <2>2. /\ PdfResult(doc, NoOcrYet(doc)) \in Result
        /\ PdfResult(doc, NoOcrYet(doc)).status = "parsed" => NoOcrYet(doc).failure = "none"
    BY <1>2, <1>4, PdfForm
  <2>3. PdfResult(doc, NoOcrYet(doc)).status = "parsed" => PageNumbers(doc) \subseteq NativeText(doc) \cup job[id].ocr.read
    BY <1>2, <1>4, <1>5, <2>2, TextOrCandidate
  <2> QED
    BY <1>1, <1>2, <2>1, <2>2, <2>3, JobEnds
<1>6. CASE PdfDefect(doc) = "none" /\ Selected(doc) # {}
  <2> DEFINE opened == [job[id] EXCEPT !.stage = "render", !.doc = doc, !.todo = Selected(doc), !.ocr = NoOcrYet(doc)]
  <2>1. job' = [job EXCEPT ![id] = opened]
    BY <1>6 DEF ReadPdf
  <2>2. /\ opened \in JobState /\ opened.stage = "render" /\ opened.image = job[id].image /\ opened.doc = doc
        /\ opened.todo = Selected(doc) /\ opened.ocr = NoOcrYet(doc)
        /\ opened.user = job[id].user /\ opened.item = job[id].item
    <3>1. "render" \in Stages /\ Selected(doc) \in SUBSET Nat
      BY <1>2, PageSets DEF Stages
    <3> QED
      BY <1>2, <1>4, <3>1 DEF JobState
  <2> HIDE DEF opened
  <2>3. Entitled(opened)
    BY <1>2, <2>2 DEF Entitled, Granted
  <2>4. Looked(opened)
    BY <1>4, <1>6, <2>2 DEF Looked, OnPages, ReadPdfWhole
  <2>5. Tidy(opened) /\ Belongs(id, opened)
    BY <1>1, <2>2, UnderWay DEF Tidy
  <2> QED
    BY <1>1, <2>1, <2>2, <2>3, <2>4, <2>5, JobMoves DEF JobInOrder
<1> QED
  BY <1>3, <1>5, <1>6

(* Page n has been read, or a failure says that it has not. *)
LEMMA PageStep ==
  ASSUME Ind, JobStep, NEW id \in JobIds, OnPages(job[id]),
         NEW n \in job[id].todo, NEW said \in Told, NextPage(id, n, said)
  PROVE  Ind'
<1> DEFINE ocr == AddPage(job[id].ocr, n, said)
<1>1. job[id].stage \in {"render", "ocr"}
  BY DEF OnPages
<1>2. /\ Granted(job[id]) /\ job[id] \in JobState /\ job[id].doc \in Documents /\ job[id].todo \in SUBSET Nat
      /\ job[id].doc = file[job[id].item.ref].doc
      /\ job[id].ocr.failure = "none" => Candidates(job[id].doc) \subseteq job[id].ocr.read \cup job[id].todo
  BY <1>1, UnderWay DEF Entitled, SeesContent, Looked
<1>3. /\ ocr \in OcrSoFar
      /\ ocr.failure = "none" => job[id].ocr.failure = "none" /\ ocr.read = job[id].ocr.read \cup {n}
  <2>1. job[id].ocr \in OcrSoFar /\ n \in Nat
    BY <1>1, <1>2, UnderWay
  <2> QED
    BY <2>1, PageAdded
<1>4. \/ /\ job[id].todo # {n}
         /\ job' = [job EXCEPT ![id].stage = "render", ![id].image = "none", ![id].todo = @ \ {n}, ![id].ocr = ocr]
      \/ /\ job[id].todo = {n}
         /\ job' = Finished(id, PdfResult(job[id].doc, ocr), ocr)
  BY DEF NextPage
<1> HIDE DEF ocr
<1>5. CASE job[id].todo = {n}
  <2>1. /\ PdfResult(job[id].doc, ocr) \in Result
        /\ PdfResult(job[id].doc, ocr).status = "parsed" => ocr.failure = "none"
    BY <1>2, <1>3, PdfForm
  <2>2. PdfResult(job[id].doc, ocr).status = "parsed" =>
          PageNumbers(job[id].doc) \subseteq NativeText(job[id].doc) \cup ocr.read
    BY <1>2, <1>3, <1>5, <2>1, TextOrCandidate
  <2> QED
    BY <1>1, <1>2, <1>3, <1>4, <1>5, <2>1, <2>2, JobEnds
<1>6. CASE job[id].todo # {n}
  <2> DEFINE next == [job[id] EXCEPT !.stage = "render", !.image = "none", !.todo = job[id].todo \ {n}, !.ocr = ocr]
  <2>1. job' = [job EXCEPT ![id] = next]
    BY <1>4, <1>6
  <2>2. /\ next \in JobState /\ next.stage = "render" /\ next.image = "none" /\ next.doc = job[id].doc
        /\ next.todo = job[id].todo \ {n} /\ next.ocr = ocr
        /\ next.user = job[id].user /\ next.item = job[id].item
    <3>1. "render" \in Stages /\ job[id].todo \ {n} \in SUBSET Nat
      BY <1>2 DEF Stages
    <3> QED
      BY <1>2, <1>3, <3>1 DEF JobState
  <2> HIDE DEF next
  <2>3. Entitled(next)
    BY <1>2, <2>2 DEF Entitled, Granted
  <2>4. Looked(next)
    <3>1. next.todo # {}
      BY <1>6, <2>2
    <3>2. ocr.failure = "none" => Candidates(next.doc) \subseteq ocr.read \cup next.todo
      BY <1>2, <1>3, <2>2
    <3> QED
      BY <1>2, <2>2, <3>1, <3>2 DEF Looked, OnPages, ReadPdfWhole
  <2>5. Tidy(next) /\ Belongs(id, next)
    BY <1>1, <2>2, UnderWay DEF Tidy
  <2> QED
    BY <2>1, <2>2, <2>3, <2>4, <2>5, JobMoves DEF JobInOrder
<1> QED
  BY <1>5, <1>6

LEMMA RenderStep ==
  ASSUME Ind, NEW id \in JobIds, Render(id)
  PROVE  Ind'
<1> DEFINE rendered == [job[id] EXCEPT !.stage = "ocr", !.image = "memory"]
<1>1. job[id].stage = "render" /\ JobStep /\ job' = [job EXCEPT ![id] = rendered]
  BY DEF Render, At
<1>2. /\ rendered \in JobState /\ rendered.stage = "ocr" /\ rendered.image = "memory" /\ rendered.doc = job[id].doc
      /\ rendered.todo = job[id].todo /\ rendered.ocr = job[id].ocr
      /\ rendered.user = job[id].user /\ rendered.item = job[id].item
  <2>1. job[id] \in JobState /\ "ocr" \in Stages
    BY JobForm DEF Ind, Stages
  <2> QED
    BY <2>1 DEF JobState
<1> HIDE DEF rendered
<1>3. Entitled(rendered)
  BY <1>1, <1>2, UnderWay DEF Entitled, SeesContent, Granted
<1>4. Looked(rendered)
  BY <1>1, <1>2, UnderWay DEF Looked, OnPages, ReadPdfWhole
<1>5. Tidy(rendered) /\ Belongs(id, rendered)
  BY <1>1, <1>2, UnderWay DEF Tidy
<1> QED
  BY <1>1, <1>2, <1>3, <1>4, <1>5, JobMoves DEF JobInOrder

LEMMA RecogniseStep ==
  ASSUME Ind, NEW id \in JobIds, RenderFails(id) \/ RecognisePage(id)
  PROVE  Ind'
<1>1. CASE RenderFails(id)
  <2>1. PICK n \in job[id].todo : NextPage(id, n, "unrendered")
    BY <1>1 DEF RenderFails
  <2>2. OnPages(job[id]) /\ JobStep /\ "unrendered" \in Told
    BY <1>1 DEF RenderFails, At, OnPages, Told
  <2> QED
    BY <2>1, <2>2, PageStep
<1>2. CASE RecognisePage(id)
  <2>1. PICK n \in job[id].todo : \E said \in Says(job[id].doc.pages[n].legible) : NextPage(id, n, said)
    BY <1>2 DEF RecognisePage
  <2>2. PICK said \in Says(job[id].doc.pages[n].legible) : NextPage(id, n, said)
    BY <2>1
  <2>3. OnPages(job[id]) /\ JobStep
    BY <1>2 DEF RecognisePage, At, OnPages
  <2>4. said \in Told
    BY DEF Says, Told
  <2> QED
    BY <2>2, <2>3, <2>4, PageStep
<1> QED
  BY <1>1, <1>2

LEMMA RecogniseImageStep ==
  ASSUME Ind, NEW id \in JobIds, RecogniseImage(id)
  PROVE  Ind'
<1>1. job[id].stage = "ocr" /\ job[id].image = "disk" /\ JobStep
  BY DEF RecogniseImage, At
<1>2. Granted(job[id]) /\ job[id].item.kind = "image" /\ job[id].ocr \in OcrSoFar
  BY <1>1, UnderWay DEF Entitled, SeesContent, Looked
<1>3. PICK said \in Says(job[id].doc.pages[1].legible) : Ends(id, ImageResult(said))
  BY DEF RecogniseImage
<1>4. ImageResult(said) \in Result /\ job' = Finished(id, ImageResult(said), job[id].ocr)
  <2>1. said \in Told
    BY DEF Says, Told
  <2> QED
    BY <1>3, <2>1, ImageForm DEF Ends
<1> QED
  BY <1>1, <1>2, <1>4, JobEnds

-------------------------------------------------------------------------------
(* The theorems. *)

LEMMA InitInd == Init => Ind
<1> SUFFICES ASSUME Init PROVE Ind
  OBVIOUS
<1>1. Absent \in FileState /\ Absent.manifest = FALSE
  BY NoDocument DEF Absent, FileState
<1>2. /\ file \in [Files -> FileState] /\ \A f \in Files : file[f].manifest = FALSE
      /\ job \in [JobIds -> JobState] /\ \A id \in JobIds : job[id] = NoJob
      /\ sweep = NoFile /\ loop = Idle /\ requests = 0 /\ Idle.op = "idle"
  BY <1>1, NoJobForm DEF Init, Idle
<1>3. TypeOK
  <2>1. 0 \in 0 .. MaxRequests
    BY Constants
  <2> QED
    BY <1>2, <2>1 DEF TypeOK
<1>4. FilesInOrder /\ ToldInOrder /\ OwnContentOnly
  BY <1>2 DEF FilesInOrder, LiveFileIsWhole, ToldInOrder, OwnContentOnly
<1>5. JobsInOrder
  BY <1>2, NoJobForm, NothingRead DEF JobsInOrder, JobInOrder, Tidy, Belongs
<1> QED
  BY <1>3, <1>4, <1>5 DEF Ind

LEMMA NextStep == Ind /\ [Next]_vars => Ind'
<1> SUFFICES ASSUME Ind, [Next]_vars PROVE Ind'
  OBVIOUS
<1>1. CASE Upload \/ Cleanup
  BY <1>1, StoreBlobStep, StoreManifestStep, StoreFailsStep, ExpireStep, SweepBlobStep, SweepManifestStep DEF Upload, Cleanup
<1>2. CASE Analyze \/ Crash
  BY <1>2, SubmitStep, TakeResultStep, TimeoutStep, RespondStep, CrashStep DEF Analyze
<1>3. CASE \E u \in Users, items \in ItemLists : Receive(u, items)
  BY <1>3, ReceiveStep
<1>4. ASSUME NEW id \in JobIds, Step(id) PROVE Ind'
  BY <1>4, StartStep, ValidateStep, ReadFailsStep, ReadTextStep, ReadImageStep, WriteImageStep, WriteFailsStep, ReadPdfStep,
     RenderStep, RecogniseStep, RecogniseImageStep DEF Step
<1>5. CASE UNCHANGED vars
  BY <1>5 DEF vars, Ind, TypeOK, FilesInOrder, LiveFileIsWhole, JobsInOrder, JobInOrder, Entitled, SeesContent,
     ReadPdfWhole, Granted, Stored, Looked, OnPages, Tidy, Belongs, ToldInOrder, OwnContentOnly
<1> QED
  BY <1>1, <1>2, <1>3, <1>4, <1>5 DEF Next

(* The inductive invariant: files are written and removed in order, every   *)
(* job has been granted what it has seen, and knows what it has not read.   *)
THEOREM Invariant == Spec => []Ind
BY InitInd, NextStep, PTL DEF Spec

(* The store, the event loop and the jobs have their types.                 *)
THEOREM TypeCorrect == Spec => []TypeOK
<1>1. Ind => TypeOK
  BY DEF Ind
<1> QED
  BY <1>1, Invariant, PTL

(* A PDF reported as parsed was looked at page by page: no page limit, no   *)
(* failed page and no file that expired meanwhile goes unreported.          *)
THEOREM ParsedIsRead == Spec => []ParsedMeansRead
<1>1. ASSUME Ind PROVE ParsedMeansRead
  BY <1>1 DEF Ind, JobsInOrder, JobInOrder, Looked, ReadPdfWhole, ParsedMeansRead
<1> QED
  BY <1>1, Invariant, PTL

(* A request is only told of content its own user uploaded, under the       *)
(* request id and scope it names, whatever is uploaded, swept or restarted  *)
(* between the check and the read.                                          *)
THEOREM OnlyOwnContent == Spec => []OwnContentOnly
<1>1. Ind => OwnContentOnly
  BY DEF Ind
<1> QED
  BY <1>1, Invariant, PTL

(* A reference that has not expired has its content, and a picture of a     *)
(* document outlives its job only as the image file that a crash or a       *)
(* failed write left, never one that a request was told the text of.        *)
THEOREM DiskStaysInOrder == Spec => []DiskInOrder
<1>1. Ind => DiskInOrder
  BY DEF Ind, FilesInOrder, DiskInOrder, NoImageLeft, JobsInOrder, JobInOrder, Tidy
<1> QED
  BY <1>1, Invariant, PTL
===============================================================================
