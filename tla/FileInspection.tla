---------------------------- MODULE FileInspection ----------------------------
(***************************************************************************)
(* Files on their way through the API: the upload (routes/temp_files.py)   *)
(* into the encrypted store (infrastructure/temp_storage/filesystem.py),   *)
(* the references of an Analyze request that are resolved and parsed in    *)
(* the threads of a ParserWorkerPool (routes/analyze.py,                   *)
(* runtime/parser_worker.py, parser/runner.py), and the sweep of expired   *)
(* files (runtime/cleanup/temp_files.py).                                  *)
(*                                                                         *)
(* analyze_prompt is a coroutine that calls pool.execute synchronously, so *)
(* the event loop does one thing at a time: it is the variable loop.       *)
(* What goes on beside it are the jobs in pool threads, whose callers may  *)
(* have given up, the sweep, the clock and a crash of the process.  Every  *)
(* request builds a pool of its own.                                       *)
(*                                                                         *)
(* Nothing in src/ calls the cleanup service yet.  Here it may run at any  *)
(* time, as its tests do, so that the properties also hold for a schedule. *)
(***************************************************************************)
EXTENDS DocumentParsing

CONSTANTS
  Files,        \* the file references that uploads hand out
  Users,
  Uploads,      \* the uploads: records of the user, the claimed kind and the document
  ItemLists,    \* the file references of a request, see Items
  MaxRequests,  \* bound: Analyze requests
  MaxItems,     \* bound: file references in one request
  MaxWorkers, MaxQueue,
  NoFile

(* An item names a reference and a kind; claim says whether it also names   *)
(* the request id and the temp scope the file was stored under.             *)
Items == [ref : Files, kind : Kinds, claim : BOOLEAN]

ASSUME FileConstants ==
  /\ MaxWorkers \in Nat \ {0} /\ MaxQueue \in Nat \ {0}
  /\ MaxRequests \in Nat /\ MaxItems \in Nat
  /\ NoFile \notin Files
  /\ Uploads \subseteq [owner : Users, kind : Kinds, doc : Documents]
  /\ \A items \in ItemLists : items \in Seq(Items) /\ Len(items) <= MaxItems

VARIABLES
  file,     \* what is stored for each reference
  sweep,    \* the file whose blob the sweep has removed, or NoFile
  loop,     \* what the event loop is doing
  requests, \* number of Analyze requests so far
  job       \* the parser job of each item of each request

vars == <<file, sweep, loop, requests, job>>

NoDoc == [format |-> "empty", pages |-> << >>]
Absent == [owner |-> "none", kind |-> "none", doc |-> NoDoc, blob |-> FALSE, manifest |-> FALSE, expired |-> FALSE]
Idle == [op |-> "idle"]
JobIds == (1..MaxRequests) \X (1..MaxItems)

NoItem == [ref |-> NoFile, kind |-> "unknown", claim |-> FALSE]
NoJob == [stage |-> "none", user |-> "none", item |-> NoItem, image |-> "none", doc |-> NoDoc,
          todo |-> {}, ocr |-> NoOcrYet(NoDoc), result |-> Skipped]

Init == /\ file = [f \in Files |-> Absent]
        /\ sweep = NoFile
        /\ loop = Idle
        /\ requests = 0
        /\ job = [id \in JobIds |-> NoJob]

-------------------------------------------------------------------------------
(* The store. *)

(* Mutant: the manifest is written before the blob. *)
StoreManifestFirst(f, up) ==
  /\ loop = Idle
  /\ file[f] = Absent
  /\ loop' = [op |-> "upload", ref |-> f]
  /\ file' = [file EXCEPT ![f] = [owner |-> up.owner, kind |-> up.kind, doc |-> up.doc, blob |-> FALSE,
                                  manifest |-> TRUE, expired |-> FALSE]]
  /\ UNCHANGED <<sweep, requests, job>>

(* upload_temp_file, which has checked kind and size, enters store(): the   *)
(* blob is renamed into place ...                                           *)
StoreBlob(f, up) ==
  /\ loop = Idle
  /\ file[f] = Absent
  /\ loop' = [op |-> "upload", ref |-> f]
  /\ file' = [file EXCEPT ![f] = [owner |-> up.owner, kind |-> up.kind, doc |-> up.doc, blob |-> TRUE,
                                  manifest |-> FALSE, expired |-> FALSE]]
  /\ UNCHANGED <<sweep, requests, job>>

(* ... and then its manifest; the client gets the reference. *)
StoreManifest == /\ loop.op = "upload"
                 /\ file' = [file EXCEPT ![loop.ref].manifest = TRUE]
                 /\ loop' = Idle
                 /\ UNCHANGED <<sweep, requests, job>>

(* A write raises: what is on the disk by then stays, as after a crash. *)
StoreFails == /\ loop.op = "upload"
              /\ loop' = Idle
              /\ UNCHANGED <<file, sweep, requests, job>>

Expire(f) == /\ file[f].manifest /\ ~file[f].expired
             /\ file' = [file EXCEPT ![f].expired = TRUE]
             /\ UNCHANGED <<sweep, loop, requests, job>>

(* sweep_expired looks for manifests, and delete() removes the blob ... *)
SweepBlob(f) == /\ sweep = NoFile
                /\ file[f].manifest /\ file[f].expired
                /\ file' = [file EXCEPT ![f].blob = FALSE]
                /\ sweep' = f
                /\ UNCHANGED <<loop, requests, job>>

(* ... and then the manifest. *)
SweepManifest == /\ sweep # NoFile
                 /\ file' = [file EXCEPT ![sweep].manifest = FALSE]
                 /\ sweep' = NoFile
                 /\ UNCHANGED <<loop, requests, job>>

-------------------------------------------------------------------------------
(* The event loop: one Analyze request after the other. *)

Receive(u, items) == /\ loop = Idle
                     /\ requests < MaxRequests
                     /\ requests' = requests + 1
                     /\ loop' = [op |-> "analyze", user |-> u, items |-> items, told |-> << >>]
                     /\ UNCHANGED <<file, sweep, job>>

Current == <<requests, Len(loop.told) + 1>>
Busy == loop.op = "analyze" /\ Len(loop.told) < Len(loop.items)
Tell(result) == loop' = [loop EXCEPT !.told = Append(@, result)]

Pool(request) == {id \in JobIds : id[1] = request}
Threads == {"validate", "read", "write", "render", "ocr"}
Running(request) == {id \in Pool(request) : job[id].stage \in Threads}
SlotsTaken(request) == {id \in Pool(request) : job[id].stage \in Threads \union {"queued"}}

(* execute: a slot of the pool, or PARSER_LIMIT_EXCEEDED at once. *)
Submit == /\ Busy
          /\ job[Current].stage = "none"
          /\ IF Cardinality(SlotsTaken(requests)) < MaxWorkers + MaxQueue
             THEN /\ job' = [job EXCEPT ![Current] = [NoJob EXCEPT !.stage = "queued", !.user = loop.user,
                                                                   !.item = loop.items[Current[2]]]]
                  /\ UNCHANGED loop
             ELSE /\ Tell(Failed("PARSER_LIMIT_EXCEEDED"))
                  /\ UNCHANGED job
          /\ UNCHANGED <<file, sweep, requests>>

TakeResult == /\ Busy
              /\ job[Current].stage = "finished"
              /\ Tell(job[Current].result)
              /\ UNCHANGED <<file, sweep, requests, job>>

(* Mutant: the timeout only counts for a job that a thread has taken up. *)
TimeoutOfRunning == /\ Busy
                    /\ job[Current].stage \in Threads
                    /\ Tell(TimedOut)
                    /\ UNCHANGED <<file, sweep, requests, job>>

(* future.result timed out; cancel() takes a queued job back, a running one goes on. *)
Timeout == /\ Busy
           /\ job[Current].stage \in Threads \union {"queued"}
           /\ job' = [job EXCEPT ![Current].stage = IF @ = "queued" THEN "cancelled" ELSE @]
           /\ Tell(TimedOut)
           /\ UNCHANGED <<file, sweep, requests>>

(* What remains of a job that is over: the image file that nobody removed. *)
Gone(j) == IF j.image = "disk" THEN [NoJob EXCEPT !.stage = "dead", !.image = "disk"] ELSE NoJob

(* The answer is sent; nothing holds on to the results any more. *)
Respond == /\ loop.op = "analyze" /\ ~Busy
           /\ loop' = Idle
           /\ job' = [id \in JobIds |-> IF id[1] = requests /\ job[id].stage \notin Threads THEN Gone(job[id]) ELSE job[id]]
           /\ UNCHANGED <<file, sweep, requests>>

-------------------------------------------------------------------------------
(* The jobs: FileParserRunner.run in a pool thread. *)

At(id, stage) == job[id].stage = stage
Awaited(id) == Busy /\ id = Current

(* The future is done; the result of a job whose caller gave up goes nowhere. *)
Finished(id, result, ocr) ==
  [job EXCEPT ![id] = IF Awaited(id) THEN [@ EXCEPT !.stage = "finished", !.result = result, !.ocr = ocr, !.image = "none"]
                                     ELSE NoJob]
Ends(id, result) == job' = Finished(id, result, job[id].ocr)
JobStep == UNCHANGED <<file, sweep, loop, requests>>

Start(id) == /\ At(id, "queued")
             /\ Cardinality(Running(id[1])) < MaxWorkers
             /\ job' = [job EXCEPT ![id].stage = "validate"]
             /\ JobStep

(* Mutant: the scope is compared, the owner is not. *)
RefusedIgnoringOwner(id) ==
  LET f == file[job[id].item.ref]
  IN  CASE ~f.manifest -> "TEMP_FILE_NOT_FOUND"
        [] ~job[id].item.claim -> "TEMP_FILE_SCOPE_MISMATCH"
        [] f.expired -> "TEMP_FILE_EXPIRED"
        [] f.kind = "unknown" -> "UNSUPPORTED_FILE_KIND"
        [] OTHER -> "none"

(* TemporaryFileResolver.resolve over the manifest, in this order. *)
Refused(id) ==
  LET f == file[job[id].item.ref]
  IN  CASE ~f.manifest -> "TEMP_FILE_NOT_FOUND"
        [] f.owner # job[id].user -> "TEMP_FILE_OWNER_MISMATCH"
        [] ~job[id].item.claim -> "TEMP_FILE_SCOPE_MISMATCH"
        [] f.expired -> "TEMP_FILE_EXPIRED"
        [] f.kind = "unknown" -> "UNSUPPORTED_FILE_KIND"
        [] OTHER -> "none"

(* The plan comes from the kind the request names. *)
Validate(id) ==
  LET plan == SelectPlan(job[id].item.kind)
  IN  /\ At(id, "validate")
      /\ CASE Refused(id) # "none" -> Ends(id, Failed(Refused(id)))
           [] Refused(id) = "none" /\ ~Runnable(plan) -> Ends(id, Failed("UNSUPPORTED_FILE_KIND"))
           [] Refused(id) = "none" /\ PLAN_STEPS[plan] = << >> -> Ends(id, Skipped)
           [] OTHER -> job' = [job EXCEPT ![id].stage = "read"]
      /\ JobStep

(* TemporaryStorageContentSource.read: the manifest again, the clock, the blob. *)
Readable(f) == file[f].manifest /\ file[f].blob /\ ~file[f].expired

SameKind(id) == job[id].item.kind = file[job[id].item.ref].kind
ReadCode(kind) == IF kind = "image" THEN "OCR_FAILED" ELSE "PARSER_WORKER_FAILED"
MismatchCode(kind) == IF kind = "pdf" THEN "PARSER_WORKER_FAILED" ELSE "UNSUPPORTED_FILE_KIND"

(* The adapter compares the kind of the request with the stored one, and reads. *)
ReadFails(id) == /\ At(id, "read")
                 /\ ~SameKind(id) \/ ~Readable(job[id].item.ref)
                 /\ LET kind == job[id].item.kind
                    IN  Ends(id, Failed(IF SameKind(id) THEN ReadCode(kind) ELSE MismatchCode(kind)))
                 /\ JobStep

Reads(id, kinds) == /\ At(id, "read")
                    /\ SameKind(id) /\ job[id].item.kind \in kinds
                    /\ Readable(job[id].item.ref)
                    /\ JobStep

ReadText(id) == /\ Reads(id, {"plain_text", "code"})
                /\ Ends(id, TextResult(file[job[id].item.ref].doc))

(* For the OCR engine the image gets a file of its own, if it can be created ... *)
ReadImage(id) == /\ Reads(id, {"image"})
                 /\ \/ job' = [job EXCEPT ![id].stage = "write", ![id].image = "disk",
                                          ![id].doc = file[job[id].item.ref].doc]
                    \/ Ends(id, Failed("OCR_FAILED"))

(* ... and is written to it.                                                *)
WriteImage(id) == /\ At(id, "write")
                  /\ job' = [job EXCEPT ![id].stage = "ocr"]
                  /\ JobStep

(* If the write raises, image_path is not set yet: the file stays.          *)
WriteFails(id) == /\ At(id, "write")
                  /\ job' = [job EXCEPT ![id] = IF Awaited(id)
                                                THEN [@ EXCEPT !.stage = "finished", !.result = Failed("OCR_FAILED")]
                                                ELSE Gone(@)]
                  /\ JobStep

ReadPdf(id) ==
  LET doc == file[job[id].item.ref].doc
  IN  /\ Reads(id, {"pdf"})
      /\ CASE PdfDefect(doc) # "none" -> Ends(id, Failed(PdfDefect(doc)))
           [] PdfDefect(doc) = "none" /\ Selected(doc) = {} -> Ends(id, PdfResult(doc, NoOcrYet(doc)))
           [] OTHER -> job' = [job EXCEPT ![id].stage = "render", ![id].doc = doc,
                                          ![id].todo = Selected(doc), ![id].ocr = NoOcrYet(doc)]

(* Pages are looked at in their order. *)
IsFirst(n, todo) == n \in todo /\ \A m \in todo : n <= m

(* Page n is done with: the next one is rendered, or the results are merged. *)
NextPage(id, n, said) ==
  LET ocr == AddPage(job[id].ocr, n, said)
  IN  job' = IF job[id].todo # {n}
             THEN [job EXCEPT ![id].stage = "render", ![id].image = "none", ![id].todo = @ \ {n}, ![id].ocr = ocr]
             ELSE Finished(id, PdfResult(job[id].doc, ocr), ocr)

(* render_page reads the file once more, and the store keeps the bitmap. *)
Render(id) == /\ At(id, "render")
              /\ Readable(job[id].item.ref)
              /\ job' = [job EXCEPT ![id].stage = "ocr", ![id].image = "memory"]
              /\ JobStep

RenderFails(id) == /\ At(id, "render")
                   /\ \E n \in job[id].todo : IsFirst(n, job[id].todo) /\ NextPage(id, n, "unrendered")
                   /\ JobStep

(* What the engine says of one picture, given whether there is text on it. *)
Says(legible) == {"failed", "timeout", IF legible THEN "text_found" ELSE "no_text_detected"}

(* recognize on an image file, which is unlinked in the finally clause. *)
RecogniseImage(id) == /\ At(id, "ocr") /\ job[id].image = "disk"
                      /\ \E said \in Says(job[id].doc.pages[1].legible) : Ends(id, ImageResult(said))
                      /\ JobStep

(* _recognize_and_release on the page at hand. *)
RecognisePage(id) == /\ At(id, "ocr") /\ job[id].image = "memory"
                     /\ \E n \in job[id].todo : IsFirst(n, job[id].todo)
                          /\ \E said \in Says(job[id].doc.pages[n].legible) : NextPage(id, n, said)
                     /\ JobStep

(* The process dies: threads, pools and bitmaps are gone, files stay. *)
Crash == /\ loop' = Idle
         /\ sweep' = NoFile
         /\ job' = [id \in JobIds |-> Gone(job[id])]
         /\ loop # Idle \/ sweep # NoFile \/ job' # job
         /\ UNCHANGED <<file, requests>>

-------------------------------------------------------------------------------

Upload == (\E f \in Files, up \in Uploads : StoreBlob(f, up)) \/ StoreManifest \/ StoreFails
Cleanup == (\E f \in Files : Expire(f) \/ SweepBlob(f)) \/ SweepManifest
Analyze == Submit \/ TakeResult \/ Timeout \/ Respond
Step(id) == \/ Start(id) \/ Validate(id) \/ ReadFails(id) \/ ReadText(id) \/ ReadPdf(id)
            \/ ReadImage(id) \/ WriteImage(id) \/ WriteFails(id)
            \/ Render(id) \/ RenderFails(id) \/ RecogniseImage(id) \/ RecognisePage(id)

Next == \/ Upload \/ Cleanup \/ Analyze \/ Crash
        \/ \E u \in Users, items \in ItemLists : Receive(u, items)
        \/ \E id \in JobIds : Step(id)

Spec == Init /\ [][Next]_vars

(* The coroutine goes on when it can and its timer fires.  Nothing is       *)
(* assumed of the jobs: a parser or an OCR worker may hang for ever.        *)
FairSpec == Spec /\ WF_vars(Submit) /\ WF_vars(Timeout) /\ WF_vars(TakeResult) /\ WF_vars(Respond)

-------------------------------------------------------------------------------
(* Properties. *)

(* A PDF whose result says "parsed" was looked at page by page: each page   *)
(* gave native text or OCR said what is on it.  A page limit, a page that   *)
(* cannot be rendered, a file that expired half way, an OCR timeout must    *)
(* all end as "partial": only then does the route report unscanned content. *)
ParsedMeansRead ==
  \A id \in JobIds :
    LET j == job[id]
        doc == file[j.item.ref].doc
    IN  j.stage = "finished" /\ j.result.status = "parsed" /\ j.item.kind = "pdf"
        => PageNumbers(doc) \subseteq NativeText(doc) \union j.ocr.read

(* What a request is told of the content of a file is its user's own, and   *)
(* was asked for with the request id and scope of the upload: the content   *)
(* source itself takes these from the manifest, so only the check that came *)
(* before it, in another read of the store, stands between two users.       *)
OwnContentOnly ==
  loop.op = "analyze" =>
    \A i \in 1..Len(loop.told) :
      loop.told[i].document => file[loop.items[i].ref].owner = loop.user /\ loop.items[i].claim

(* A reference that has not expired has its blob, whatever uploads, sweeps, *)
(* failed writes and crashes did: the two files are written and removed in  *)
(* the right order.                                                         *)
LiveFileIsWhole == \A f \in Files : file[f].manifest /\ ~file[f].expired => file[f].blob

(* A picture of a document is there while it is written or read.  What      *)
(* outlives its job is an image file that a crash or a failed write left:   *)
(* once a request is told what was read, its picture is gone.               *)
NoImageLeft == \A id \in JobIds :
  LET j == job[id]
  IN  \/ j.image = "none"
      \/ j.stage \in {"write", "ocr"}
      \/ j.image = "disk" /\ j.stage = "dead"
      \/ j.image = "disk" /\ j.stage = "finished" /\ ~j.result.document

(* What is on the disk is in order.                                         *)
DiskInOrder == LiveFileIsWhole /\ NoImageLeft

(* A job that comes to an end removes its image file, whatever its result.  *)
EndedJobLeavesNoImage == \A id \in JobIds : job[id].stage = "finished" => job[id].image = "none"

(* The event loop is free again after every Analyze request, also when      *)
(* every parser hangs.                                                      *)
EveryAnalysisAnswered == loop.op = "analyze" ~> loop.op # "analyze"
===============================================================================
