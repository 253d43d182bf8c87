# PromptGuard in TLA+

PromptGuard watches what a user is about to send to a web chat.  A browser
extension intercepts the send, asks the API of the organisation to analyse the
prompt and its attachments, and lets the send through, warns, masks or blocks.
The API runs recognisers and a machine-learning pipeline in separate
processes, decides by policy, and stores an event without raw text.  An
administrator manages rules, users and policy in a dashboard.

This directory holds TLA+ modules translated from that code, TLC
configurations that check them on small instances, and proofs that TLAPS
checks for every instance.  `PROJECT.json` says for each definition which
source lines it stands for.  Paths below are relative to the repository.

## 1. Inventory

API paths are under `apps/api/app`, extension paths under
`apps/extension/src`.

| Component | State | Operations | What makes it correct |
|---|---|---|---|
| Resident worker process (`runtime/resident_worker_process.py`) | semaphore, counters, last failure, one-thread executor, subprocess and its two pipes | `request`, `restart`, `close`, `snapshot` | a call gets the answer to its own payload; slots and counters are given back on every path; no answer is left in the pipes for the next job; a call ends |
| Torch and Paddle worker clients (`runtime/torch_worker_client.py`, `paddle_worker_client.py`, their payload stores, `scripts/*_worker.py`) | payload files, models in the worker | `execute`, `readiness_probe`, `close` | raw text does not outlive the call; ok means the worker said ok to this call, in time |
| ML inference queue (`runtime/ml_inference_queue.py`) | thread pool, semaphore, counters, futures and callbacks | `execute`, `snapshot`, `shutdown` | bounded admission; one release per slot, whoever runs the callback; operations that nobody waits for any more are bounded like the others |
| Parser worker pool (`runtime/parser_worker.py`) | semaphore and threads, one pool per request | `execute` | the event loop is free again after every request; a parser that goes on alone harms nobody |
| Prompt preflight (`content/promptPreflightController.ts`, `sendInterceptor.ts`, `registeredAttachmentInputs.ts`, `fileUploadPreflightController.ts`, `contentScript.ts`) | current attempt, `analyzing`, remembered paste, overlay, registered inputs, pending uploads | intercept, inspect, decide, replay, mask and reinspect, upload, reinstall | nothing leaves the page without a decision that allows it; one send per gesture; a reference belongs to one prompt; an inspection ends |
| Extension background (`background/*.ts`) | tokens in extension storage, refresh in flight | authenticated request, refresh, login, logout, upload | the stored pair comes from one answer; every message is answered |
| Account sessions (`routes/auth.py`, `core/tokens.py`) | user rows, refresh token rows | login, refresh, logout, change password | a token is rotated once unless two refreshes overlap; a password change revokes what existed |
| User administration (`routes/admin_users.py`, `setup.py`, `db/seed.py`) | user rows | create, role, status, bootstrap, seed | an active administrator remains, or comes back with the next start |
| Dashboard session (`routes/dashboard_session.py`) | session rows, cookies | csrf, login, mutation check, logout | cookie and row stay in step |
| Analyze route (`routes/analyze.py`, `services/*`) | idempotency keys, events, rules | `analyze_prompt` | one event per client request; the response is what policy decided; a clear answer means that everything was looked at |
| Policy (`domain/policy/orchestrator.py`, `application/analyze/policy_adapter.py`) | none | `decide` | the strongest finding wins; failures decide as configured |
| Filter rules and their page (`services/filter_rules.py`, `routes/dashboard_filters.py`, `apps/dashboard/src/filters.ts`) | rule rows; what a page has loaded and typed | list, make, patch, archive, dry run | overlapping editors lose nobody's columns; a rule that is on finds something |
| Temporary files (`infrastructure/temp_storage`, `routes/temp_files.py`) | two files per reference | store, resolve, delete, sweep | owner only, until expiry; whole while they live |
| Text pipeline (`normalization`, `segmenter`, `atoms`, `mapping`, `masking`, `detectors`, `scanner`) | none | functions over offsets | ranges lead back to the original; nothing is lost on the way |
| Parsers, OCR (`parser`, `infrastructure/ocr`, `infrastructure/pdf`) | image files, rendered pages | parse, render, recognise, merge | "parsed" means that every page was read |
| Models (`ml`) | manifests and what was loaded | load, embed, classify, verify | what is loaded fits together |
| Events and statistics (`routes/events.py`, `stats.py`, `dashboard_overview.py`) | events, detections, inputs | list, page, overview, statistics | reports agree with the events and with themselves |
| Readiness and status (`routes/health.py`, `dashboard_status.py`, `runtime/worker_clients.py`) | cached clients, worker processes | `healthz`, `readyz`, dashboard status | an answer is true of some moment of its check |
| HTTP interface, remaining dashboard pages, extension options, schema, deployment | - | validation, presentation, declarations | - |

### How they interact

* Content script to background worker: `chrome.runtime` messages, one promise
  per request, each with a timeout in the content script.
* Background worker to API: HTTPS with a bearer token; a 401 makes the
  background refresh once and repeat the request.
* Analyze route to Torch worker: `AnalyzeTorchWorker` submits an operation to
  `MlInferenceQueue`; the operation calls `TorchWorkerClient.execute`, which
  goes through `ResidentWorkerProcess.request` to one subprocess shared by all
  requests.  Each of the three has a timeout of its own.
* Analyze route to parsers: one `ParserWorkerPool` per request, called
  synchronously from the coroutine, so that the event loop stands still
  meanwhile.
* Parsers to Paddle worker: as to the Torch worker, through
  `PaddleWorkerClient`.
* Readiness to workers: through clients that are cached by their arguments, so
  that callers with other timeouts have other processes.
* Analyze route to policy: the route loads the filter rules and the policy
  settings, gathers matches, parser results and the evidence of the context
  worker, and calls `decide` once; dashboard routes edit the same rows at any
  time.
* Routes share the database rows only.  PostgreSQL runs READ COMMITTED, so a
  check in one statement and a write in a later one are two steps.
* Dashboard to API: session cookie and CSRF header; each fetch of a CSRF token
  rotates it.

### What is hard here

* **Threads behind a future**: three nested boundaries, each of which may give
  up before the one below it does; work that nobody waits for still runs.
* **A lock across blocking I/O**: the executor thread holds `_lock` while it
  reads from the subprocess, and restart and close need the same lock.
* **A shared pipe without request ids**: the n-th line answers the n-th job.
* **Callbacks in any thread**: a slot is given back by the pool thread, by the
  caller that cancels or by the caller that registers the callback.
* **Await points in the page**: between the inspection and the replay the user
  types, pastes, attaches and clicks; a second controller replaces the first.
* **Check, then commit**: sessions, users, idempotency keys.
* **Crashes between two files**: temporary uploads.
* **Ranges through several cuts**: a match is found in a shortened text, a
  signal in an atom, a candidate in a chunk of a segment.
* **Reports in several queries**, and pages on which clicks overlap.

`PROJECT.json` lists these hazards at their lines, with the properties that
would catch each.

## 2. Modules

| Module | Models | Proofs |
|---|---|---|
| `BoundedAdmission` | abstract: what a bounded work boundary promises | `MlInferenceQueueProofs` |
| `ResidentWorker` | `ResidentWorkerProcess` with its executor thread, pipes and subprocess | `ResidentWorkerProofs` |
| `TorchWorkerClient` | `TorchWorkerClient.execute` around it, the payload store, the worker's line loop | `ResidentWorkerProofs` |
| `MlInferenceQueue` | `MlInferenceQueue` over a thread pool and futures | `MlInferenceQueueProofs` |
| `PromptPreflight` | the controllers of the content script on one page | `PromptPreflightProofs` |
| `PolicyDecision` | `PolicyOrchestrator.decide`, context evidence of several texts (operators, no state) | `AnalyzeRequestProofs` |
| `FilterRules` | rule rows and policy settings, their editors, what a request reads (extends `PolicyDecision`) | `AnalyzeRequestProofs` |
| `AnalyzeRequest` | `POST /prompts/analyze` beside those editors (extends `FilterRules`) | `AnalyzeRequestProofs` |
| `FilterPage` | the filters page of the dashboard with the handlers it calls; implements the editors of `FilterRules` | `FilterPageProofs` |
| `AccountSessions` | refresh tokens, and the background worker that lives on them | `DashboardAccountsProofs` |
| `DashboardAccounts` | dashboard sessions, CSRF tokens, administration of users, bootstrap and seed | `DashboardAccountsProofs` |
| `DocumentParsing` | plans, adapters, page coverage and the merge of OCR results (operators) | `FileInspectionProofs` |
| `FileInspection` | uploads, the encrypted store, the parser pool of a request, OCR, sweep and crash (extends `DocumentParsing`) | `FileInspectionProofs` |
| `TextScanning` | normalisation, detectors, rules, placeholders (operators) | `TextPipelineProofs` |
| `TextSegmentation` | atoms, segments, signal mapping, chunks (operators, extends `TextScanning`) | `TextPipelineProofs` |
| `ModelArtifacts` | manifests, label files, thresholds, what a loader takes (operators) | `TextPipelineProofs` |
| `TextPipeline` | a request's texts on their way to rules, mask, classifier and verifier (extends `TextSegmentation`, instantiates `ModelArtifacts` and `PolicyDecision`) | `TextPipelineProofs` |
| `AnalyzeContract` | the inputs of an Analyze request from the page to the answer (operators) | `PromptPreflightProofs` |
| `EventHistory` | events, their rows, and reports of several queries (extends `AnalyzeContract`) | `PromptPreflightProofs` |
| `ServiceReadiness` | health checks, cached worker clients, worker probes | `ResidentWorkerProofs` |
| `MC*` | the same modules for TLC: documents, rules, requests and settings of the instances | - |

Definitions named in a comment that starts with *Mutant* are wrong on purpose.
They are not used by the specifications: each is a plausible slip in one
definition, and putting it in the place of that definition makes TLC find the
property it is paired with (`mutants` in `PROJECT.json`) violated.  They show
that the properties can fail.

### BoundedAdmission

A fixed number of slots.  A job is admitted while one is free and is otherwise
rejected; an admitted job takes one slot and gives back one; its caller is
told one outcome.  Outcome and release are independent: a caller may be told
`timeout` long before the slot is free again, or be told a value after it.
`ResidentWorker` and `MlInferenceQueue` are both shown to implement it.

### ResidentWorker

A request is one call of `request()`.  `phase` is its program counter:

| phase | in the code |
|---|---|
| new, acquired, recorded | around `_slots.acquire`, `_record_submitted` |
| waiting | in `future.result(timeout)` |
| restarting | in the handlers of TimeoutError and of other exceptions, before or in `restart()` |
| settled, leaving, done | `finally`: `_record_finished`, then `_slots.release` |

`future`, `queue`, `rpcJob` and `rpcStage` are the one-thread executor and the
place it has reached in `_request_locked`; `process`, `stdin` and `stdout` are
the subprocess and what is on its pipes.  Whoever takes `_lock` to restart or
close does so in a single step, since nothing done under it can be observed by
the others; across steps only the executor thread holds it (`LockFree`).  The
subprocess answers one line for each line it reads, or dies at any moment; a
dead process breaks the write or ends the read.  A process can die while no job
is under way, and is replaced by the next job.

A timeout is a step that is always possible while a caller waits: no clock is
modelled.  The future of a call that gave up is not cancelled, so its job stays
in the queue and is written to the pipe later.

### TorchWorkerClient

Extends `ResidentWorker` by one program counter per call around it: write the
payload, validate, request, parse the line or look at `snapshot()` for a
failure code (two looks at `_process` without the lock), delete the payload in
`finally`.  `WorkerHandles` refines the worker's step: it reads the payload
file of the job and answers PAYLOAD_UNAVAILABLE when it is gone.  A write that
fails half way happens before the `try`, so its partial file stays.

### MlInferenceQueue

A job is one call of `execute()`; its phases are the statements of that method,
including the registration of the callback, which runs inline when the future
is done by then.  `_release_capacity` is two steps (semaphore, counter), run by
whichever thread owns the callback, and a pool thread is busy until it is over.
A cancelled future stays in the pool's work queue until a thread takes it out.
An operation whose caller was told timeout goes on in its thread, with its slot:
`OperationsBounded` compares the operations in the pool with the semaphore.
`concurrent.futures` itself is external: it is modelled as this code uses it.

### PromptPreflight

The actions are the tasks and continuations of one event loop: the code between
two awaits is one action, and microtasks (the runs woken by the last upload)
come before any other task (`Quiet`).  A run is one execution of
`handleAttempt` or `reinspectMaskedPrompt` that passes the guard; it carries
what its request held and the verdict.  `owner[g]` is the run whose id is
`currentAttemptId` of controller `g`; there are two controllers, since
`contentScript.ts` installs one with the default configuration and replaces it
when the fetched one arrives.  The page (`text`, `attached`, `sent`) is
external and free to ignore a click, to convert a paste to an attachment and to
drop attachments.

A member of `Files` is what is attached at once.  What the end of its upload
registers is of two kinds, references (`registered`) and unsupported files
(`unsupported`).  Both are dropped if the request id they belong to was cleared
by a replay meanwhile; but if `uploadFile` raises, the catch clause registers the
unsupported files without naming a request id, so that they are registered also
after the send (`RegisterUploaded`, and `NoInputOfSentFile` below).

### PolicyDecision

`decide` as operators over a request record: the matched rules, the inputs with
their scan results, reason codes, context evidence and settings.  The list of
rules becomes a set.  In the code its order decides only between rules of the
same action and severity, and there filter rules precede context labels, which
precede failure settings; `Rank` says so, and two rules of the same rank lead to
the same action.  A reason code is reduced to the basis it names.
`ContextOfTexts` is what `AnalyzeTorchWorker.evaluate` and
`build_context_risk_evidence` make of one answer per text, up to the first text
that fails.

### FilterRules

A dashboard handler is two steps, `Read` and `Save`: other handlers commit in
between, since a SELECT takes no lock.  `Save` writes what the unit of work
finds changed against the row that was read, which is why two handlers may
overlap without losing each other's columns (`Dirty`).  The first override of a
built-in rule, and the first edit of the settings, inserts a row; the second of
two such handlers fails on the unique key.  Creating a rule is one statement.
The bearer-token routes of `filters.py` write the same rows the same way and are
the same actions.  `ActiveRules` is the merge of stored rows with the rules of
the code that a request works with.

Versions, labels, descriptions, patterns and the audit log are left out: the
version is overwritten by the later of two commits, which no reader in the code
relies on.

### AnalyzeRequest

A request has a program counter `received`, `new`, `inspected`, `decided`, then
`answered`, `duplicate` or `failed`.  The four awaits of `analyze_prompt` (look
the key up, load rules, read settings, commit) are its interleaving points.
Parsing and the call of the context worker happen inside `Inspect`: they are
synchronous and block the event loop of the single uvicorn process.  Which rules
match an input is a constant choice (`hits`); whether a file is parsed, parsed
in part or failed, and what the context worker says of each text, is chosen
nondeterministically.  A statement that fails, or a stopped server, is `Fail`;
a failure while the rules are loaded is one too, because the handler that falls
back to the built-in rules leaves a transaction in which the next statement
fails.  A commit whose acknowledgement is lost has written and failed.  The expiry
of an idempotency key is stored but read by nobody, so keys never expire here.
What happens inside `Inspect` is the subject of `FileInspection` and
`TextPipeline`, and what is stored that of `EventHistory`.

### FilterPage

`filters.ts` with `filtersPageModel.ts`, one page with several clicks under way
(`Slots`).  A click is a chain of requests: a mutation fetches a CSRF token,
which makes the token that an earlier click holds stale, sends its request, and
loads the rules again; the answers of two clicks arrive in any order, and any of
them can be lost.  The form holds what was loaded when it was opened, so an edit
sends columns that may be old.  The handlers are the same two steps as in
`FilterRules`, now with validation, config and search columns.

`Editors == INSTANCE FilterRules` maps the rows of the page to rows with the
columns `FilterRules` knows, and what a handler holds to its `edit`;
`ImplementsEditors` is the specification of its editors.  What
`AnalyzeRequestProofs` shows of the editors for any number of rules and editors
(well formed rows, commits that keep other columns, archived rules that stay
silent) therefore holds of the page's handlers; `FilterPageProofs` proves both
the implementation and that the page meets what `FilterRules` assumes.

### AccountSessions

A token pair is one value; its row goes through the phases of the transaction
that mints it (asked for, checked, live, denied), so that two refreshes may both
have read a token before either commits.  `token[t].saw` is what the
transaction's SELECT could see.  A message to the background worker is a call
that reads the store, sends its request, joins or starts the refresh in flight,
saves or clears.  Answers are lost, the service worker is stopped at any moment
(calls end, the store stays), and a transaction goes on without its client.
A change of the password reads, selects the live tokens and commits.
`PasswordChangeHolds` says that every token which exists at the selection is
revoked by the commit, and that a token of before is replaced by a refresh only
if this had passed its check when the change committed (`overlapping`).  It does not
say that every session ends: the successor that such a refresh commits is live
(`NoSessionSurvivesChange` below).

### DashboardAccounts

Tabs of one browser share its cookies, and each remembers a CSRF token of its
own until it is loaded again.  The phases of a request on the server are phases
of the tab: authorised (session and CSRF hash compared), target read, active
administrators counted, commit.  Answers that set cookies can overtake each
other or be lost; `raced` notes that, since the two cookies and the row then
differ for a reason the code cannot prevent.  `Restart` runs the seed.
`Sessions` and `Secrets` stand for random identifiers: a new one is any that
nobody holds, and a request waits when there is none, which bounds the instance
and excludes no state the proofs speak of, since both sets may be infinite.
`DashboardConstants` asks for a token for each session, so that the sessions of
the initial state have different ones.

### DocumentParsing and FileInspection

A document is what its bytes are: text, other bytes, an encrypted PDF, or pages
with the bucket of their native text, evidence of a picture and whether OCR
would read something.  The plan of a kind, the fallback from one step to the
next, the choice of pages for OCR within the limit, and the merge are operators.
The pages chosen are a set, of which a job takes the least that is left: the
order of the pages is theirs in the document.

`FileInspection` puts them between a store and a pool.  `loop` is the event
loop: it handles one upload or Analyze request, and `pool.execute` does not give
it back before the result or the timeout.  A job is a parser in a pool thread,
whose manifest and blob are read in three separate reads; beside it the clock
expires files, the sweep deletes them and the process crashes between any two
writes.  A write may also fail: the upload then leaves its blob without a
manifest, and OCR the image file that it had created, because its name is not
returned before the write is over.  To remove a file is taken to succeed.  The
sweep is an operation of the store that no route calls; here it may
run at any time.  `DiskInOrder` says what may be left: an image file after a
crash or a failed write, never one whose text was reported.

### TextScanning, TextSegmentation, ModelArtifacts and TextPipeline

A text is a sequence of characters of the kinds the code tells apart, and a
range is half-open and counts from 0.  The normaliser shortens repetitions of a
special character and keeps the map back; rules look at the shortened text;
of overlapping matches the longest is kept; placeholders
replace what is left.  Blocks become atoms (by lines, table cells, code fences),
atoms become segments around drops of similarity between neighbours, and a
segment the chunks that the verifier reads.

`TextPipeline` takes the documents of a request through these one after another.
Models are external: any similarity, any score, a failure or a timeout at each
stage.  The two runtimes are built once, from `ModelArtifacts`: a disk of
manifests and files with what can be wrong with each.  Scores are compared with
thresholds on a scale of two values, which tells a candidate from none.

### AnalyzeContract and EventHistory

An input is followed from the page (composer, converted paste, attachments and
their outcome) through the request builder and the validation of the API to the
result, the answer and the rows that are stored.  A request is stamped when its
transaction begins and visible when it commits.  A report reads date, users,
events, detections and inputs one after another; requests commit, users are
disabled and midnight passes in between.  A match stands for one occurrence
(`DetectionRows` gives it the count 1), so rows and occurrences of a finding are
not told apart.

### ServiceReadiness

A check is a list of looks, one per part, between which database, migrations,
Redis, model files and worker processes change.  A probe or an analysis of a
worker is one step that keeps the event loop.  `cached_*_worker_client` keeps a
client per time limit, hence a process per caller; what a probe has warmed is
known only of its own.  All checks share the client of the probes: a probe that
fails stops the process and takes the loaded models from the other checks too.
`alwaysBad` and `everBad` record which parts were out of
order all the time of a check, or at some time.

## 3. Runs

| Run | Instance | Shows |
|---|---|---|
| `torch_client` | 2 calls, 2 slots, fair | payload files, genuine results, answers and pipes across restarts, the implementation of `BoundedAdmission`, every call returns |
| `ml_queue` | 3 jobs, 1 thread, 1 queue place, fair | slots and counter, operations that outlive their timeout, the implementation of `BoundedAdmission`, every call returns though operations may never end |
| `preflight` | 1 text and its masked form, 1 file, 1 paste, 3 runs or 2 and an edit, pages with and without chips, fair | sends are authorised, one per gesture; references and prompts; every inspection ends |
| `analyze` | 2 requests with one key, 2 inputs, 4 built-in rules, 1 own rule, 1 editor, symmetric | one event per key, findings not overruled, confirmed risks answered, masks complete |
| `filter_page` | 1 page, 2 clicks at a time, 1 built-in rule, 2 own rules | rules stay usable, the loading notice is awaited, the implementation of the editors of `FilterRules` |
| `sessions` | 1 user, 3 token pairs, 2 calls, 1 death of the service worker, fair | paired tokens, rotation, password change, every call ends |
| `dashboard` | 2 users, 2 tabs in 2 browsers, 2 sessions, 3 requests, symmetric | cookies in step, an administrator remains, a restart brings one back |
| `files` | 1 file of 7 sorts, 2 users, 2 requests with up to 2 references, 1 worker and 1 queue place, 1 OCR page | parsed means read, own content only, the disk in order, requests are answered |
| `text` | all texts up to 4 characters of two alphabets and longer ones made for each cut, 34 settings of the models | ranges, masks, segments, chunks, artifacts and what a clear answer means |
| `events` | 2 users, 2 requests with 3 mixes of inputs, 5 reports, 2 days | pages agree with answers, reports with events and with themselves |
| `readiness` | 1 check of each route, 6 settings, 1 analysis or image, 3 changes | answers of the checks are true of some moment |
| `resident_hang` | 2 calls, 2 slots, a worker that may hang | *violated*: a timed out call returns |

The violated property states what the code says of a timeout; `findings` in
`PROJECT.json` quotes it.

### Known departures

While modelling we met more places where the program does something else than a
document, comment or name says, or than one would expect of it.  Each is stated
as a property beside the module; none is part of the runs above.  With the
property of the table in place of the `INVARIANTS` and `PROPERTIES` of the
configuration, the run ends with a counterexample in seconds.  Two of them need
other inputs than the runs and have a configuration of their own, which names
the property already.

| Configuration | Property | What the code does |
|---|---|---|
| `MCPromptPreflight.cfg` | `SendsInspectedText` | the page sends what the composer holds at replay; an edit after the inspection goes out uninspected (`promptPreflightController.ts:178`, `README.md:21`) |
| `MCPromptPreflight.cfg` | `SendsInspectedPaste` | the remembered paste goes with the first request only; the attachment it became stays, and is sent after an inspection without it |
| `MCPromptPreflight.cfg` | `NoInputOfSentFile` | an upload that fails after its prompt was sent registers the unsupported files of its batch for the next prompt: the catch clause names no request id (`fileUploadPreflightController.ts:117`; `registeredAttachmentInputs.ts:33` says the inputs are cleared once the send was replayed) |
| `MCPasteOnly.cfg`, module `MCEventHistory` | `SentIsAccepted` | a paste that the page turned into an attachment, with nothing left in the composer, makes a request that the API refuses |
| `MCAnalyzeRequest.cfg` | `FailureIsNotAllowReason` | when the context worker fails and nothing else matched, the prompt is allowed (`orchestrator.py:91`; the analysis contract, line 3537, says a failure is no reason to allow) |
| `MCDisabledRules.cfg`, module `MCAnalyzeRequest` | `DisabledRulesAreSilent` | a built-in rule that was switched off is still applied: the query leaves its row out and the merge takes the default (`filter_rules.py:268`) |
| `MCFilterPage.cfg` | `LabelsAreUnique` | two rules may get the same label (`dashboard_filters.py:213`; `promptguard_dev_docs_1_0_2.md:1086` says 409) |
| `MCFilterPage.cfg` | `KeywordListIsSearched` | of the keywords of a rule only the first is looked for (`promptguard_dev_docs_1_0_2.md:139` says a keyword rule has a list) |
| `MCTextPipeline.cfg` | `ExpressionsAreFound` | an expression with repeated punctuation, such as a private-key header, is looked for in a text in which repetitions were shortened (`filter_rules.py:131`) |
| `MCEventHistory.cfg` | `OverviewMatchesEvents` | the overview counts every input the request did not carry as unavailable, the event page only what was not read |
| `MCServiceReadiness.cfg` | `ReadyMeansModelsLoad` | the OCR probe answers ok without loading PaddleOCR (`paddle_ocr_worker.py:87`; contract line 4022) |
| `MCFileInspection.cfg` | `EndedJobLeavesNoImage` | an image file whose write fails stays on the disk: `image_path` is not set yet when the `finally` clause would remove it (`image_ocr.py:66` and `72`) |
| `MCAccountSessions.cfg` | `NoSessionSurvivesChange` | a refresh that overlaps a change of the password commits a token that the change has not selected (`auth.py:189` and `270`) |
| `MCAccountSessions.cfg` | `LogoutRevokes` | `POST /auth/logout` begins a second transaction on a session that has one, fails, and revokes nothing (`auth.py:239`) |
| `MCDashboardAccounts.cfg` | `AdminRemains` (a `PROPERTY`) | two administrators who demote or disable each other at the same time leave none (`admin_users.py:153`) |
| `MCDashboardAccounts.cfg` | `StartsAgain` | the seed takes whichever row comes first, and fails when that is not the one with the default login (`test_admin_seed.py:99` says idempotent) |

### Bounds and why they are enough

* Two calls over two slots: a call that gave up leaves its job in the queue
  while the other is served or waits behind it, and restarts the worker under
  it.  Calls are interchangeable and never come back; with a third call, and
  with fewer slots than calls, the properties of `ResidentWorker` are proved.
* One pool thread and one place: the queue is full with two jobs, the third is
  rejected or finds a slot that was just given back.
* Three runs on a page: one that is superseded, one that supersedes it, and one
  that a retry, a second masked check or the replay of the first controller
  starts.  One edit (`MaxEdits`) is enough to make the composer differ from what
  was inspected; `MaxSteps` bounds runs and edits together.  `Chips` says
  whether the page shows attachments as chips.
* Two requests with one key are the race for it; rules, settings and one editor
  make a request read rules and settings of different moments.  The contents
  pair a maskable match with a blocked one elsewhere, and an allowed match with
  one that cannot be masked; the context worker is asked for two texts, so that
  one may fail after another was confirmed.  `Made` is the row that `POST`
  makes.
* Two clicks on one page (`MaxClicks`, `Slots`): three would need a third answer
  to be overtaken, but a load replaces all rules and a token only the one before
  it.  Both clicks may edit one rule, so their handlers overlap like those of
  two pages.  `MadeBefore` is a rule made before, `NewIds` leaves room for one more,
  `Touched` one built-in rule; the drafts are valid, without a regular
  expression that compiles, and of another kind.  `Words` and `Groupings` are
  what these rules and drafts hold.
* Three token pairs: one to start with and two successors of it; two calls join
  one refresh or start one each.  `MaxDeaths` stops the service worker once.
* Two users are the smallest set in which administrators remove each other; the
  third request creates, or repairs.
* One file in seven sorts: a PDF with a page OCR must read and one it cannot
  render, one with more pages for OCR than `MaxOcrPages`, a picture, an
  encrypted PDF, text, bytes that do not decode, an unknown kind.  The second
  request finds threads of the first at work in their own pool.
* Texts: limits are 4 characters for an atom, 6 for a segment, 3 for a chunk, so
  that texts of 12 characters meet every cut twice.  The settings change one
  part of a good one each.  Similarities and scores are two values each, on both
  sides of their thresholds.
* Two days (`LastDay`): a report's window is one or two days, and midnight
  passes once.  One user is disabled (`MaxDisabled`).
* Readiness: a check looks at up to six parts, and three changes (`MaxChanges`)
  let a part fail, recover and another fail between them.  There is one check;
  that another warms or stops the worker meanwhile is left to the proof.
* The proofs remove the bounds for `ResidentWorker`, `TorchWorkerClient`,
  `MlInferenceQueue`, `FilterRules`, `PolicyDecision`, `AnalyzeRequest`,
  `AccountSessions`, `PromptPreflight`, `DashboardAccounts`, `FileInspection`,
  `FilterPage`, `ServiceReadiness`, `EventHistory`, `TextPipeline` and the modules
  it is built from: any number of calls, clicks, tabs, files, checks, texts of
  any length and so on.

`CHECK_DEADLOCK FALSE` is used everywhere: every call ends and the bounded
model then stops.

### Fairness

* `ResidentWorker`: `FairThreads` says that some thread able to go on does so,
  and that a timer that runs out fires.  It is one weak fairness condition over
  all threads, which with finitely many calls, each with finitely many steps,
  gives every one its turn.  Nothing is assumed of the subprocess in
  `FairSpec`; `FairClientSpec` assumes that a worker that was given a line
  answers or dies, which the code itself does not enforce (`resident_hang`).
* `MlInferenceQueue`: the same for callers, callbacks and pool threads; an
  operation may run for ever.
* `PromptPreflight`: requests and uploads end, by answer or timeout
  (`withTimeout`), and continuations run.  Nothing is assumed of the user.
* `AccountSessions`: promises settle (a fetch answers or fails), and
  continuations run while the service worker lives; transactions and users are
  free to stop.
* `FileInspection`: the event loop goes on and timers fire.  A parser may hang
  for ever.

## 4. Proofs

`ASSUME`s: sets of calls and runs are finite, sizes are numbers (positive where
the code asks for it), a sentinel such as `NoJob` or `None` is not one of the
things it stands in for, and inputs are of their types.  The Python code checks
the sizes in its constructors or gets them from settings with lower bounds.

**ResidentWorkerProofs.**  None of the properties is inductive.  The proof
carries `IndInv`, the conjunction of

* `Accounting`: the phase of a call fixes whether it was told something
  (`Told`); `slots` plus the calls that hold one is `MaxPending`; `inFlight`
  and the totals count sets of calls.  Without `Told` a second release or a
  double count could not be excluded; without `SlotsExact` the semaphore could
  exceed `MaxPending`.
* `Exchange`: the job of the executor thread is the one whose future is
  running; queued jobs are pending and queued once; a resolved future holds
  the reply to its own job; the pipes are empty or hold the line of the
  exchange under way.  `OwnAnswer` rests on all four: the reply read is the
  head of `stdout`, which is the executor's job, which is the job of the
  future that it resolves.

From it follow `TypeCorrect`, `AnswersMatch`, `PipesInStep`, `InFlightCorrect`,
`StatsBalanced` and `RefinesAdmission`.  The last maps
each action to a step of `BoundedAdmission` or a stutter.

The module goes on with `TorchWorkerClient`.  `ClientUsesWorker` shows that a
step of the client is a step of the worker or leaves it alone, so that the
invariant of the worker holds under it.  `ClientInv` adds what a call of
`execute()` has left on the disk at each stage (`PayloadInv`, from which
`PayloadsDeleted`) and that an ok was the worker's reply to this call; it is
kept because a call that has its line keeps it (`SucceededKept`), and its reply
with it (`ReplyKept`): the executor thread works for others by then.  From it
`ResultsAreGenuine`.

The last part is about the health checks (`ServiceReadiness`).  An answer is
given many looks after what it rests on, so `ReadinessInv` keeps of each part a
check has looked at what this says about the two histories (`FindingFits`): a
healthy part is not among those that were out of order all the time, an
unhealthy one is required and was out of order at some time.  A later step
cannot undo it, because one history only grows while the check is asking and the
other only shrinks (`FitsLater`).  That a single look agrees with them needs the
present state to lie between the two (`Watched`), also when the probe of one
check takes the models away from another (`ProbeFailsStep`).  The looks name no
part twice and the check is through when it has named all (`LooksAt`), so the
aggregate is over every part it answers for (`AnswerIsHonest`), which gives
`ChecksAreHonest`.

**MlInferenceQueueProofs.**  `IndInv` adds to the type invariant the life of one
job (`Life`: which future and callback go with which phase of the caller), that
the work queue holds a job once and only pending or cancelled ones, and the
three counts.  `Life` is what makes them inductive: it shows that the callback
of a job runs once, and never while the job is queued or running.  So every
operation in the pool is among the jobs that hold a slot, whatever its caller
was told (`OperationsStayBounded`).

Its last part is about `BoundedAdmission`, for calls, capacity and state of its
own: slots are conserved and a rejected job holds none
(`AdmissionInvariant`); what implements `BoundedAdmission` inherits it.

**AnalyzeRequestProofs**, in three parts.  *The editors.*  That rows are rows is not inductive by itself.
`AdminInv` adds what a handler under way holds: a row it read, a patch that keeps
any row a row and unarchives nothing (`PatchOK`, from the assumption on
`Patches` that the request schemas justify), and, because rows are never
deleted, that a handler which saw a row finds one.  `DirtyIsPatch` is the core:
each column of a committed row is that of the row before or of the patch.  From
it follow `RowsWellFormed`, `CommitsKeepOtherColumns` and `ArchiveIsFinal`.

*The decision.*  Theorems about `decide` for any request with typed
rules and settings.  `StrongestExists` shows that `HighestPriority` picks a rule
of greatest rank from any set of rules, infinite ones included (ranks are
bounded); `RankOrdersActions` that a rank compares actions first.  With
them a case split on what the selected rule gives way to proves
`DecisionDominates`, `MaskMeansMaskable` and `ContextRiskIsAnswered`.

*The requests.*  Two independent invariants.  `EventsInv`: an event
belongs to a request that ended, so what a request finds stored was stored by
another; with it `OneEventPerKey` is inductive.  `RequestInv`, beside `AdminInv`:
what a request holds is well formed (`FoundOK`), a confirmed risk without a
failed text is a signal (`ConfirmedSignals`, by counting), and its decision is
`decide` of what it holds.  The theorems about `decide` then give the properties.
`MaskHidesNothing` assumes `OneComposerText`, which holds of what
`promptPreflightController.ts` sends (line 464) and is not enforced by the API;
the run checks the same property on a payload of that kind.

**PromptPreflightProofs.**  Four invariants hold together.  `GestureInv`: one run
of a click at most is open, a button that is shown belongs to a run that is
over, and a click whose prompt was sent has neither an open run nor a button
left; `SendsAreAuthorised` and `OneSend` follow.  It is stated of the tables of
runs rather than of the variables, because an answer that comes to a
disconnected controller changes two runs in one step, and the proof goes
through a table in between that is no state of the program.  `OwnerInv` ties
`analyzing` to the run that `currentAttemptId` stands for, and `UploadInv`
counts `pendingUploads`: `AnalyzingIsExact` and `NoLostWakeup` are what the
liveness of the page rests on.  `FileInv` follows a file that was sent: its
reference is not registered, and an upload still under way will come too late,
or fail, which registers no reference (`NoReferenceLeft`).  Nothing like it
holds of the unsupported files.

*The history* is in the same module.  `HistoryInv` holds of any number of
users, requests with any attachments, and days.  The tables hold exactly the
rows of the requests that were answered, and these do not change any more
(`Stored`).  So a report that has read an event finds all of its detections and
inputs whenever it asks for them (`Reading`), and the events of before are
among those it selects because the window ends at its day and its query does not
(`ReportsCountWholeEvents`).  A user with a last event has one that is stored
(`Dated`); it is also among the events of a report, since these are read after
the users (`UsersRead`).  `PagesMatchAnswers` rests on `OneNotionOfUnavailable`:
the policy, the answer and the page each have a test of their own for what was
not scanned, and on every input that the extension can send they agree, also
after the context model has changed a result.  `ReportsAlwaysAgree` adds that
the classes which a key makes of the rows add up to them (`ClassesAddUp`), and
that the rows of users can be sorted and what is cut off comes after the rest
(`SortedSeqExists`, `RowsLeftOut`).  Sums and concatenations are folds; what is
said of them is proved by taking a least exception (`LeastNumber`).

**DashboardAccountsProofs.**  `Ind` has two halves.  *Rotation*: a session is
known to one browser (`SessionStaysHome`), since a new one is given to the tab
that logs in and cookies never leave a browser.  A browser whose answers did
not race has at most one request that moves its cookies (`Alone`), and the
stage it is at says who holds the token that the row asks for: the answer under
way when a token was fetched, the jar otherwise (`RowInStep`), or the answer of
a login (`AnswerInStep`).  `CookieInStep` is the case in which nothing is under
way.  *Administrators*: until two changes overlap, an administrator at work is
still an active one and does not work on the own row to remove it (`Working`).
So whoever is removed, the one who removes remains, which is `AdminStays`; the
count that the code takes is not even needed for it, but the refusal to remove
oneself is.  `StartsRestore` needs the types only.

*The sessions of accounts* are in the same module.  All rests on `Kept`: a committed row of
`refresh_tokens` stays, keeps its user and parent, and a revocation is final
(`RowsOnlyAge`); it holds of the steps because a transaction that is checked has
a committed parent and is not committed itself.  `TokenInv` adds that a
committed rotation has revoked its parent.  The check of a rotation finds the
parent live, so no token that it sees has that parent, and two successors come
from overlapping transactions (`RotationForksOnlyInOverlap`).  `ChangeInv`
follows a password change from its selection on: a token that it does not find
live is revoked already and stays so, and when it has committed, no check of a
refresh passes for any of them, so that later refreshes have other parents
(`PasswordChangeRevokes`).  Calls resume with committed pairs only, which
gives `StoreIsPaired`.  The proof assumes that there is a token to be named.

**FileInspectionProofs.**  Two facts carry the proof.  What is stored under a
reference is never replaced, only removed (`FilesStay`); so a check that a job
has passed (`Granted`) stays true of the content that it reads in later steps,
although manifest and blob may be swept between them.  And while no failure is
recorded, the candidates of a document have been read or are still to do
(`Looked`); a page without native text is a candidate (`TextOrCandidate`), and
below the limit all candidates are selected (`AllSelected`, by cardinalities).
With the jobs of a request tied to its items (`Belongs`) they give
`OnlyOwnContent` and `ParsedIsRead`.  `DiskStaysInOrder` needs in addition that
the blob of an upload under way is there before its manifest, and that a job is
given its document only in the step that removes its picture.

**FilterPageProofs.**  A handler reads a row, and commits single columns to a
row that others have written meanwhile.  That the result is usable is a matter
of each column by itself (`UsableColumn`), given the kind of the rule
(`UsableByColumns`).  The kind comes a long way, though: from an answer to a
load into the table of a page, from there into a form, a request and a handler,
all of which may be old.  `IndInv` says at each of these places that origin and
kind are those of the row there is by now, or of the code where there is none
(`KindIs`), and that what is sent passed the checks of the page for that kind
(`PlanOK`).  It stays true because rows stay and keep their kind (`StaysFit`),
and because an override that makes a row starts from the code (`HeldFits`).
`RulesUsable` and `TypeCorrect` follow.  `LoadingAwaited` needs the types only:
the page shows the notice in the step that starts a load, and each answer to a
load, also a failed one, takes it away.  `PagesImplementEditors` maps a read, a
creation and a commit to the editor's, by lemmas on how the mapping of rows to
`Columns` goes with `Overwritten` and `Dirty`, and every other step to one that
changes nothing of it.  `EditorsAssumptionHolds` shows that the mapping meets
the assumption of `FilterRules`.  Words and groups of the rules are any sets
that hold what the code itself puts there; nothing is assumed of which
expressions compile.

`AnalyzeRequest` extends `FilterRules`, and `FilterPage` implements its
editors, so what is proved of the editors is what both rest on.

**TextPipelineProofs** proves the five invariants of the run `text`, for texts of
any length and any rules, limits, settings, disks and answers of the models.
The steps are the small part: what is there for the text looked at is what the
operators make of it (`SignalsFound`, `SegmentsHold`, `MappedHold`, `ReadHold`),
the mask is that of the first text (`MaskHold`), and the counts are those of the
texts before (`CountsHold`, from which `ClearIsAlwaysClassified`; a summary that
was not passed is missing in them, so a failure cannot look like no candidate).
`WhatIsLoadedFits` is about what a manifest may say before a model of it is
loaded.  The rest is about the operators:

* *Normalisation* (`SignalsAlwaysCover`).  A text is cut into steps, each a
  character that is kept with those dropped after it.  Between two steps
  (`CutPoint`) a text can be cut, and what is before and after normalises as if
  it stood alone.  A match in the normalised text starts and ends at such cuts,
  also when it ends in a run that was shortened.
* *Segmentation* (`NothingIsEverLost`).  The ranges of a structure, of its pieces
  and of the atoms are apart and hold all ink (`Tiles`); segments are
  consecutive and stay below the maximum because an atom does
  (`SegmentsFit`); a signal is told of the first segment that has an atom of
  it, which exists if there is ink in it; chunks overlap, so that an unfinished
  one is followed by one that starts within it (`ChunksFit`).
* *Masking* (`FindingsAreMasked`).  What is accepted is apart and in order
  (`Accepted`).  The code replaces from the end, so a place that is still to be
  replaced has not moved (`MaskSteps`); the result is compared with the text
  character by character (`Parts`, `Replaces`), one place at a time.

The operators are folds, recursive functions and minimal choices.  `CHOOSE` picks
a function that satisfies the equation only if there is one, so existence is
proved first (`FoldExists`, `RecursionExists`), and every induction over a text,
a list or a set is to take a least exception (`LeastNumber`).  Assumed are the
four `ASSUME`s of these modules.  `PipelineAssumption` and `ScanningAssumption`
say that texts, words and lists are sequences and that limits are positive;
`SegmentationAssumption` that a segment has room for an atom, as the defaults
have; `SettingsAssumption` that a configured path is a path and a label file,
where one is accepted, a list.  No order is assumed among the settings: the
thresholds, labels and chunk sizes that do not fit are there to be refused.

The theorems listed without a property state invariants that no run checks any
more: TLC checked each of them, and each inductive invariant, on small
instances before it was proved, and the runs keep the properties that relate
more than one module can show at a glance.

Every safety property that a run checks and expects to hold is proved.  Only
model-checked are liveness and ENABLED, for which TLAPS has no rules here, and
the violations of the known departures.  The library's induction theorems take
an operator as a parameter and cannot be used; where an induction is needed, the
least exception takes its place.

## 5. Not modelled

* DOM heuristics: their outcome is an input of `PromptPreflight`.
* The first use of `TorchWorkerClient`: two threads can each create a resident
  process, since nothing guards the creation.  The model has one.
* `PaddleWorkerClient.execute`: the same code shape over the same
  `ResidentWorkerProcess`; its timeout (120 s inside, 60 s outside) is only a
  number here.
* The matching of rules without a database (`filter_rules.py`): it matches
  nothing.
* The numbers of the models, the formats of documents, the Office parser and
  the Tesseract adapter, which `parser_worker_factory.py` does not register.
* Risk scores, wording, logging, audit rows, and the addresses that the status
  page shows.
* The configuration cache and the mock API of the extension, its options page,
  and dashboard pages that only show an answer.
* Migrations, error mapping, rate limits and deployment.

Seen while modelling, with no statement of the repository to hold against it:

* `last_failure_code` is one field for all calls, so a Torch call may report
  the failure of another; what is reported as ok is not affected
  (`OkIsGenuine`).
* Futures that were cancelled stay in the pool's queue until a thread is free.
* `get_ml_inference_queue` and `get_paddle_inference_queue` return one queue.
* Each Analyze request builds a parser pool and none shuts it down.
* `context_classifier_action` is not consulted when a rule with the action warn
  matched: a setting `block` then yields a warning.
* A rule of kind `context_rule` with the action mask has no spans, so the answer
  is Mask without a masked prompt when nothing else matched.
* Of two overlapping detections the shorter is dropped, and what of it sticks
  out stays unmasked; a card number that overlaps an account number is dropped
  also when the rule for accounts is off (`pii.py:140`).
* A failure of a later text drops the evidence of earlier ones from the stored
  summary.
* The verifier reads as many chunks as its policy allows; `NothingIsLost` asks
  for all of a segment only where the policy reaches that far.
* A word of a rule that is blank from end to end can be found between two atoms; no
  segment is told of it (`EverySignalInOneSegment` asks for one otherwise).
* `last_event_at` of a user can go back when two requests overlap.
* Two handlers that override the same built-in rule first: the second fails
  with an internal error.
* Two quick mutations on one page: the token of the first is stale and its
  request is refused.
* The dashboard's status answers 200 while `readyz` answers 503.

## 6. What is left

No safety property of a run is left without a theorem.  What could still be
modelled: the first use of the worker clients by two threads, the filters of the
event list, the Office parser and the status of the dashboard's other parts.
