---------------------------- MODULE PromptPreflight ----------------------------
(***************************************************************************)
(* The content script of the extension on one ChatGPT page                 *)
(* (apps/extension/src/content): the send interceptor, the prompt          *)
(* controller, the file upload controller, the registered attachments the  *)
(* two share, and the reinstall that follows the config request.           *)
(*                                                                         *)
(* A run is one execution of handleAttempt or reinspectMaskedPrompt that   *)
(* gets past the "already inspecting" guard.  Actions are the tasks and    *)
(* continuations of the event loop: what the code does between two awaits  *)
(* is one action.  currentAttemptId is only ever compared with the id of   *)
(* the run that incremented it, so owner holds that run.  The requests     *)
(* share one registeredRequestId until a replay clears it: underRequest    *)
(* holds the uploads started since.                                        *)
(***************************************************************************)
EXTENDS Naturals, FiniteSets

CONSTANTS Texts,      \* what the user types into the composer
          Masked,     \* the masked prompt of a response
          Empty,      \* the empty composer
          Files,      \* what the user attaches at once: a file, or several of which some may be unsupported
          Paste,      \* a long paste that the page turns into an attachment
          MaxRuns,    \* bound on inspections
          MaxEdits,   \* bound on edits of the composer
          MaxSteps,   \* bound on both together
          NoRun,      \* no inspection
          Chips       \* whether the page marks its attachment chips: subset of BOOLEAN

ASSUME PreflightAssumption ==
  /\ MaxRuns \in Nat /\ MaxEdits \in Nat /\ MaxSteps \in Nat /\ IsFiniteSet(Files)
  /\ Paste \notin Files /\ NoRun \notin 1..MaxRuns /\ Chips \subseteq BOOLEAN

Runs == 1..MaxRuns
Generations == {1, 2}     \* controllers installed with the default and with the fetched config

VARIABLES
  text,          \* composer of the page
  attached,      \* attachments of the page
  chips,         \* the page marks its attachment chips
  edits,         \* edits so far
  sent,          \* native sends of the page
  live,          \* generation of the installed controllers
  owner,         \* run that set currentAttemptId of each generation
  analyzing,     \* analyzing of the live prompt controller
  pasted,        \* convertedPasteText of each generation is set
  run,           \* the inspections: what they hold and whether the page held a paste
  overlay,       \* state of the overlay and the run its buttons belong to
  registered,    \* file references among registeredInputs
  unsupported,   \* unsupported attachments among registeredInputs
  underRequest,  \* uploads whose request id is registeredRequestId
  upload,        \* progress of the upload of each file
  uploader,      \* generation that uploads it
  pending        \* pendingUploads

page == <<text, attached, chips, edits, sent>>
control == <<live, owner, analyzing, pasted, run, overlay>>
uploads == <<registered, unsupported, underRequest, upload, uploader, pending>>
vars == <<page, control, uploads>>

Init == /\ text \in Texts \union {Empty} /\ attached = {} /\ edits = 0 /\ sent = {}
        /\ chips \in Chips
        /\ live = 1
        /\ owner = [g \in Generations |-> NoRun]
        /\ analyzing = FALSE
        /\ pasted = [g \in Generations |-> FALSE]
        /\ run = [r \in Runs |-> [stage |-> "new", home |-> 1, gesture |-> r, masked |-> FALSE, timer |-> FALSE,
                                  text |-> Empty, items |-> {}, paste |-> FALSE, verdict |-> "none"]]
        /\ overlay = [kind |-> "hidden", run |-> NoRun]
        /\ registered = {} /\ unsupported = {} /\ underRequest = {} /\ pending = 0
        /\ upload = [f \in Files |-> "new"]
        /\ uploader = [f \in Files |-> 1]

(* Runs are started in order. *)
StepLeft == edits + Cardinality({r \in Runs : run[r].stage # "new"}) < MaxSteps

Fresh(r) == run[r].stage = "new" /\ StepLeft /\ \A q \in Runs : q < r => run[q].stage # "new"

(* The overlay of a controller that was disconnected is detached. *)
Show(g, kind, r) ==
  overlay' = IF g = live THEN [kind |-> kind, run |-> r] ELSE overlay

HideOverlay == overlay' = [kind |-> "hidden", run |-> NoRun]

-------------------------------------------------------------------------------
(* Building and sending a request. *)

(* hasUninspectableCurrentAttachment: chips, and not one registered input. *)
Uninspectable == chips /\ attached # {} /\ registered \union unsupported = {}

(* hasInspectableInput *)
Inspectable(t, items) == t # Empty \/ items # {} \/ (chips /\ attached # {})

(* From the collected attachments to sendAnalyze, for the composer text t;  *)
(* without something to inspect the attempt fails closed.  The converted    *)
(* paste goes along once and is forgotten, and never with a masked prompt.  *)
(* R is run as the caller changes it.                                       *)
Inspect(R, g, r, t) ==
  LET paste == pasted[g] /\ ~R[r].masked
      items == registered \union unsupported \union (IF paste THEN {Paste} ELSE {})
  IN IF Uninspectable \/ ~Inspectable(t, items)
     THEN /\ run' = [R EXCEPT ![r].stage = "done"]
          /\ Show(g, "error", r)
          /\ UNCHANGED <<owner, analyzing, pasted>>
     ELSE /\ run' = [R EXCEPT ![r].stage = "analyzing", ![r].text = t, ![r].items = items,
                                ![r].paste = Paste \in attached, ![r].timer = ~R[r].masked]
          /\ owner' = [owner EXCEPT ![g] = r]
          /\ analyzing' = (analyzing \/ g = live)
          /\ pasted' = IF paste THEN [pasted EXCEPT ![g] = FALSE] ELSE pasted
          /\ IF R[r].masked THEN Show(g, "mask checking", r) ELSE UNCHANGED overlay

(* "Already inspecting": nothing but the overlay changes. *)
Busy == /\ analyzing
        /\ Show(live, "analyzing", NoRun)
        /\ UNCHANGED <<owner, analyzing, pasted>>

(* handleAttempt of the live controller, up to its first await. *)
HandleAttempt(R, r, gesture) ==
  LET started == [R EXCEPT ![r].home = live, ![r].gesture = gesture]
  IN IF analyzing THEN Busy /\ run' = R
     ELSE IF pending > 0
     THEN /\ run' = [started EXCEPT ![r].stage = "waiting"]
          /\ Show(live, "analyzing", NoRun)
          /\ UNCHANGED <<owner, analyzing, pasted>>
     ELSE Inspect(started, live, r, text)

(* reinspectMaskedPrompt, with what the composer holds by now *)
Reinspect(r, gesture, t) ==
  IF analyzing THEN Busy /\ UNCHANGED run
  ELSE Inspect([run EXCEPT ![r].home = live, ![r].gesture = gesture, ![r].masked = TRUE], live, r, t)

(* Waiting for the uploads is over: the continuation of handleAttempt does  *)
(* not look at analyzing again.                                             *)
Resume(r) == /\ run[r].stage = "woken"
             /\ IF pending > 0
                THEN run' = [run EXCEPT ![r].stage = "done"] /\ UNCHANGED <<owner, analyzing, pasted, overlay>>
                ELSE Inspect(run, run[r].home, r, text)
             /\ UNCHANGED <<page, live, uploads>>

(* Microtasks run before the next task. *)
Quiet == \A r \in Runs : run[r].stage # "woken"

-------------------------------------------------------------------------------
(* Verdicts. *)

(* Allow and Warn allow the original or withhold it; failed: an invalid     *)
(* response, an error or the timeout.                                       *)
Verdicts == {"allow", "allow withheld", "warn", "warn withheld", "mask", "block", "failed"}

(* A run that may still lead to a send is remembered with its request. *)
Over(r, verdict) ==
  LET held == run[r]
      refused == verdict = "refused"
  IN [run EXCEPT ![r] = [held EXCEPT !.stage = "done", !.verdict = verdict, !.timer = FALSE,
                                     !.text = IF refused THEN Empty ELSE held.text,
                                     !.items = IF refused THEN {} ELSE held.items,
                                     !.paste = held.paste /\ ~refused]]

Answered(r, v) == Over(r, IF v = "allow" \/ (v = "warn" /\ ~run[r].masked) THEN v ELSE "refused")

-------------------------------------------------------------------------------
(* Replaying the send. *)

(* Mutant: the inputs are cleared, the request id they belong to is kept. *)
ClearKeepsRequest == registered' = {} /\ unsupported' = {} /\ UNCHANGED underRequest

ClearRegistered == registered' = {} /\ unsupported' = {} /\ underRequest' = {}

(* Mutant: the overlay of the attempt stays. *)
ReplayKeepsOverlay(r) ==
  \/ /\ ClearRegistered
     /\ sent' = sent \union {[run |-> r, text |-> text, items |-> attached]}
     /\ text' = Empty /\ attached' = {}
     /\ UNCHANGED overlay
  \/ /\ ClearRegistered
     /\ UNCHANGED <<text, attached, sent, overlay>>

(* replay of the live controller.  The page sends what its composer holds   *)
(* now, or ignores the click (a disabled button), or has no button.         *)
Replay(r) ==
  \/ /\ HideOverlay /\ ClearRegistered
     /\ sent' = sent \union {[run |-> r, text |-> text, items |-> attached]}
     /\ text' = Empty /\ attached' = {}
  \/ /\ HideOverlay /\ ClearRegistered
     /\ UNCHANGED <<text, attached, sent>>
  \/ /\ Show(live, "error", NoRun)
     /\ UNCHANGED <<text, attached, sent, registered, unsupported, underRequest>>

(* replay of a controller that was disconnected meanwhile, on an Allow: the *)
(* click, if there is a button and it is enabled, is an attempt for the     *)
(* live controller, and the registered inputs are cleared after it.         *)
ReplayDisconnected(r) ==
  LET R == Answered(r, "allow")
  IN /\ \/ /\ run' = R
           /\ ClearRegistered \/ UNCHANGED <<registered, unsupported, underRequest>>
           /\ UNCHANGED <<owner, analyzing, pasted, overlay>>
        \/ /\ ClearRegistered
           /\ \E q \in Runs : Fresh(q) /\ HandleAttempt(R, q, q)
     /\ UNCHANGED page

-------------------------------------------------------------------------------
(* The answer to a request. *)

(* Another run, or disconnect(), has moved currentAttemptId on. *)
Superseded(r) == /\ Quiet
                 /\ run[r].stage = "analyzing"
                 /\ owner[run[r].home] # r
                 /\ run' = Over(r, "refused")
                 /\ UNCHANGED <<page, live, owner, analyzing, pasted, overlay, uploads>>

Current(r) == run[r].stage = "analyzing" /\ owner[run[r].home] = r /\ run[r].home = live

(* What handleDecision shows when it does not replay. *)
DecisionKind(v) == CASE v \in {"warn", "warn withheld"} -> "warn"
                     [] v = "mask" -> "mask"
                     [] v = "block" -> "block"
                     [] OTHER -> "error"

(* handleMaskedDecision never replays by itself. *)
MaskedKind(v) == CASE v = "allow" -> "mask passed"
                   [] v \in {"allow withheld", "failed"} -> "error"
                   [] OTHER -> "mask failed"

AllowAnswer(r) == /\ Quiet
                  /\ Current(r) /\ ~run[r].masked
                  /\ run' = Answered(r, "allow")
                  /\ analyzing' = FALSE
                  /\ Replay(r)
                  /\ UNCHANGED <<chips, edits, live, owner, pasted, upload, uploader, pending>>

OtherAnswer(r) == /\ Quiet
                  /\ Current(r)
                  /\ \E v \in Verdicts :
                       /\ run[r].masked \/ v # "allow"
                       /\ run' = Answered(r, v)
                       /\ Show(live, IF run[r].masked THEN MaskedKind(v) ELSE DecisionKind(v), r)
                  /\ analyzing' = FALSE
                  /\ UNCHANGED <<page, live, owner, pasted, uploads>>

(* The answer to a run of the first controller that started to analyze      *)
(* after disconnect(): only Allow has an effect.                            *)
DisconnectedAnswer(r) ==
  /\ Quiet
  /\ run[r].stage = "analyzing" /\ owner[run[r].home] = r /\ run[r].home # live
  /\ \/ /\ ReplayDisconnected(r)
        /\ UNCHANGED <<live, upload, uploader, pending>>
     \/ /\ \E v \in Verdicts \ {"allow"} : run' = Answered(r, v)
        /\ UNCHANGED <<page, live, owner, analyzing, pasted, overlay, uploads>>

Answer(r) == Superseded(r) \/ AllowAnswer(r) \/ OtherAnswer(r) \/ DisconnectedAnswer(r)

-------------------------------------------------------------------------------
(* The user. *)

(* Typing, or pasting a text that stays in the composer: it is remembered   *)
(* in place of what was pasted before, and is part of the text anyway.      *)
Type == /\ Quiet
        /\ edits < MaxEdits /\ StepLeft
        /\ edits' = edits + 1
        /\ \E t \in Texts \ {text} : text' = t
        /\ \E remembered \in {TRUE, FALSE} :
             pasted' = [pasted EXCEPT ![live] = @ /\ remembered]
        /\ UNCHANGED <<attached, chips, sent, live, owner, analyzing, run, overlay, uploads>>

(* handlePaste of a text that the page converts. *)
PasteLong == /\ Quiet
             /\ Paste \notin attached
             /\ edits < MaxEdits /\ StepLeft
             /\ edits' = edits + 1
             /\ attached' = attached \union {Paste}
             /\ pasted' = [pasted EXCEPT ![live] = TRUE]
             /\ UNCHANGED <<text, chips, sent, live, owner, analyzing, run, overlay, uploads>>

(* The page takes the files whatever the upload controller does with them:  *)
(* drop them while an upload is under way, upload the supported ones,       *)
(* register unsupported ones at once, or register nothing for what policy   *)
(* rejects.                                                                 *)
AttachFile(f) ==
  /\ Quiet
  /\ upload[f] = "new"
  /\ attached' = attached \union {f}
  /\ uploader' = [uploader EXCEPT ![f] = live]
  /\ \/ /\ \E e \in Files : upload[e] = "uploading" /\ uploader[e] = live
        /\ Show(live, "analyzing", NoRun)
        /\ upload' = [upload EXCEPT ![f] = "ended"]
        /\ UNCHANGED <<registered, unsupported, underRequest, pending>>
     \/ /\ \A e \in Files : upload[e] = "uploading" => uploader[e] # live
        /\ UNCHANGED overlay
        /\ \/ /\ pending' = pending + 1
              /\ upload' = [upload EXCEPT ![f] = "uploading"]
              /\ underRequest' = underRequest \union {f}
              /\ UNCHANGED <<registered, unsupported>>
           \/ /\ upload' = [upload EXCEPT ![f] = "ended"]
              /\ unsupported' = unsupported \union {f}
              /\ UNCHANGED <<registered, underRequest, pending>>
           \/ /\ upload' = [upload EXCEPT ![f] = "ended"]
              /\ UNCHANGED <<registered, unsupported, underRequest, pending>>
  /\ UNCHANGED <<text, chips, edits, sent, live, owner, analyzing, pasted, run>>

(* The page drops an attachment; nobody tells the registered inputs. *)
RemoveFile(f) == /\ Quiet
                 /\ f \in attached
                 /\ attached' = attached \ {f}
                 /\ UNCHANGED <<text, chips, edits, sent, control, uploads>>

(* A click on the send button or Enter in the composer. *)
Send(r) == /\ Quiet
           /\ Fresh(r)
           /\ HandleAttempt(run, r, r)
           /\ UNCHANGED <<page, live, uploads>>

(* The click finds no composer to inspect. *)
SendWithoutComposer(r) == /\ Quiet
                          /\ Fresh(r) /\ ~analyzing
                          /\ run' = [run EXCEPT ![r].stage = "done", ![r].home = live]
                          /\ Show(live, "error", r)
                          /\ UNCHANGED <<page, live, owner, analyzing, pasted, uploads>>

Shown(kind) == overlay.kind = kind /\ overlay.run # NoRun

Cancel == /\ Quiet
          /\ overlay.kind \notin {"hidden", "analyzing", "mask checking"}
          /\ HideOverlay
          /\ UNCHANGED <<page, live, owner, analyzing, pasted, run, uploads>>

(* Mutant: a warning can always be continued. *)
ContinueUnchecked == /\ Quiet
                     /\ Shown("warn")
                     /\ Replay(overlay.run)
                     /\ UNCHANGED <<chips, edits, live, owner, analyzing, pasted, run, upload, uploader, pending>>

(* "continue" of a warning *)
Continue == /\ Quiet
            /\ Shown("warn")
            /\ IF run[overlay.run].verdict = "warn"
               THEN Replay(overlay.run)
               ELSE Show(live, "error", overlay.run)
                    /\ UNCHANGED <<text, attached, sent, registered, unsupported, underRequest>>
            /\ UNCHANGED <<chips, edits, live, owner, analyzing, pasted, run, upload, uploader, pending>>

(* "send-masked-prompt" *)
SendMasked == /\ Quiet
              /\ Shown("mask passed")
              /\ Replay(overlay.run)
              /\ UNCHANGED <<chips, edits, live, owner, analyzing, pasted, run, upload, uploader, pending>>

(* "apply-mask": the composer is overwritten, then inspected again. *)
ApplyMask(r) == /\ Quiet
                /\ Shown("mask") /\ Fresh(r)
                /\ \/ /\ text' = Masked
                      /\ Reinspect(r, run[overlay.run].gesture, Masked)
                   \/ /\ Show(live, "error", overlay.run)      \* an empty masked prompt
                      /\ UNCHANGED <<text, run, owner, analyzing, pasted>>
                /\ UNCHANGED <<attached, chips, edits, sent, live, uploads>>

(* "retry-masked-check" *)
RetryMasked(r) == /\ Quiet
                  /\ Shown("mask failed") /\ Fresh(r)
                  /\ Reinspect(r, run[overlay.run].gesture, text)
                  /\ UNCHANGED <<page, live, uploads>>

(* "retry" after a block or an error: the same attempt is handled again. *)
Retry(r) == /\ Quiet
            /\ Shown("block") \/ Shown("error")
            /\ Fresh(r)
            /\ HandleAttempt(run, r, run[overlay.run].gesture)
            /\ UNCHANGED <<page, live, uploads>>

User == \/ Type \/ PasteLong \/ Cancel \/ Continue \/ SendMasked
        \/ \E f \in Files : AttachFile(f) \/ RemoveFile(f)
        \/ \E r \in Runs : Send(r) \/ SendWithoutComposer(r) \/ ApplyMask(r) \/ RetryMasked(r) \/ Retry(r)

-------------------------------------------------------------------------------
(* Timers, uploads and the reinstall. *)

(* scheduleAnalyzingOverlay: 150 ms after the request, whatever is shown by *)
(* then, unless the run is over.                                            *)
AnalyzingOverlay(r) == /\ Quiet
                       /\ run[r].timer
                       /\ run' = [run EXCEPT ![r].timer = FALSE]
                       /\ Show(run[r].home, "analyzing", NoRun)
                       /\ UNCHANGED <<page, live, owner, analyzing, pasted, uploads>>

(* Mutant: the last upload wakes one run. *)
UploadEndsForOne(f) ==
  /\ Quiet
  /\ upload[f] = "uploading"
  /\ upload' = [upload EXCEPT ![f] = "ended"]
  /\ pending' = pending - 1
  /\ run' = [r \in Runs |-> IF run[r].stage = "waiting" /\ pending' = 0
                               /\ \A q \in Runs : q < r => run[q].stage # "waiting"
                            THEN [run[r] EXCEPT !.stage = "woken"] ELSE run[r]]
  /\ UNCHANGED <<page, live, owner, analyzing, pasted, overlay, registered, unsupported, underRequest, uploader>>

(* What the end of an upload registers, if its controller is still          *)
(* installed: its references and its unsupported files, if no replay        *)
(* cleared the request id meanwhile; the unsupported files alone, and       *)
(* whatever the request id, if uploadFile raised.                           *)
RegisterUploaded(f) ==
  \/ /\ f \in underRequest
     /\ registered' \in {registered, registered \union {f}}
     /\ unsupported' \in {unsupported, unsupported \union {f}}
  \/ /\ unsupported' = unsupported \union {f}
     /\ UNCHANGED registered

(* The upload is over; the last one wakes the runs that wait.               *)
UploadEnds(f) ==
  /\ Quiet
  /\ upload[f] = "uploading"
  /\ upload' = [upload EXCEPT ![f] = "ended"]
  /\ (uploader[f] = live /\ RegisterUploaded(f)) \/ UNCHANGED <<registered, unsupported>>
  /\ pending' = IF pending > 0 THEN pending - 1 ELSE 0
  /\ run' = [r \in Runs |-> IF run[r].stage = "waiting" /\ pending' = 0
                            THEN [run[r] EXCEPT !.stage = "woken"] ELSE run[r]]
  /\ UNCHANGED <<page, live, owner, analyzing, pasted, overlay, underRequest, uploader>>

(* The second installPreflight: disconnect the controllers, install new ones. *)
Reinstall == /\ Quiet
             /\ live = 1
             /\ live' = 2
             /\ owner' = [owner EXCEPT ![1] = NoRun]
             /\ analyzing' = FALSE
             /\ HideOverlay
             /\ UNCHANGED <<page, pasted, run, uploads>>

Continuation == (\E r \in Runs : Resume(r) \/ Answer(r)) \/ (\E f \in Files : UploadEnds(f))

Next == Continuation \/ User \/ Reinstall \/ \E r \in Runs : AnalyzingOverlay(r)

Spec == Init /\ [][Next]_vars

(* Every request and every upload ends, by an answer or by its timeout, and *)
(* a continuation that is ready runs.  Nothing is assumed of the user.      *)
FairSpec == Spec /\ WF_vars(Continuation)

-------------------------------------------------------------------------------
(* Properties. *)

Items == Files \union {Paste}
Contents == Texts \union {Masked, Empty}

TypeOK ==
  /\ text \in Contents /\ attached \subseteq Items /\ chips \in BOOLEAN /\ edits \in 0..MaxEdits
  /\ sent \subseteq [run : Runs, text : Contents, items : SUBSET Items]
  /\ live \in Generations /\ owner \in [Generations -> Runs \union {NoRun}]
  /\ analyzing \in BOOLEAN /\ pasted \in [Generations -> BOOLEAN]
  /\ run \in [Runs -> [stage : {"new", "waiting", "woken", "analyzing", "done"}, home : Generations,
                       gesture : Runs, masked : BOOLEAN, text : Contents, items : SUBSET Items,
                       paste : BOOLEAN, timer : BOOLEAN, verdict : {"none", "allow", "warn", "refused"}]]
  /\ overlay \in [kind : {"hidden", "analyzing", "warn", "mask", "mask checking", "mask passed",
                          "mask failed", "block", "error"}, run : Runs \union {NoRun}]
  /\ registered \subseteq Files /\ unsupported \subseteq Files /\ underRequest \subseteq Files
  /\ upload \in [Files -> {"new", "uploading", "ended"}] /\ uploader \in [Files -> Generations]
  /\ pending \in Nat

(* A prompt leaves the page only on a decision that allows its original:    *)
(* not after a block, a mask, a withheld warning, an invalid answer, an     *)
(* error or a timeout, whatever buttons were pressed meanwhile.             *)
AuthorisedSend == \A s \in sent : run[s.run].verdict \in {"allow", "warn"}

(* One click or Enter sends one prompt at most, through all its retries,    *)
(* masked reinspections, warnings and stale answers.                        *)
OneSendPerGesture == \A s, u \in sent : run[s.run].gesture = run[u.run].gesture => s = u

(* A file reference is registered for one prompt: the upload of a file that *)
(* was sent before it ended is not handed to the next prompt.               *)
NoReferenceToSentFile == \A s \in sent : registered \intersect s.items = {}

(* Not a word about a file that was sent is left for the next prompt, not   *)
(* that it is unsupported either.                                           *)
NoInputOfSentFile == \A s \in sent : (registered \union unsupported) \intersect s.items = {}

(* Every inspection ends, its waiting for uploads and for the answer: from  *)
(* some moment on no run is under way.                                      *)
EveryInspectionEnds == <>[](\A r \in Runs : run[r].stage \in {"new", "done"})

(* The text the page sends is the text that was inspected.                  *)
SendsInspectedText == \A s \in sent : s.text = run[s.run].text

(* A converted paste the page held when the prompt was inspected, and sends *)
(* along with it, was part of that inspection.                              *)
SendsInspectedPaste == \A s \in sent :
  Paste \in s.items /\ run[s.run].paste => Paste \in run[s.run].items
===============================================================================
