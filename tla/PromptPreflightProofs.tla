------------------------- MODULE PromptPreflightProofs -------------------------
(***************************************************************************)
(* PromptPreflight for any number of inspections, edits and files.         *)
(*                                                                         *)
(* The inductive invariant has four parts.  GestureInv says which runs one *)
(* click of the user may still have, and what a button that is shown can   *)
(* do; OwnerInv relates analyzing to the run that currentAttemptId stands  *)
(* for; UploadInv counts pendingUploads; FileInv follows the files of a    *)
(* prompt that was sent.  The first two are operators of the variables     *)
(* they are about: an answer to a disconnected controller changes two runs *)
(* in one step, and the state between the two is no state of the program.  *)
(*                                                                         *)
(* Then EventHistory, for any number of users, requests, files and days.   *)
(* Its invariant says which rows the tables hold (Stored), that a report   *)
(* has of each event it read the rows as they still are (Reading), and     *)
(* that a user with a last event has one among the events (Dated), also    *)
(* where the two were read at different moments (UsersRead).               *)
(***************************************************************************)
EXTENDS PromptPreflight, EventHistory, WellFoundedInduction, FiniteSetTheorems, TLAPS

USE PreflightAssumption

Stages == {"new", "waiting", "woken", "analyzing", "done"}
Kinds == {"hidden", "analyzing", "warn", "mask", "mask checking", "mask passed", "mask failed", "block", "error"}
RunRecords == [stage : Stages, home : Generations, gesture : Runs, masked : BOOLEAN, text : Contents,
               items : SUBSET Items, paste : BOOLEAN, timer : BOOLEAN,
               verdict : {"none", "allow", "warn", "refused"}]
RunTables == [Runs -> RunRecords]
Overlays == [kind : Kinds, run : Runs \union {NoRun}]

LEMMA Tables == TypeOK => run \in RunTables /\ overlay \in Overlays
BY DEF TypeOK, RunTables, RunRecords, Overlays, Stages, Kinds

-------------------------------------------------------------------------------
(* The runs of one gesture. *)

Open(R, r) == R[r].stage \in {"waiting", "woken", "analyzing"}

Actionable(o) == o.run # NoRun /\ o.kind \notin {"hidden", "analyzing", "mask checking"}

(* A run that has not started belongs to a gesture of its own. *)
Gestures(R) == \A r \in Runs :
  /\ R[r].stage = "new" => R[r].gesture = r
  /\ R[r].stage # "new" => R[R[r].gesture].stage # "new"

OneOpen(R) == \A q, r \in Runs : Open(R, q) /\ Open(R, r) /\ R[q].gesture = R[r].gesture => q = r

(* The buttons belong to a run that is over.  Only after a block or an      *)
(* error is there another run of its gesture, the retry that was pressed:   *)
(* then analyzing is set, and pressing again is refused.                    *)
Buttons(R, o, a) == Actionable(o) =>
  /\ R[o.run].stage = "done"
  /\ o.kind = "mask passed" => R[o.run].verdict = "allow"
  /\ \A r \in Runs : Open(R, r) /\ R[r].gesture = R[o.run].gesture =>
       a /\ o.kind \in {"block", "error"} /\ R[r].stage = "analyzing"

(* A gesture that was sent is used up. *)
Sends(R, o, S) == \A s \in S :
  /\ R[s.run].stage = "done"
  /\ R[s.run].verdict \in {"allow", "warn"}
  /\ \A r \in Runs : Open(R, r) => R[r].gesture # R[s.run].gesture
  /\ Actionable(o) => R[o.run].gesture # R[s.run].gesture

SentOnce(R, S) == \A s, u \in S : R[s.run].gesture = R[u.run].gesture => s = u

GestureInv(R, o, a, S) == /\ Gestures(R) /\ OneOpen(R) /\ Buttons(R, o, a)
                          /\ Sends(R, o, S) /\ SentOnce(R, S)

SentRuns(S) == \A s \in S : s.run \in Runs

(* One run goes on and the others stay as they are. *)
Moved(R, T, r, stage, home, gesture) ==
  /\ T \in RunTables
  /\ \A q \in Runs : q # r => T[q] = R[q]
  /\ T[r].stage = stage /\ T[r].home = home /\ T[r].gesture = gesture

(* A run starts by a click of its own or by the button of a run of the same *)
(* gesture, or goes on as what it was.                                      *)
Origin(R, r, gesture, o, a) ==
  \/ R[r].stage = "new" /\ gesture = r
  \/ R[r].stage = "new" /\ Actionable(o) /\ gesture = R[o.run].gesture /\ ~a
  \/ Open(R, r) /\ gesture = R[r].gesture

(* It leaves no button, or those that were there, or shows its own at the   *)
(* end.                                                                     *)
Leaves(R, T, r, stage, gesture, o, p, a, b) ==
  \/ ~Actionable(p)
  \/ /\ p = o /\ (a => b) /\ stage # "waiting"
     /\ R[r].stage = "analyzing" => stage = "done"
     /\ Actionable(o) /\ gesture = R[o.run].gesture /\ stage = "analyzing" /\ R[r].stage = "new"
          => b /\ o.kind \in {"block", "error"}
  \/ /\ p.run = r /\ stage = "done"
     /\ p.kind = "mask passed" => T[r].verdict = "allow"

(* A run starts, goes on or is over. *)
LEMMA GestureMoved ==
  ASSUME NEW R \in RunTables, NEW T \in RunTables, NEW r \in Runs,
         NEW stage \in {"waiting", "analyzing", "done"}, NEW home, NEW gesture \in Runs,
         NEW o \in Overlays, NEW p \in Overlays, NEW a \in BOOLEAN, NEW b \in BOOLEAN, NEW S, SentRuns(S),
         GestureInv(R, o, a, S),
         Moved(R, T, r, stage, home, gesture),
         Origin(R, r, gesture, o, a), Leaves(R, T, r, stage, gesture, o, p, a, b)
  PROVE  GestureInv(T, p, b, S)
<1> USE DEF Open, Origin, Leaves
<1>0. /\ \A q \in Runs : R[q].gesture \in Runs /\ T[q].gesture \in Runs
      /\ Actionable(p) => p.run \in Runs
      /\ Actionable(o) => o.run \in Runs /\ R[o.run].stage = "done"
  BY DEF RunTables, RunRecords, Overlays, Actionable, GestureInv, Buttons
<1>1. /\ R[r].stage # "done"
      /\ \A q \in Runs : q # r => T[q] = R[q]
      /\ T[r].stage # "new" /\ T[r].gesture = gesture /\ T[r].stage = stage
  BY DEF Moved
<1>2. \A q \in Runs : q # r /\ Open(R, q) => R[q].gesture # gesture
  <2>1. CASE R[r].stage = "new" /\ gesture = r
    BY <1>0, <2>1 DEF GestureInv, Gestures
  <2>2. CASE Actionable(o) /\ gesture = R[o.run].gesture /\ ~a
    BY <1>0, <2>2 DEF GestureInv, Buttons
  <2>3. CASE Open(R, r) /\ gesture = R[r].gesture
    BY <1>0, <2>3 DEF GestureInv, OneOpen
  <2> QED
    BY <2>1, <2>2, <2>3
<1>3. Gestures(T)
  <2>1. gesture = r \/ R[gesture].stage # "new"
    <3>1. CASE Actionable(o) /\ gesture = R[o.run].gesture
      BY <1>0, <3>1 DEF GestureInv, Gestures
    <3>2. CASE Open(R, r) /\ gesture = R[r].gesture
      BY <3>2 DEF GestureInv, Gestures
    <3> QED
      BY <3>1, <3>2
  <2>2. T[gesture].stage # "new"
    BY <1>1, <2>1
  <2> SUFFICES ASSUME NEW q \in Runs
               PROVE  /\ T[q].stage = "new" => T[q].gesture = q
                      /\ T[q].stage # "new" => T[T[q].gesture].stage # "new"
    BY DEF Gestures
  <2>3. CASE q = r
    BY <1>1, <2>2, <2>3
  <2>4. CASE q # r
    <3>1. T[q] = R[q] /\ R[q].gesture \in Runs
      BY <1>0, <1>1, <2>4
    <3>2. /\ R[q].stage = "new" => R[q].gesture = q
          /\ R[q].stage # "new" => R[R[q].gesture].stage # "new"
      BY DEF GestureInv, Gestures
    <3> QED
      BY <1>1, <3>1, <3>2
  <2> QED
    BY <2>3, <2>4
<1>4. OneOpen(T)
  <2> SUFFICES ASSUME NEW q \in Runs, NEW u \in Runs, Open(T, q), Open(T, u), T[q].gesture = T[u].gesture
               PROVE  q = u
    BY DEF OneOpen
  <2>1. CASE q # r /\ u # r
    BY <1>1, <2>1 DEF GestureInv, OneOpen
  <2>2. CASE q = r \/ u = r
    BY <1>1, <1>2, <2>2
  <2> QED
    BY <2>1, <2>2
<1>5. \A s \in S : s.run # r /\ s.run \in Runs /\ R[s.run].gesture # gesture /\ T[s.run] = R[s.run]
  <2> SUFFICES ASSUME NEW s \in S
               PROVE  s.run # r /\ s.run \in Runs /\ R[s.run].gesture # gesture /\ T[s.run] = R[s.run]
    OBVIOUS
  <2>1. s.run # r /\ s.run \in Runs /\ T[s.run] = R[s.run] /\ R[s.run].stage = "done"
    BY <1>1 DEF GestureInv, Sends, SentRuns
  <2>2. CASE R[r].stage = "new" /\ gesture = r
    BY <2>1, <2>2 DEF GestureInv, Gestures
  <2>3. CASE Actionable(o) /\ gesture = R[o.run].gesture
    BY <2>1, <2>3 DEF GestureInv, Sends
  <2>4. CASE Open(R, r) /\ gesture = R[r].gesture
    BY <2>1, <2>4 DEF GestureInv, Sends
  <2> QED
    BY <2>1, <2>2, <2>3, <2>4
<1>6. SentOnce(T, S)
  BY <1>5 DEF GestureInv, SentOnce
<1>7. Sends(T, p, S)
  <2> SUFFICES ASSUME NEW s \in S
               PROVE  /\ T[s.run].stage = "done" /\ T[s.run].verdict \in {"allow", "warn"}
                      /\ \A q \in Runs : Open(T, q) => T[q].gesture # T[s.run].gesture
                      /\ Actionable(p) => T[p.run].gesture # T[s.run].gesture
    BY DEF Sends
  <2>1. /\ R[s.run].stage = "done" /\ R[s.run].verdict \in {"allow", "warn"}
        /\ \A q \in Runs : Open(R, q) => R[q].gesture # R[s.run].gesture
        /\ Actionable(o) => R[o.run].gesture # R[s.run].gesture
    BY DEF GestureInv, Sends
  <2>2. Actionable(p) => p.run = r \/ (p = o /\ o.run # r)
    BY <1>0, <1>1
  <2> QED
    BY <1>0, <1>1, <1>5, <2>1, <2>2
<1>8. Buttons(T, p, b)
  <2>1. CASE ~Actionable(p)
    BY <2>1 DEF Buttons
  <2>2. CASE Actionable(p) /\ p = o /\ (a => b) /\ stage # "waiting"
    <3>1. /\ o.run # r /\ o.run \in Runs /\ T[o.run] = R[o.run]
          /\ \A q \in Runs : Open(R, q) /\ R[q].gesture = R[o.run].gesture =>
               a /\ o.kind \in {"block", "error"} /\ R[q].stage = "analyzing"
          /\ o.kind = "mask passed" => R[o.run].verdict = "allow"
      BY <1>0, <1>1, <2>2 DEF GestureInv, Buttons
    <3>2. Open(T, r) /\ gesture = R[o.run].gesture => b /\ o.kind \in {"block", "error"} /\ stage = "analyzing"
      <4>1. CASE R[r].stage = "new"
        BY <1>1, <2>2, <4>1
      <4>2. CASE R[r].stage # "new"
        BY <1>1, <2>2, <3>1, <4>2
      <4> QED
        BY <4>1, <4>2
    <3> QED
      BY <1>0, <1>1, <2>2, <3>1, <3>2 DEF Buttons
  <2>3. CASE Actionable(p) /\ p.run = r /\ stage = "done" /\ (p.kind = "mask passed" => T[r].verdict = "allow")
    BY <1>0, <1>1, <1>2, <2>3 DEF Buttons
  <2> QED
    BY <2>1, <2>2, <2>3
<1> QED
  BY <1>3, <1>4, <1>6, <1>7, <1>8 DEF GestureInv

(* Steps that change no inspection: a wake-up is not one. *)
LEMMA GestureKept ==
  ASSUME NEW R \in RunTables, NEW T \in RunTables, NEW o \in Overlays, NEW p, NEW a \in BOOLEAN, NEW b \in BOOLEAN, NEW S, SentRuns(S),
         GestureInv(R, o, a, S),
         \A r \in Runs : /\ T[r].gesture = R[r].gesture /\ T[r].verdict = R[r].verdict
                         /\ T[r].stage = R[r].stage \/ (R[r].stage = "waiting" /\ T[r].stage = "woken"),
         (p = o /\ a = b) \/ ~Actionable(p)
  PROVE  GestureInv(T, p, b, S)
<1>1. \A r \in Runs : /\ T[r].stage = "new" <=> R[r].stage = "new"
                      /\ T[r].stage = "done" <=> R[r].stage = "done"
                      /\ T[r].stage = "analyzing" <=> R[r].stage = "analyzing"
                      /\ Open(T, r) <=> Open(R, r)
                      /\ T[r].gesture = R[r].gesture /\ R[r].gesture \in Runs
                      /\ T[r].verdict = R[r].verdict
  BY DEF Open, RunTables, RunRecords
<1>2. Gestures(T) /\ OneOpen(T)
  BY <1>1 DEF GestureInv, Gestures, OneOpen
<1>3. Actionable(p) => p = o /\ a = b /\ o.run \in Runs
  BY DEF Actionable, Overlays
<1>4. Buttons(T, p, b)
  <2> SUFFICES ASSUME Actionable(p)
               PROVE  /\ T[p.run].stage = "done"
                      /\ p.kind = "mask passed" => T[p.run].verdict = "allow"
                      /\ \A r \in Runs : Open(T, r) /\ T[r].gesture = T[p.run].gesture =>
                           b /\ p.kind \in {"block", "error"} /\ T[r].stage = "analyzing"
    BY DEF Buttons
  <2>1. Buttons(R, p, b) /\ p.run \in Runs
    BY <1>3 DEF GestureInv
  <2>2. T[p.run].stage = "done" /\ (p.kind = "mask passed" => T[p.run].verdict = "allow")
    BY <1>1, <2>1 DEF Buttons
  <2>3. ASSUME NEW r \in Runs, Open(T, r), T[r].gesture = T[p.run].gesture
        PROVE  b /\ p.kind \in {"block", "error"} /\ T[r].stage = "analyzing"
    <3>1. Open(R, r) /\ R[r].gesture = R[p.run].gesture
      BY <1>1, <2>1, <2>3
    <3> QED
      BY <1>1, <2>1, <3>1 DEF Buttons
  <2> QED
    BY <2>2, <2>3
<1>5. Sends(T, p, S) /\ SentOnce(T, S)
  BY <1>1, <1>3 DEF GestureInv, Sends, SentOnce, SentRuns
<1> QED
  BY <1>2, <1>4, <1>5 DEF GestureInv

(* The page sends for a run that allows it, and the gesture is used up. *)
LEMMA GestureSent ==
  ASSUME NEW R, NEW o, NEW a, NEW S, GestureInv(R, o, a, S), ~Actionable(o),
         NEW x, R[x.run].stage = "done", R[x.run].verdict \in {"allow", "warn"},
         \A r \in Runs : Open(R, r) => R[r].gesture # R[x.run].gesture,
         \A s \in S : R[s.run].gesture # R[x.run].gesture
  PROVE  GestureInv(R, o, a, S \union {x})
BY DEF GestureInv, Sends, SentOnce

-------------------------------------------------------------------------------
(* What an attempt does, in the terms of the invariant. *)

(* It fails closed, or becomes the current run of its controller. *)
Inspected(R, r, g, gesture, masked) ==
  \/ /\ Moved(R, run', r, "done", g, gesture)
     /\ overlay' = overlay \/ overlay' = [kind |-> "error", run |-> r]
     /\ UNCHANGED <<owner, analyzing>>
  \/ /\ Moved(R, run', r, "analyzing", g, gesture)
     /\ overlay' = IF masked /\ g = live THEN [kind |-> "mask checking", run |-> r] ELSE overlay
     /\ owner' = [owner EXCEPT ![g] = r]
     /\ analyzing' = (analyzing \/ g = live)

(* Or it is refused because another one is under way, or waits for uploads. *)
Attempted(R, r, gesture, masked) ==
  \/ /\ analyzing
     /\ run' = R
     /\ overlay' = [kind |-> "analyzing", run |-> NoRun]
     /\ UNCHANGED <<owner, analyzing>>
  \/ /\ ~analyzing /\ pending > 0
     /\ Moved(R, run', r, "waiting", live, gesture)
     /\ overlay' = [kind |-> "analyzing", run |-> NoRun]
     /\ UNCHANGED <<owner, analyzing>>
  \/ ~analyzing /\ Inspected(R, r, live, gesture, masked)

LEMMA InspectDoes ==
  ASSUME TypeOK, NEW R \in RunTables, NEW g \in Generations, NEW r \in Runs, NEW t \in Contents,
         R[r].home = g, Inspect(R, g, r, t)
  PROVE  /\ Inspected(R, r, g, R[r].gesture, R[r].masked)
         /\ pasted' \in [Generations -> BOOLEAN]
<1>0. registered \subseteq Items /\ unsupported \subseteq Items /\ pasted \in [Generations -> BOOLEAN] /\ R[r] \in RunRecords
  BY DEF TypeOK, Items, RunTables
<1>1. PICK items \in SUBSET Items :
        \/ /\ run' = [R EXCEPT ![r].stage = "done"]
           /\ Show(g, "error", r)
           /\ UNCHANGED <<owner, analyzing, pasted>>
        \/ /\ run' = [R EXCEPT ![r].stage = "analyzing", ![r].text = t, ![r].items = items,
                                 ![r].paste = Paste \in attached, ![r].timer = ~R[r].masked]
           /\ owner' = [owner EXCEPT ![g] = r]
           /\ analyzing' = (analyzing \/ g = live)
           /\ pasted' = pasted \/ pasted' = [pasted EXCEPT ![g] = FALSE]
           /\ IF R[r].masked THEN Show(g, "mask checking", r) ELSE UNCHANGED overlay
  <2>1. registered \union unsupported \union (IF pasted[g] /\ ~R[r].masked THEN {Paste} ELSE {}) \in SUBSET Items
    BY <1>0 DEF Items
  <2> QED
    BY <2>1 DEF Inspect
<1>2. CASE run' = [R EXCEPT ![r].stage = "done"] /\ Show(g, "error", r) /\ UNCHANGED <<owner, analyzing, pasted>>
  <2>1. Moved(R, run', r, "done", g, R[r].gesture)
    BY <1>0, <1>2 DEF Moved, RunTables, RunRecords, Stages
  <2> QED
    BY <1>0, <1>2, <2>1 DEF Inspected, Show
<1>3. CASE /\ run' = [R EXCEPT ![r].stage = "analyzing", ![r].text = t, ![r].items = items,
                                 ![r].paste = Paste \in attached, ![r].timer = ~R[r].masked]
           /\ owner' = [owner EXCEPT ![g] = r]
           /\ analyzing' = (analyzing \/ g = live)
           /\ pasted' = pasted \/ pasted' = [pasted EXCEPT ![g] = FALSE]
           /\ IF R[r].masked THEN Show(g, "mask checking", r) ELSE UNCHANGED overlay
  <2>1. (Paste \in attached) \in BOOLEAN /\ (~R[r].masked) \in BOOLEAN
    OBVIOUS
  <2>2. Moved(R, run', r, "analyzing", g, R[r].gesture)
    BY <1>0, <1>3, <2>1 DEF Moved, RunTables, RunRecords, Stages
  <2> QED
    BY <1>0, <1>3, <2>2 DEF Inspected, Show
<1> QED
  BY <1>1, <1>2, <1>3

LEMMA AttemptDoes ==
  ASSUME TypeOK, NEW R \in RunTables, NEW r \in Runs, NEW gesture \in Runs, HandleAttempt(R, r, gesture)
  PROVE  /\ Attempted(R, r, gesture, R[r].masked)
         /\ pasted' \in [Generations -> BOOLEAN]
<1> DEFINE started == [R EXCEPT ![r].home = live, ![r].gesture = gesture]
<1>0. live \in Generations /\ text \in Contents /\ pasted \in [Generations -> BOOLEAN]
  BY DEF TypeOK
<1>1. /\ started \in RunTables
      /\ started[r].home = live /\ started[r].gesture = gesture /\ started[r].masked = R[r].masked
      /\ \A q \in Runs : q # r => started[q] = R[q]
  <2>1. R \in [Runs -> RunRecords] /\ R[r] \in RunRecords
    BY DEF RunTables
  <2>2. [R[r] EXCEPT !.home = live, !.gesture = gesture] \in RunRecords
    BY <1>0, <2>1 DEF RunRecords
  <2>3. started = [R EXCEPT ![r] = [R[r] EXCEPT !.home = live, !.gesture = gesture]]
    BY <2>1
  <2> QED
    BY <2>1, <2>2, <2>3 DEF RunTables, RunRecords
<1> HIDE DEF started
<1>2. CASE analyzing
  BY <1>0, <1>2 DEF HandleAttempt, Busy, Show, Attempted
<1>3. CASE ~analyzing /\ pending > 0
  <2>1. Moved(R, [started EXCEPT ![r].stage = "waiting"], r, "waiting", live, gesture)
    <3>1. [started[r] EXCEPT !.stage = "waiting"] \in RunRecords
      BY <1>1 DEF RunTables, RunRecords, Stages
    <3> QED
      BY <1>1, <3>1 DEF Moved, RunTables, RunRecords
  <2>2. run' = [started EXCEPT ![r].stage = "waiting"] /\ Show(live, "analyzing", NoRun) /\ UNCHANGED <<owner, analyzing, pasted>>
    BY <1>3 DEF HandleAttempt, started
  <2> QED
    BY <1>0, <1>3, <2>1, <2>2 DEF Show, Attempted
<1>4. CASE ~analyzing /\ ~(pending > 0)
  <2>1. Inspect(started, live, r, text)
    BY <1>4 DEF HandleAttempt, started
  <2>2. Inspected(started, r, live, gesture, R[r].masked) /\ pasted' \in [Generations -> BOOLEAN]
    BY <1>0, <1>1, <2>1, InspectDoes
  <2>3. Inspected(R, r, live, gesture, R[r].masked)
    BY <1>1, <2>2 DEF Inspected, Moved
  <2> QED
    BY <1>4, <2>2, <2>3 DEF Attempted
<1> QED
  BY <1>2, <1>3, <1>4

LEMMA ReinspectDoes ==
  ASSUME TypeOK, NEW r \in Runs, NEW gesture \in Runs, NEW t \in Contents, Reinspect(r, gesture, t)
  PROVE  /\ Attempted(run, r, gesture, TRUE)
         /\ pasted' \in [Generations -> BOOLEAN]
<1> DEFINE started == [run EXCEPT ![r].home = live, ![r].gesture = gesture, ![r].masked = TRUE]
<1>0. live \in Generations /\ run \in RunTables /\ pasted \in [Generations -> BOOLEAN]
  BY Tables DEF TypeOK
<1>1. /\ started \in RunTables
      /\ started[r].home = live /\ started[r].gesture = gesture /\ started[r].masked = TRUE
      /\ \A q \in Runs : q # r => started[q] = run[q]
  <2>1. run \in [Runs -> RunRecords] /\ run[r] \in RunRecords
    BY <1>0 DEF RunTables
  <2>2. [run[r] EXCEPT !.home = live, !.gesture = gesture, !.masked = TRUE] \in RunRecords
    BY <1>0, <2>1 DEF RunRecords
  <2>3. started = [run EXCEPT ![r] = [run[r] EXCEPT !.home = live, !.gesture = gesture, !.masked = TRUE]]
    BY <2>1
  <2> QED
    BY <2>1, <2>2, <2>3 DEF RunTables, RunRecords
<1> HIDE DEF started
<1>2. CASE analyzing
  BY <1>0, <1>2 DEF Reinspect, Busy, Show, Attempted
<1>3. CASE ~analyzing
  <2>0. Inspect(started, live, r, t)
    BY <1>3 DEF Reinspect, started
  <2>1. Inspected(started, r, live, gesture, TRUE) /\ pasted' \in [Generations -> BOOLEAN]
    BY <1>0, <1>1, <2>0, InspectDoes
  <2>2. Inspected(run, r, live, gesture, TRUE)
    BY <1>1, <2>1 DEF Inspected, Moved
  <2> QED
    BY <1>3, <2>1, <2>2 DEF Attempted
<1> QED
  BY <1>2, <1>3

-------------------------------------------------------------------------------
(* currentAttemptId and analyzing, pendingUploads, and the whole control. *)

(* The owner of a generation is one of its runs, and the live controller is *)
(* analyzing exactly while its owner has an answer to come.                 *)
OwnerInv(R, w, a, l) ==
  /\ l = 1 => w[2] = NoRun /\ \A r \in Runs : R[r].home = 1
  /\ \A g \in Generations : w[g] # NoRun => R[w[g]].home = g /\ R[w[g]].stage \in {"analyzing", "done"}
  /\ a <=> w[l] # NoRun /\ R[w[l]].stage = "analyzing"

Uploading(u) == {f \in Files : u[f] = "uploading"}

(* pendingUploads counts the uploads under way, and who waits waits for one. *)
UploadInv(R, u, n) == /\ n = Cardinality(Uploading(u))
                      /\ (\E r \in Runs : R[r].stage = "waiting") => n > 0

Owned == [Generations -> Runs \union {NoRun}]

ControlTyped == /\ run \in RunTables /\ overlay \in Overlays /\ analyzing \in BOOLEAN
                /\ owner \in Owned /\ live \in Generations

Control == /\ ControlTyped
           /\ GestureInv(run, overlay, analyzing, sent)
           /\ OwnerInv(run, owner, analyzing, live)
           /\ UploadInv(run, upload, pending)

(* A run that did not analyze goes on, as the owner or not. *)
Owns(stage, r, g, l, w, v, a, b) ==
  \/ v = w /\ (b <=> a)
  \/ stage = "analyzing" /\ v = [w EXCEPT ![g] = r] /\ (b <=> a \/ g = l)

LEMMA OwnerMoved ==
  ASSUME NEW R \in RunTables, NEW T, NEW r \in Runs, NEW stage, NEW g \in Generations, NEW gesture,
         NEW w \in Owned, NEW v, NEW a \in BOOLEAN, NEW b \in BOOLEAN, NEW l \in Generations,
         OwnerInv(R, w, a, l), Moved(R, T, r, stage, g, gesture), R[r].stage \notin {"analyzing", "done"},
         l = 1 => g = 1, Owns(stage, r, g, l, w, v, a, b)
  PROVE  OwnerInv(T, v, b, l)
<1>1. /\ \A q \in Runs : q # r => T[q] = R[q]
      /\ T[r].stage = stage /\ T[r].home = g
      /\ \A h \in Generations : w[h] \in Runs \union {NoRun}
      /\ r # NoRun
  BY DEF Moved, Owned, Runs
<1>0. \A h \in Generations : w[h] # r
  BY <1>1 DEF OwnerInv
<1>2. CASE v = w /\ (b <=> a)
  BY <1>0, <1>1, <1>2 DEF OwnerInv, Generations
<1>3. CASE stage = "analyzing" /\ v = [w EXCEPT ![g] = r] /\ (b <=> a \/ g = l)
  <2>1. /\ v[g] = r /\ r # NoRun
        /\ \A h \in Generations : h # g => v[h] = w[h]
    BY <1>1, <1>3 DEF Owned
  <2>2. l = 1 => v[2] = NoRun /\ \A q \in Runs : T[q].home = 1
    BY <1>1, <2>1 DEF OwnerInv, Generations
  <2>3. \A h \in Generations : v[h] # NoRun => T[v[h]].home = h /\ T[v[h]].stage \in {"analyzing", "done"}
    BY <1>0, <1>1, <1>3, <2>1 DEF OwnerInv
  <2>4. b <=> v[l] # NoRun /\ T[v[l]].stage = "analyzing"
    <3>1. CASE g = l
      BY <1>1, <1>3, <2>1, <3>1
    <3>2. CASE g # l
      BY <1>0, <1>1, <1>3, <2>1, <3>2 DEF OwnerInv
    <3> QED
      BY <3>1, <3>2
  <2> QED
    BY <2>2, <2>3, <2>4 DEF OwnerInv
<1> QED
  BY <1>2, <1>3 DEF Owns

(* A run that analyzed is over: the live controller is free if it was its. *)
Releases(r, l, w, a, b) == \/ w[l] = r /\ ~b
                           \/ w[l] # r /\ (b <=> a)

LEMMA OwnerOver ==
  ASSUME NEW R \in RunTables, NEW T, NEW r \in Runs,
         NEW w \in Owned, NEW a \in BOOLEAN, NEW b \in BOOLEAN, NEW l \in Generations,
         OwnerInv(R, w, a, l), Moved(R, T, r, "done", R[r].home, R[r].gesture), Releases(r, l, w, a, b)
  PROVE  OwnerInv(T, w, b, l)
BY DEF OwnerInv, Moved, Owned, Generations, Releases

LEMMA UploadMoved ==
  ASSUME NEW R, NEW T, NEW r \in Runs, NEW stage, NEW g, NEW gesture, NEW u, NEW n,
         UploadInv(R, u, n), Moved(R, T, r, stage, g, gesture), stage = "waiting" => n > 0
  PROVE  UploadInv(T, u, n)
BY DEF UploadInv, Moved

LEMMA ControlInspected ==
  ASSUME ControlTyped, SentRuns(sent), UNCHANGED <<live, upload, pending, sent>>,
         NEW R \in RunTables, NEW r \in Runs, NEW g \in Generations, NEW gesture \in Runs, NEW masked \in BOOLEAN,
         GestureInv(R, overlay, analyzing, sent), OwnerInv(R, owner, analyzing, live), UploadInv(R, upload, pending),
         Inspected(R, r, g, gesture, masked), live = 1 => g = 1,
         \/ R[r].stage = "new" /\ gesture = r
         \/ /\ R[r].stage = "new" /\ Actionable(overlay) /\ gesture = R[overlay.run].gesture
            /\ ~analyzing /\ g = live
            /\ masked \/ overlay.kind \in {"block", "error"}
         \/ R[r].stage = "woken" /\ gesture = R[r].gesture
  PROVE  Control'
<1>1. CASE /\ Moved(R, run', r, "done", g, gesture)
           /\ overlay' = overlay \/ overlay' = [kind |-> "error", run |-> r]
           /\ UNCHANGED <<owner, analyzing>>
  <2>0. /\ [kind |-> "error", run |-> r] \in Overlays
        /\ [kind |-> "error", run |-> r].run = r /\ [kind |-> "error", run |-> r].kind = "error"
    BY DEF Overlays, Kinds
  <2>1. ControlTyped'
    BY <1>1, <2>0 DEF ControlTyped, Moved
  <2>2. GestureInv(run', overlay', analyzing', sent)
    <3>1. Origin(R, r, gesture, overlay, analyzing)
      BY DEF Origin, Open
    <3>2. Leaves(R, run', r, "done", gesture, overlay, overlay', analyzing, analyzing')
      <4>1. CASE overlay' = overlay
        BY <1>1, <4>1 DEF Leaves
      <4>2. CASE overlay' = [kind |-> "error", run |-> r]
        BY <1>1, <2>0, <4>2 DEF Leaves
      <4> QED
        BY <1>1, <4>1, <4>2
    <3> QED
      BY <1>1, <2>1, <3>1, <3>2, GestureMoved DEF ControlTyped
  <2>3. OwnerInv(run', owner', analyzing', live)
    <3>1. Owns("done", r, g, live, owner, owner', analyzing, analyzing')
      BY <1>1 DEF Owns
    <3> QED
      BY <1>1, <3>1, OwnerMoved DEF ControlTyped
  <2>4. UploadInv(run', upload, pending)
    BY <1>1, UploadMoved
  <2> QED
    BY <2>1, <2>2, <2>3, <2>4 DEF Control
<1>2. CASE /\ Moved(R, run', r, "analyzing", g, gesture)
           /\ overlay' = IF masked /\ g = live THEN [kind |-> "mask checking", run |-> r] ELSE overlay
           /\ owner' = [owner EXCEPT ![g] = r]
           /\ analyzing' = (analyzing \/ g = live)
  <2>0. /\ [kind |-> "mask checking", run |-> r] \in Overlays
        /\ [kind |-> "mask checking", run |-> r].kind = "mask checking"
        /\ (analyzing \/ g = live) \in BOOLEAN
    BY DEF Overlays, Kinds
  <2>1. ControlTyped'
    BY <1>2, <2>0 DEF ControlTyped, Moved, Owned
  <2>2. GestureInv(run', overlay', analyzing', sent)
    <3>1. Origin(R, r, gesture, overlay, analyzing)
      BY DEF Origin, Open
    <3>2. Leaves(R, run', r, "analyzing", gesture, overlay, overlay', analyzing, analyzing')
      <4>1. CASE masked /\ g = live
        BY <1>2, <2>0, <4>1 DEF Leaves, Actionable
      <4>2. CASE ~(masked /\ g = live)
        <5>1. Actionable(overlay) => R[overlay.run].gesture # r \/ R[r].stage # "new"
          BY DEF GestureInv, Gestures, Buttons, ControlTyped, Overlays, Actionable
        <5>2. overlay' = overlay /\ (analyzing => analyzing') /\ (g = live => analyzing')
          BY <1>2, <4>2 DEF ControlTyped
        <5>3. R[r].stage # "analyzing"
          OBVIOUS
        <5>4. ASSUME Actionable(overlay), gesture = R[overlay.run].gesture, R[r].stage = "new"
              PROVE  analyzing' /\ overlay.kind \in {"block", "error"}
          BY <4>2, <5>1, <5>2, <5>4
        <5> QED
          BY <5>2, <5>3, <5>4 DEF Leaves
      <4> QED
        BY <4>1, <4>2
    <3>3. /\ Moved(R, run', r, "analyzing", g, gesture) /\ run' \in RunTables
          /\ overlay \in Overlays /\ overlay' \in Overlays /\ analyzing \in BOOLEAN /\ analyzing' \in BOOLEAN
      BY <1>2, <2>1 DEF ControlTyped
    <3> QED
      BY <3>1, <3>2, <3>3, GestureMoved
  <2>3. OwnerInv(run', owner', analyzing', live)
    <3>1. R[r].stage \notin {"analyzing", "done"}
      OBVIOUS
    <3>2. /\ owner \in Owned /\ analyzing \in BOOLEAN /\ analyzing' \in BOOLEAN /\ live \in Generations
          /\ Moved(R, run', r, "analyzing", g, gesture)
          /\ Owns("analyzing", r, g, live, owner, owner', analyzing, analyzing')
      BY <1>2, <2>1 DEF ControlTyped, Owns
    <3> QED
      BY <3>1, <3>2, OwnerMoved
  <2>4. UploadInv(run', upload, pending)
    BY <1>2, UploadMoved
  <2> QED
    BY <2>1, <2>2, <2>3, <2>4 DEF Control
<1> QED
  BY <1>1, <1>2 DEF Inspected

LEMMA ControlAttempted ==
  ASSUME ControlTyped, SentRuns(sent), UNCHANGED <<live, upload, pending, sent>>,
         NEW R \in RunTables, NEW r \in Runs, NEW gesture \in Runs, NEW masked \in BOOLEAN,
         GestureInv(R, overlay, analyzing, sent), OwnerInv(R, owner, analyzing, live), UploadInv(R, upload, pending),
         Attempted(R, r, gesture, masked), R[r].stage = "new",
         \/ gesture = r
         \/ /\ Actionable(overlay) /\ gesture = R[overlay.run].gesture
            /\ masked \/ overlay.kind \in {"block", "error"}
  PROVE  Control'
<1>1. CASE /\ run' = R
           /\ overlay' = [kind |-> "analyzing", run |-> NoRun]
           /\ UNCHANGED <<owner, analyzing>>
  <2>1. ControlTyped' /\ ~Actionable(overlay')
    BY <1>1 DEF ControlTyped, Overlays, Kinds, Actionable
  <2>2. GestureInv(run', overlay', analyzing', sent)
    BY <1>1, <2>1, GestureKept DEF ControlTyped
  <2> QED
    BY <1>1, <2>1, <2>2 DEF Control
<1>2. CASE /\ ~analyzing /\ pending > 0
           /\ Moved(R, run', r, "waiting", live, gesture)
           /\ overlay' = [kind |-> "analyzing", run |-> NoRun]
           /\ UNCHANGED <<owner, analyzing>>
  <2>1. ControlTyped' /\ ~Actionable(overlay')
    BY <1>2 DEF ControlTyped, Moved, Overlays, Kinds, Actionable
  <2>2. GestureInv(run', overlay', analyzing', sent)
    <3>1. Origin(R, r, gesture, overlay, analyzing)
      BY <1>2 DEF Origin, Open
    <3>2. Leaves(R, run', r, "waiting", gesture, overlay, overlay', analyzing, analyzing')
      BY <2>1 DEF Leaves
    <3> QED
      BY <1>2, <2>1, <3>1, <3>2, GestureMoved DEF ControlTyped
  <2>3. OwnerInv(run', owner', analyzing', live)
    <3>1. Owns("waiting", r, live, live, owner, owner', analyzing, analyzing')
      BY <1>2 DEF Owns
    <3> QED
      BY <1>2, <3>1, OwnerMoved DEF ControlTyped
  <2>4. UploadInv(run', upload, pending)
    BY <1>2, UploadMoved
  <2> QED
    BY <2>1, <2>2, <2>3, <2>4 DEF Control
<1>3. CASE ~analyzing /\ Inspected(R, r, live, gesture, masked)
  BY <1>3, ControlInspected DEF ControlTyped
<1> QED
  BY <1>1, <1>2, <1>3 DEF Attempted

(* A step that starts, ends and answers nothing. *)
LEMMA ControlKept ==
  ASSUME Control, SentRuns(sent), UNCHANGED <<owner, analyzing, live, sent>>, run' \in RunTables,
         \A r \in Runs : /\ run'[r].home = run[r].home /\ run'[r].gesture = run[r].gesture
                         /\ run'[r].verdict = run[r].verdict
                         /\ run'[r].stage = run[r].stage \/ (run[r].stage = "waiting" /\ run'[r].stage = "woken"),
         overlay' = overlay \/ (overlay' \in Overlays /\ ~Actionable(overlay')),
         UploadInv(run', upload', pending')
  PROVE  Control'
<1>1. ControlTyped'
  BY DEF Control, ControlTyped
<1>2. GestureInv(run', overlay', analyzing', sent')
  BY GestureKept DEF Control, ControlTyped
<1>3. OwnerInv(run', owner', analyzing', live')
  <2>1. \A g \in Generations : owner[g] \in Runs \union {NoRun}
    BY DEF Control, ControlTyped, Owned
  <2>2. \A r \in Runs : /\ run'[r].stage = "analyzing" <=> run[r].stage = "analyzing"
                        /\ run'[r].stage = "done" <=> run[r].stage = "done"
    OBVIOUS
  <2> QED
    BY <2>1, <2>2 DEF Control, ControlTyped, OwnerInv
<1> QED
  BY <1>1, <1>2, <1>3 DEF Control

(* What an answer makes of its run. *)
LEMMA OverMoves ==
  ASSUME run \in RunTables, NEW r \in Runs, NEW verdict \in {"allow", "warn", "refused"}
  PROVE  /\ Moved(run, Over(r, verdict), r, "done", run[r].home, run[r].gesture)
         /\ Over(r, verdict) \in RunTables
         /\ Over(r, verdict)[r].verdict = verdict
<1> DEFINE over == [run[r] EXCEPT !.stage = "done", !.verdict = verdict, !.timer = FALSE,
                                  !.text = IF verdict = "refused" THEN Empty ELSE run[r].text,
                                  !.items = IF verdict = "refused" THEN {} ELSE run[r].items,
                                  !.paste = run[r].paste /\ ~(verdict = "refused")]
<1>1. run \in [Runs -> RunRecords] /\ run[r] \in RunRecords
  BY DEF RunTables
<1>2. /\ (IF verdict = "refused" THEN Empty ELSE run[r].text) \in Contents
      /\ (IF verdict = "refused" THEN {} ELSE run[r].items) \in SUBSET Items
      /\ (run[r].paste /\ ~(verdict = "refused")) \in BOOLEAN
  BY <1>1 DEF RunRecords, Contents
<1>3. over \in RunRecords
  BY <1>1, <1>2 DEF RunRecords, Stages
<1>4. over.stage = "done" /\ over.home = run[r].home /\ over.gesture = run[r].gesture /\ over.verdict = verdict
  BY <1>1 DEF RunRecords
<1>5. Over(r, verdict) = [run EXCEPT ![r] = over]
  BY DEF Over
<1> QED
  BY <1>1, <1>3, <1>4, <1>5 DEF Moved, RunTables

LEMMA AnsweredMoves ==
  ASSUME run \in RunTables, NEW r \in Runs, NEW v
  PROVE  /\ Moved(run, Answered(r, v), r, "done", run[r].home, run[r].gesture)
         /\ Answered(r, v) \in RunTables
         /\ v = "allow" => Answered(r, v)[r].verdict = "allow"
BY OverMoves DEF Answered

(* The analyzing run is over.  The prompt it may send comes on top. *)
LEMMA ControlAnswered ==
  ASSUME Control, SentRuns(sent), UNCHANGED <<owner, live, upload, pending>>,
         NEW r \in Runs, run[r].stage = "analyzing", NEW T \in RunTables,
         Moved(run, T, r, "done", run[r].home, run[r].gesture),
         NEW o \in Overlays, NEW b \in BOOLEAN,
         Releases(r, live, owner, analyzing, b),
         Leaves(run, T, r, "done", run[r].gesture, overlay, o, analyzing, b)
  PROVE  /\ GestureInv(T, o, b, sent) /\ OwnerInv(T, owner, b, live) /\ UploadInv(T, upload, pending)
         /\ \A q \in Runs : Open(T, q) => T[q].gesture # T[r].gesture
         /\ \A s \in sent : T[s.run].gesture # T[r].gesture
<1>0. /\ run \in RunTables /\ overlay \in Overlays /\ analyzing \in BOOLEAN
      /\ owner \in Owned /\ live \in Generations
      /\ GestureInv(run, overlay, analyzing, sent)
      /\ OwnerInv(run, owner, analyzing, live)
      /\ UploadInv(run, upload, pending)
  BY DEF Control, ControlTyped
<1>1. Origin(run, r, run[r].gesture, overlay, analyzing)
  BY DEF Origin, Open
<1>3. run[r].gesture \in Runs
  BY <1>0 DEF RunTables, RunRecords
<1>4. GestureInv(T, o, b, sent)
  BY <1>0, <1>1, <1>3, GestureMoved
<1>5. OwnerInv(T, owner, b, live)
  BY <1>0, OwnerOver
<1>6. UploadInv(T, upload, pending)
  BY <1>0, UploadMoved
<1>7. \A q \in Runs : Open(T, q) => T[q].gesture # T[r].gesture
  BY <1>0 DEF GestureInv, OneOpen, Moved, Open
<1>8. \A s \in sent : T[s.run].gesture # T[r].gesture
  BY <1>0 DEF GestureInv, Sends, SentRuns, Moved, Open
<1> QED
  BY <1>4, <1>5, <1>6, <1>7, <1>8

(* A replay shows no button, and sends for a gesture that was not sent yet. *)
LEMMA GestureReplayed ==
  ASSUME TypeOK, NEW r \in Runs, NEW T \in RunTables, NEW o \in Overlays, NEW b \in BOOLEAN,
         GestureInv(T, o, b, sent), Replay(r),
         T[r].stage = "done", T[r].verdict \in {"allow", "warn"},
         \A q \in Runs : Open(T, q) => T[q].gesture # T[r].gesture,
         \A s \in sent : T[s.run].gesture # T[r].gesture
  PROVE  overlay' \in Overlays /\ GestureInv(T, overlay', b, sent')
<1>1. overlay' \in Overlays /\ ~Actionable(overlay')
  <2>1. overlay' = [kind |-> "hidden", run |-> NoRun] \/ overlay' = [kind |-> "error", run |-> NoRun]
    BY DEF Replay, HideOverlay, Show
  <2>2. /\ [kind |-> "hidden", run |-> NoRun] \in Overlays /\ ~Actionable([kind |-> "hidden", run |-> NoRun])
        /\ [kind |-> "error", run |-> NoRun] \in Overlays /\ ~Actionable([kind |-> "error", run |-> NoRun])
    BY DEF Overlays, Kinds, Actionable
  <2> QED
    BY <2>1, <2>2
<1>2. SentRuns(sent)
  BY DEF TypeOK, SentRuns
<1>3. GestureInv(T, overlay', b, sent)
  BY <1>1, <1>2, GestureKept
<1>4. CASE sent' = sent
  BY <1>1, <1>3, <1>4
<1>5. CASE sent' = sent \union {[run |-> r, text |-> text, items |-> attached]}
  BY <1>1, <1>3, <1>5, GestureSent
<1> QED
  BY <1>4, <1>5 DEF Replay

-------------------------------------------------------------------------------
(* The steps of the control. *)

LEMMA TypedSends == TypeOK => SentRuns(sent)
BY DEF TypeOK, SentRuns

LEMMA StaleAnswer ==
  ASSUME TypeOK, Control, NEW r \in Runs, Superseded(r)
  PROVE  Control'
<1>1. /\ run' = Over(r, "refused") /\ run[r].stage = "analyzing" /\ owner[run[r].home] # r
      /\ UNCHANGED <<owner, live, upload, pending>> /\ overlay' = overlay /\ analyzing' = analyzing /\ sent' = sent
  BY DEF Superseded, page, uploads
<1>2. owner[live] # r
  BY <1>1 DEF Control, ControlTyped, OwnerInv, Runs
<1>3. Releases(r, live, owner, analyzing, analyzing)
  BY <1>2 DEF Releases
<1>4. Leaves(run, run', r, "done", run[r].gesture, overlay, overlay, analyzing, analyzing)
  BY DEF Leaves
<1>5. /\ Moved(run, run', r, "done", run[r].home, run[r].gesture) /\ run' \in RunTables
      /\ overlay \in Overlays /\ analyzing \in BOOLEAN
  BY <1>1, OverMoves DEF Control, ControlTyped
<1>6. GestureInv(run', overlay, analyzing, sent) /\ OwnerInv(run', owner, analyzing, live) /\ UploadInv(run', upload, pending)
  BY <1>1, <1>3, <1>4, <1>5, ControlAnswered, TypedSends
<1> QED
  BY <1>1, <1>5, <1>6 DEF Control, ControlTyped

(* The answer frees the live controller. *)
LEMMA CurrentAnswer ==
  ASSUME TypeOK, Control, NEW r \in Runs, AllowAnswer(r) \/ OtherAnswer(r)
  PROVE  Control'
<1>1. /\ run[r].stage = "analyzing" /\ owner[live] = r
      /\ UNCHANGED <<owner, live, upload, pending>> /\ analyzing' = FALSE
  BY DEF AllowAnswer, OtherAnswer, Current, uploads
<1>2. Releases(r, live, owner, analyzing, FALSE)
  BY <1>1 DEF Releases
<1>3. run \in RunTables /\ overlay \in Overlays /\ owner \in Owned /\ live \in Generations
  BY DEF Control, ControlTyped
<1>4. CASE AllowAnswer(r)
  <2>0. run' = Answered(r, "allow") /\ Replay(r)
    BY <1>4 DEF AllowAnswer
  <2>1. /\ Moved(run, run', r, "done", run[r].home, run[r].gesture) /\ run' \in RunTables
        /\ run'[r].verdict = "allow" /\ run'[r].stage = "done"
    BY <1>3, <2>0, AnsweredMoves DEF Moved
  <2> DEFINE o == [kind |-> "hidden", run |-> NoRun]
  <2>2. Leaves(run, run', r, "done", run[r].gesture, overlay, o, analyzing, FALSE) /\ o \in Overlays
    BY DEF Leaves, Actionable, Overlays, Kinds
  <2> HIDE DEF o
  <2>3. /\ GestureInv(run', o, FALSE, sent) /\ OwnerInv(run', owner, FALSE, live) /\ UploadInv(run', upload, pending)
        /\ \A q \in Runs : Open(run', q) => run'[q].gesture # run'[r].gesture
        /\ \A s \in sent : run'[s.run].gesture # run'[r].gesture
    BY <1>1, <1>2, <2>1, <2>2, ControlAnswered, TypedSends
  <2>4. overlay' \in Overlays /\ GestureInv(run', overlay', FALSE, sent')
    BY <2>0, <2>1, <2>2, <2>3, GestureReplayed
  <2> QED
    BY <1>1, <1>3, <2>1, <2>3, <2>4 DEF Control, ControlTyped
<1>5. CASE OtherAnswer(r)
  <2>0. PICK v \in Verdicts :
          /\ run' = Answered(r, v)
          /\ Show(live, IF run[r].masked THEN MaskedKind(v) ELSE DecisionKind(v), r)
    BY <1>5 DEF OtherAnswer
  <2>1. /\ Moved(run, run', r, "done", run[r].home, run[r].gesture) /\ run' \in RunTables
        /\ v = "allow" => run'[r].verdict = "allow"
    BY <1>3, <2>0, AnsweredMoves
  <2>2. /\ MaskedKind(v) \in Kinds /\ DecisionKind(v) \in Kinds
        /\ MaskedKind(v) = "mask passed" => v = "allow"
        /\ DecisionKind(v) # "mask passed"
    BY DEF MaskedKind, DecisionKind, Kinds, Verdicts
  <2>3. /\ overlay' \in Overlays /\ overlay'.run = r
        /\ overlay'.kind = "mask passed" => v = "allow"
    BY <2>0, <2>2 DEF Show, Overlays
  <2>4. Leaves(run, run', r, "done", run[r].gesture, overlay, overlay', analyzing, FALSE)
    BY <2>1, <2>3 DEF Leaves
  <2>5. /\ GestureInv(run', overlay', FALSE, sent) /\ OwnerInv(run', owner, FALSE, live) /\ UploadInv(run', upload, pending)
    BY <1>1, <1>2, <2>1, <2>3, <2>4, ControlAnswered, TypedSends
  <2>6. sent' = sent
    BY <1>5 DEF OtherAnswer, page
  <2> QED
    BY <1>1, <1>3, <2>1, <2>3, <2>5, <2>6 DEF Control, ControlTyped
<1> QED
  BY <1>4, <1>5

(* The click of a controller that was disconnected: first its run is over,  *)
(* then a fresh run of the live controller may start.                       *)
LEMMA LateAnswer ==
  ASSUME TypeOK, Control, NEW r \in Runs, DisconnectedAnswer(r)
  PROVE  Control'
<1>1. /\ run[r].stage = "analyzing" /\ run[r].home # live /\ owner[run[r].home] = r
      /\ UNCHANGED <<live, upload, pending, sent>>
  BY DEF DisconnectedAnswer, ReplayDisconnected, page, uploads
<1>2. ControlTyped /\ owner[live] # r
  BY <1>1 DEF Control, ControlTyped, OwnerInv, Runs
<1>3. Releases(r, live, owner, analyzing, analyzing)
  BY <1>2 DEF Releases
<1>4. ASSUME NEW v
      PROVE  /\ Answered(r, v) \in RunTables
             /\ GestureInv(Answered(r, v), overlay, analyzing, sent)
             /\ OwnerInv(Answered(r, v), owner, analyzing, live)
             /\ UploadInv(Answered(r, v), upload, pending)
             /\ \A q \in Runs : run[q].stage = "new" => Answered(r, v)[q].stage = "new"
  <2>1. Moved(run, Answered(r, v), r, "done", run[r].home, run[r].gesture) /\ Answered(r, v) \in RunTables
    BY <1>2, AnsweredMoves DEF ControlTyped
  <2>2. Leaves(run, Answered(r, v), r, "done", run[r].gesture, overlay, overlay, analyzing, analyzing)
    BY DEF Leaves
  <2>3. /\ Origin(run, r, run[r].gesture, overlay, analyzing)
        /\ run[r].gesture \in Runs
    BY <1>1, <1>2 DEF Origin, Open, ControlTyped, RunTables, RunRecords
  <2>4. GestureInv(Answered(r, v), overlay, analyzing, sent)
    BY <1>2, <2>1, <2>2, <2>3, GestureMoved, TypedSends DEF Control, ControlTyped
  <2>5. OwnerInv(Answered(r, v), owner, analyzing, live)
    BY <1>2, <1>3, <2>1, OwnerOver DEF Control, ControlTyped
  <2>6. UploadInv(Answered(r, v), upload, pending)
    BY <2>1, UploadMoved DEF Control
  <2>7. \A q \in Runs : run[q].stage = "new" => Answered(r, v)[q].stage = "new"
    BY <1>1, <2>1 DEF Moved
  <2> QED
    BY <2>1, <2>4, <2>5, <2>6, <2>7
<1>5. ASSUME NEW v, run' = Answered(r, v), UNCHANGED <<owner, analyzing, overlay>> PROVE Control'
  BY <1>1, <1>2, <1>4, <1>5 DEF Control, ControlTyped
<1>6. ASSUME NEW q \in Runs, Fresh(q), HandleAttempt(Answered(r, "allow"), q, q) PROVE Control'
  <2> DEFINE R == Answered(r, "allow")
  <2>1. /\ R \in RunTables /\ GestureInv(R, overlay, analyzing, sent)
        /\ OwnerInv(R, owner, analyzing, live) /\ UploadInv(R, upload, pending)
        /\ R[q].stage = "new"
    BY <1>4, <1>6 DEF Fresh
  <2>2. HandleAttempt(R, q, q)
    BY <1>6
  <2> HIDE DEF R
  <2>3. Attempted(R, q, q, R[q].masked) /\ R[q].masked \in BOOLEAN
    BY <2>1, <2>2, AttemptDoes DEF RunTables, RunRecords
  <2> QED
    BY <1>1, <1>2, <2>1, <2>3, ControlAttempted, TypedSends
<1> QED
  BY <1>5, <1>6 DEF DisconnectedAnswer, ReplayDisconnected

LEMMA ResumedRun ==
  ASSUME TypeOK, Control, NEW r \in Runs, Resume(r)
  PROVE  Control'
<1>1. /\ run[r].stage = "woken" /\ UNCHANGED <<live, upload, pending, sent>>
      /\ ControlTyped /\ text \in Contents
  BY DEF Resume, page, uploads, Control, TypeOK
<1>2. /\ run \in RunTables /\ run[r] \in RunRecords
      /\ run[r].home \in Generations /\ run[r].gesture \in Runs /\ run[r].masked \in BOOLEAN
      /\ live = 1 => run[r].home = 1
  BY <1>1 DEF ControlTyped, RunTables, RunRecords, Control, OwnerInv
<1>3. Inspected(run, r, run[r].home, run[r].gesture, run[r].masked)
  <2>1. CASE pending > 0
    <3>1. run' = [run EXCEPT ![r].stage = "done"] /\ UNCHANGED <<owner, analyzing, overlay>>
      BY <2>1 DEF Resume
    <3>2. Moved(run, run', r, "done", run[r].home, run[r].gesture)
      BY <1>2, <3>1 DEF Moved, RunTables, RunRecords, Stages
    <3> QED
      BY <3>1, <3>2 DEF Inspected
  <2>2. CASE ~(pending > 0)
    BY <1>1, <1>2, <2>2, InspectDoes DEF Resume
  <2> QED
    BY <2>1, <2>2
<1> QED
  BY <1>1, <1>2, <1>3, ControlInspected, TypedSends DEF Control

(* The clicks that start a run. *)
LEMMA StartedRun ==
  ASSUME TypeOK, Control, NEW r \in Runs, NEW gesture \in Runs, NEW masked \in BOOLEAN, run[r].stage = "new",
         UNCHANGED <<live, upload, pending, sent>>, Attempted(run, r, gesture, masked),
         \/ gesture = r
         \/ /\ Actionable(overlay) /\ gesture = run[overlay.run].gesture
            /\ masked \/ overlay.kind \in {"block", "error"}
  PROVE  Control'
<1>1. ControlTyped /\ SentRuns(sent) /\ run \in RunTables
  BY TypedSends DEF Control, ControlTyped
<1>2. GestureInv(run, overlay, analyzing, sent) /\ OwnerInv(run, owner, analyzing, live) /\ UploadInv(run, upload, pending)
  BY DEF Control
<1> QED
  BY <1>1, <1>2, ControlAttempted

LEMMA ShownIsActionable ==
  ASSUME TypeOK, NEW kind \in {"warn", "mask", "mask passed", "mask failed", "block", "error"}, Shown(kind)
  PROVE  Actionable(overlay) /\ overlay.kind = kind /\ overlay.run \in Runs /\ run[overlay.run].gesture \in Runs
BY Tables DEF Shown, Actionable, Overlays, RunTables, RunRecords

LEMMA StartingClick ==
  ASSUME TypeOK, Control, NEW r \in Runs, Send(r) \/ SendWithoutComposer(r) \/ RetryMasked(r) \/ Retry(r)
  PROVE  Control'
<1>0. /\ run[r].stage = "new" /\ UNCHANGED <<live, upload, pending, sent>>
      /\ run \in RunTables /\ run[r].masked \in BOOLEAN /\ run[r] \in RunRecords
      /\ live \in Generations /\ text \in Contents
  BY Tables DEF Send, SendWithoutComposer, RetryMasked, Retry, Fresh, page, uploads, RunTables, RunRecords, TypeOK
<1>1. CASE Send(r)
  BY <1>0, <1>1, AttemptDoes, StartedRun DEF Send
<1>2. CASE SendWithoutComposer(r)
  <2>1. /\ run' = [run EXCEPT ![r].stage = "done", ![r].home = live]
        /\ Show(live, "error", r) /\ UNCHANGED <<owner, analyzing>> /\ ~analyzing
    BY <1>2 DEF SendWithoutComposer
  <2>2. run[r].gesture = r
    BY <1>0 DEF Control, GestureInv, Gestures
  <2>3. Moved(run, run', r, "done", live, r)
    BY <1>0, <2>1, <2>2 DEF Moved, RunTables, RunRecords, Stages
  <2>4. Attempted(run, r, r, run[r].masked)
    BY <2>1, <2>3 DEF Attempted, Inspected, Show
  <2> QED
    BY <1>0, <2>4, StartedRun
<1>3. CASE RetryMasked(r)
  <2>1. Shown("mask failed") /\ Reinspect(r, run[overlay.run].gesture, text)
    BY <1>3 DEF RetryMasked
  <2> QED
    BY <1>0, <2>1, ShownIsActionable, ReinspectDoes, StartedRun
<1>4. CASE Retry(r)
  <2>1. HandleAttempt(run, r, run[overlay.run].gesture) /\ (Shown("block") \/ Shown("error"))
    BY <1>4 DEF Retry
  <2> QED
    BY <1>0, <2>1, ShownIsActionable, AttemptDoes, StartedRun
<1> QED
  BY <1>1, <1>2, <1>3, <1>4

(* A button that ends in an error leaves "retry" for its run. *)
LEMMA ErrorShown ==
  ASSUME Control, Actionable(overlay), Show(live, "error", overlay.run),
         UNCHANGED <<run, owner, analyzing, live, upload, pending, sent>>
  PROVE  Control'
<1>1. overlay' = [kind |-> "error", run |-> overlay.run] /\ overlay.run \in Runs
  BY DEF Show, Actionable, Control, ControlTyped, Overlays
<1>2. overlay' \in Overlays /\ overlay'.run = overlay.run /\ overlay'.kind = "error"
  BY <1>1 DEF Overlays, Kinds
<1>3. Buttons(run, overlay', analyzing)
  BY <1>2 DEF Control, GestureInv, Buttons
<1>4. Sends(run, overlay', sent)
  BY <1>2 DEF Control, GestureInv, Sends
<1> QED
  BY <1>2, <1>3, <1>4 DEF Control, ControlTyped, GestureInv

(* "continue" and "send-masked-prompt": the buttons that send. *)
LEMMA SendingClick ==
  ASSUME TypeOK, Control, Continue \/ SendMasked
  PROVE  Control'
<1>0. ControlTyped /\ UNCHANGED <<run, owner, analyzing, live, upload, pending>>
  BY DEF Control, Continue, SendMasked
<1>1. ASSUME Replay(overlay.run), overlay.run \in Runs, run[overlay.run].verdict \in {"allow", "warn"},
             Actionable(overlay), overlay.kind \notin {"block", "error"}
      PROVE  Control'
  <2>1. /\ run[overlay.run].stage = "done"
        /\ \A q \in Runs : Open(run, q) => run[q].gesture # run[overlay.run].gesture
        /\ \A s \in sent : run[s.run].gesture # run[overlay.run].gesture
        /\ GestureInv(run, overlay, analyzing, sent)
    BY <1>1 DEF Control, GestureInv, Buttons, Sends
  <2>2. overlay' \in Overlays /\ GestureInv(run, overlay', analyzing, sent')
    BY <1>0, <1>1, <2>1, GestureReplayed DEF ControlTyped
  <2> QED
    BY <1>0, <2>2 DEF Control, ControlTyped
<1>2. CASE Continue
  <2>1. Actionable(overlay) /\ overlay.kind = "warn" /\ overlay.run \in Runs
    BY <1>2, ShownIsActionable DEF Continue
  <2>2. CASE run[overlay.run].verdict = "warn"
    BY <1>1, <1>2, <2>1, <2>2 DEF Continue
  <2>3. CASE run[overlay.run].verdict # "warn"
    <3>1. Show(live, "error", overlay.run) /\ sent' = sent
      BY <1>2, <2>3 DEF Continue
    <3> QED
      BY <1>0, <2>1, <3>1, ErrorShown
  <2> QED
    BY <2>2, <2>3
<1>3. CASE SendMasked
  <2>1. Actionable(overlay) /\ overlay.kind = "mask passed" /\ overlay.run \in Runs /\ Replay(overlay.run)
    BY <1>3, ShownIsActionable DEF SendMasked
  <2>2. run[overlay.run].verdict = "allow"
    BY <2>1 DEF Control, GestureInv, Buttons
  <2> QED
    BY <1>1, <2>1, <2>2
<1> QED
  BY <1>2, <1>3

LEMMA MaskingClick ==
  ASSUME TypeOK, Control, NEW r \in Runs, ApplyMask(r)
  PROVE  Control'
<1>0. /\ run[r].stage = "new" /\ UNCHANGED <<live, upload, pending, sent>> /\ Shown("mask")
      /\ Masked \in Contents
  BY DEF ApplyMask, Fresh, uploads, Contents
<1>1. CASE Reinspect(r, run[overlay.run].gesture, Masked)
  BY <1>0, <1>1, ShownIsActionable, ReinspectDoes, StartedRun
<1>2. CASE Show(live, "error", overlay.run) /\ UNCHANGED <<text, run, owner, analyzing, pasted>>
  BY <1>0, <1>2, ShownIsActionable, ErrorShown
<1> QED
  BY <1>1, <1>2 DEF ApplyMask

LEMMA UploadingFinite ==
  ASSUME TypeOK
  PROVE  IsFiniteSet(Uploading(upload)) /\ Cardinality(Uploading(upload)) \in Nat
BY FS_Subset, FS_CardinalityType DEF Uploading

(* Files come and go under the runs. *)
LEMMA FileStep ==
  ASSUME TypeOK, Control, NEW f \in Files, AttachFile(f) \/ UploadEnds(f)
  PROVE  Control'
<1>0. /\ run \in RunTables /\ upload \in [Files -> {"new", "uploading", "ended"}] /\ pending \in Nat
      /\ UploadInv(run, upload, pending)
  BY DEF TypeOK, Control, ControlTyped
<1>1. CASE AttachFile(f)
  <2>1. /\ upload[f] = "new" /\ UNCHANGED <<run, owner, analyzing, live, sent>>
        /\ overlay' = overlay \/ overlay' = [kind |-> "analyzing", run |-> NoRun]
        /\ \/ upload' = [upload EXCEPT ![f] = "ended"] /\ pending' = pending
           \/ upload' = [upload EXCEPT ![f] = "uploading"] /\ pending' = pending + 1
    BY <1>1 DEF AttachFile, Show
  <2>2. [kind |-> "analyzing", run |-> NoRun] \in Overlays /\ ~Actionable([kind |-> "analyzing", run |-> NoRun])
    BY DEF Overlays, Kinds, Actionable
  <2>3. CASE upload' = [upload EXCEPT ![f] = "ended"] /\ pending' = pending
    <3>1. Uploading(upload') = Uploading(upload)
      BY <1>0, <2>1, <2>3 DEF Uploading
    <3>2. UploadInv(run', upload', pending')
      BY <1>0, <2>1, <2>3, <3>1 DEF UploadInv
    <3> QED
      BY <1>0, <2>1, <2>2, <3>2, ControlKept, TypedSends
  <2>4. CASE upload' = [upload EXCEPT ![f] = "uploading"] /\ pending' = pending + 1
    <3>1. Uploading(upload') = Uploading(upload) \union {f} /\ f \notin Uploading(upload)
      BY <1>0, <2>1, <2>4 DEF Uploading
    <3>2. Cardinality(Uploading(upload')) = Cardinality(Uploading(upload)) + 1
      BY <3>1, UploadingFinite, FS_AddElement
    <3>3. UploadInv(run', upload', pending')
      BY <1>0, <2>1, <2>4, <3>2 DEF UploadInv
    <3> QED
      BY <1>0, <2>1, <2>2, <3>3, ControlKept, TypedSends
  <2> QED
    BY <2>1, <2>3, <2>4
<1>2. CASE UploadEnds(f)
  <2>1. /\ upload[f] = "uploading" /\ upload' = [upload EXCEPT ![f] = "ended"]
        /\ UNCHANGED <<owner, analyzing, live, sent, overlay>>
        /\ pending' = IF pending > 0 THEN pending - 1 ELSE 0
        /\ run' = [r \in Runs |-> IF run[r].stage = "waiting" /\ pending' = 0
                                  THEN [run[r] EXCEPT !.stage = "woken"] ELSE run[r]]
    BY <1>2 DEF UploadEnds, page
  <2>2. \A r \in Runs : run[r] \in RunRecords /\ [run[r] EXCEPT !.stage = "woken"] \in RunRecords
    BY <1>0 DEF RunTables, RunRecords, Stages
  <2>3. /\ run' \in RunTables
        /\ \A r \in Runs : /\ run'[r].home = run[r].home /\ run'[r].gesture = run[r].gesture
                           /\ run'[r].verdict = run[r].verdict
                           /\ run'[r].stage = run[r].stage \/ (run[r].stage = "waiting" /\ run'[r].stage = "woken")
                           /\ run'[r].stage = "waiting" => run[r].stage = "waiting" /\ pending' # 0
    <3>1. run' \in RunTables
      BY <2>1, <2>2 DEF RunTables
    <3>2. ASSUME NEW r \in Runs
          PROVE  /\ run'[r].home = run[r].home /\ run'[r].gesture = run[r].gesture
                 /\ run'[r].verdict = run[r].verdict
                 /\ run'[r].stage = run[r].stage \/ (run[r].stage = "waiting" /\ run'[r].stage = "woken")
                 /\ run'[r].stage = "waiting" => run[r].stage = "waiting" /\ pending' # 0
      <4>1. CASE run[r].stage = "waiting" /\ pending' = 0
        <5>1. run'[r] = [run[r] EXCEPT !.stage = "woken"]
          BY <2>1, <4>1
        <5> QED
          BY <2>2, <4>1, <5>1 DEF RunRecords
      <4>2. CASE ~(run[r].stage = "waiting" /\ pending' = 0)
        <5>1. run'[r] = run[r]
          BY <2>1, <4>2
        <5> QED
          BY <4>2, <5>1
      <4> QED
        BY <4>1, <4>2
    <3> QED
      BY <3>1, <3>2
  <2>4. Uploading(upload) = Uploading(upload') \union {f} /\ f \notin Uploading(upload')
    BY <1>0, <2>1 DEF Uploading
  <2>5. IsFiniteSet(Uploading(upload')) /\ Cardinality(Uploading(upload')) \in Nat
    BY <2>4, UploadingFinite, FS_Subset, FS_CardinalityType
  <2>6. Cardinality(Uploading(upload)) = Cardinality(Uploading(upload')) + 1
    BY <2>4, <2>5, FS_AddElement
  <2>7. pending = Cardinality(Uploading(upload))
    BY <1>0 DEF UploadInv
  <2>8. pending' = Cardinality(Uploading(upload')) /\ pending' \in Nat
    BY <2>1, <2>5, <2>6, <2>7
  <2>9. UploadInv(run', upload', pending')
    BY <2>3, <2>8 DEF UploadInv
  <2> QED
    BY <2>1, <2>3, <2>9, ControlKept, TypedSends
<1> QED
  BY <1>1, <1>2

(* Typing, pasting, removing a file, cancelling and the analyzing overlay.  *)
LEMMA QuietStep ==
  ASSUME TypeOK, Control,
         \/ Type \/ PasteLong \/ Cancel
         \/ \E f \in Files : RemoveFile(f)
         \/ \E r \in Runs : AnalyzingOverlay(r)
  PROVE  Control'
<1>0. /\ run \in RunTables /\ \A r \in Runs : run[r] \in RunRecords
      /\ UploadInv(run, upload, pending)
      /\ UNCHANGED <<owner, analyzing, live, sent, upload, pending>>
  BY DEF Type, PasteLong, Cancel, RemoveFile, AnalyzingOverlay, page, control, uploads,
         Control, ControlTyped, RunTables
<1>1. overlay' = overlay \/ (overlay' \in Overlays /\ ~Actionable(overlay'))
  <2>1. \/ overlay' = overlay
        \/ overlay' = [kind |-> "hidden", run |-> NoRun]
        \/ overlay' = [kind |-> "analyzing", run |-> NoRun]
    <3>1. CASE \E r \in Runs : AnalyzingOverlay(r)
      BY <3>1 DEF AnalyzingOverlay, Show
    <3>2. CASE Type \/ PasteLong \/ Cancel \/ \E f \in Files : RemoveFile(f)
      BY <3>2 DEF Type, PasteLong, Cancel, RemoveFile, control, HideOverlay
    <3> QED
      BY <3>1, <3>2
  <2>2. /\ [kind |-> "hidden", run |-> NoRun] \in Overlays /\ ~Actionable([kind |-> "hidden", run |-> NoRun])
        /\ [kind |-> "analyzing", run |-> NoRun] \in Overlays /\ ~Actionable([kind |-> "analyzing", run |-> NoRun])
    BY DEF Overlays, Kinds, Actionable
  <2> QED
    BY <2>1, <2>2
<1>2. CASE run' = run
  BY <1>0, <1>1, <1>2, ControlKept, TypedSends
<1>3. CASE \E r \in Runs : run' = [run EXCEPT ![r].timer = FALSE]
  <2>1. PICK r \in Runs : run' = [run EXCEPT ![r].timer = FALSE]
    BY <1>3
  <2>2. [run[r] EXCEPT !.timer = FALSE] \in RunRecords
    <3>1. ASSUME NEW timer \in BOOLEAN PROVE [run[r] EXCEPT !.timer = timer] \in RunRecords
      BY <1>0 DEF RunRecords
    <3> QED
      BY <3>1
  <2>3. /\ run' \in RunTables
        /\ \A q \in Runs : /\ run'[q].home = run[q].home /\ run'[q].gesture = run[q].gesture
                           /\ run'[q].verdict = run[q].verdict /\ run'[q].stage = run[q].stage
    BY <1>0, <2>1, <2>2 DEF RunTables, RunRecords
  <2>4. UploadInv(run', upload', pending')
    BY <1>0, <2>3 DEF UploadInv
  <2> QED
    BY <1>0, <1>1, <2>3, <2>4, ControlKept, TypedSends
<1> QED
  BY <1>2, <1>3 DEF Type, PasteLong, Cancel, RemoveFile, AnalyzingOverlay, control

(* disconnect() moves currentAttemptId of the first controller on; the      *)
(* second one starts without a run.                                         *)
LEMMA ReinstallStep ==
  ASSUME TypeOK, Control, Reinstall
  PROVE  Control'
<1>1. /\ live = 1 /\ live' = 2 /\ owner' = [owner EXCEPT ![1] = NoRun] /\ analyzing' = FALSE
      /\ overlay' = [kind |-> "hidden", run |-> NoRun]
      /\ UNCHANGED <<run, sent, upload, pending>>
  BY DEF Reinstall, HideOverlay, page, uploads
<1>2. ControlTyped' /\ ~Actionable(overlay')
  BY <1>1 DEF Control, ControlTyped, Owned, Generations, Overlays, Kinds, Actionable
<1>3. GestureInv(run', overlay', analyzing', sent')
  BY <1>1, <1>2, GestureKept, TypedSends DEF Control, ControlTyped
<1>4. owner'[1] = NoRun /\ owner'[2] = NoRun
  BY <1>1 DEF Control, ControlTyped, Owned, OwnerInv, Generations
<1>5. OwnerInv(run', owner', analyzing', live')
  BY <1>1, <1>4 DEF OwnerInv, Generations
<1> QED
  BY <1>1, <1>2, <1>3, <1>5 DEF Control

LEMMA ControlStep ==
  ASSUME TypeOK, Control, [Next]_vars
  PROVE  Control'
<1>1. CASE UNCHANGED vars
  BY <1>1 DEF vars, page, control, uploads, Control, ControlTyped
<1>2. CASE Next
  <2>1. CASE Continuation
    BY <2>1, ResumedRun, StaleAnswer, CurrentAnswer, LateAnswer, FileStep DEF Continuation, Answer
  <2>2. CASE User
    BY <2>2, QuietStep, SendingClick, StartingClick, MaskingClick, FileStep DEF User
  <2>3. CASE Reinstall \/ \E r \in Runs : AnalyzingOverlay(r)
    BY <2>3, ReinstallStep, QuietStep
  <2> QED
    BY <1>2, <2>1, <2>2, <2>3 DEF Next
<1> QED
  BY <1>1, <1>2

-------------------------------------------------------------------------------
(* The page and the files. *)

(* TypeOK without the control. *)
PageTyped ==
  /\ text \in Contents /\ attached \subseteq Items /\ chips \in BOOLEAN /\ edits \in 0..MaxEdits
  /\ sent \subseteq [run : Runs, text : Contents, items : SUBSET Items]
  /\ pasted \in [Generations -> BOOLEAN]
  /\ registered \subseteq Files /\ unsupported \subseteq Files /\ underRequest \subseteq Files
  /\ upload \in [Files -> {"new", "uploading", "ended"}] /\ uploader \in [Files -> Generations]
  /\ pending \in Nat

LEMMA TypeParts == TypeOK <=> ControlTyped /\ PageTyped
BY DEF TypeOK, ControlTyped, PageTyped, RunTables, RunRecords, Overlays, Owned, Stages, Kinds

(* A file of a prompt that was sent was attached before: its upload began,  *)
(* its reference is registered no more, and if the upload is still under    *)
(* way its reference will come too late.                                    *)
FileInv ==
  /\ \A f \in Files : f \in attached => upload[f] # "new"
  /\ \A s \in sent : \A f \in Files : f \in s.items =>
       /\ f \notin registered
       /\ upload[f] # "new"
       /\ upload[f] = "uploading" => f \notin underRequest

(* Steps that touch neither a file nor a prompt. *)
LEMMA PageKept ==
  ASSUME PageTyped, FileInv, UNCHANGED <<chips, edits, sent, upload, uploader, pending>>,
         text' \in Contents, attached' \subseteq attached, pasted' \in [Generations -> BOOLEAN],
         \/ UNCHANGED <<registered, unsupported, underRequest>>
         \/ ClearRegistered
  PROVE  PageTyped' /\ FileInv'
<1>1. registered' \subseteq registered /\ unsupported' \subseteq unsupported /\ underRequest' \subseteq underRequest
  BY DEF ClearRegistered
<1>2. PageTyped'
  BY <1>1 DEF PageTyped
<1>3. FileInv'
  BY <1>1 DEF FileInv
<1> QED
  BY <1>2, <1>3

(* A replay sends what is attached, and forgets what was registered. *)
LEMMA PageReplayed ==
  ASSUME PageTyped, FileInv, NEW r \in Runs, Replay(r),
         UNCHANGED <<chips, edits, pasted, upload, uploader, pending>>
  PROVE  PageTyped' /\ FileInv'
<1>1. CASE sent' = sent
  <2>1. text' \in Contents /\ attached' \subseteq attached
        /\ (UNCHANGED <<registered, unsupported, underRequest>> \/ ClearRegistered)
    BY <1>1 DEF Replay, PageTyped, Contents
  <2>2. pasted' \in [Generations -> BOOLEAN]
    BY DEF PageTyped
  <2> QED
    BY <1>1, <2>1, <2>2, PageKept
<1>2. CASE /\ ClearRegistered
           /\ sent' = sent \union {[run |-> r, text |-> text, items |-> attached]}
           /\ text' = Empty /\ attached' = {}
  <2>1. PageTyped'
    BY <1>2 DEF PageTyped, ClearRegistered, Contents
  <2>2. FileInv'
    BY <1>2 DEF FileInv, ClearRegistered
  <2> QED
    BY <2>1, <2>2
<1> QED
  BY <1>1, <1>2 DEF Replay

LEMMA PageAttached ==
  ASSUME PageTyped, FileInv, live \in Generations, NEW f \in Files, AttachFile(f)
  PROVE  PageTyped' /\ FileInv'
<1>1. /\ upload[f] = "new" /\ attached' = attached \union {f}
      /\ uploader' = [uploader EXCEPT ![f] = live]
      /\ UNCHANGED <<text, chips, edits, sent, pasted>>
      /\ \/ /\ pending' = pending + 1
            /\ upload' = [upload EXCEPT ![f] = "uploading"]
            /\ underRequest' = underRequest \union {f}
            /\ UNCHANGED <<registered, unsupported>>
         \/ /\ upload' = [upload EXCEPT ![f] = "ended"]
            /\ unsupported' \in {unsupported, unsupported \union {f}}
            /\ UNCHANGED <<registered, underRequest, pending>>
  BY DEF AttachFile
<1>2. /\ \A s \in sent : f \notin s.items
      /\ upload'[f] # "new" /\ \A e \in Files : e # f => upload'[e] = upload[e]
      /\ registered' = registered
      /\ underRequest' \subseteq underRequest \union {f}
  BY <1>1 DEF FileInv, PageTyped
<1>3. PageTyped'
  BY <1>1 DEF PageTyped, Items
<1>4. FileInv'
  BY <1>1, <1>2 DEF FileInv
<1> QED
  BY <1>3, <1>4

LEMMA PageUploaded ==
  ASSUME PageTyped, FileInv, NEW f \in Files, UploadEnds(f)
  PROVE  PageTyped' /\ FileInv'
<1>1. /\ upload[f] = "uploading" /\ upload' = [upload EXCEPT ![f] = "ended"]
      /\ \/ f \in underRequest /\ registered' = registered \union {f}
         \/ UNCHANGED registered
      /\ unsupported' \in {unsupported, unsupported \union {f}}
      /\ pending' = IF pending > 0 THEN pending - 1 ELSE 0
      /\ UNCHANGED <<text, attached, chips, edits, sent, pasted, underRequest, uploader>>
  BY DEF UploadEnds, RegisterUploaded, page
<1>2. PageTyped'
  BY <1>1 DEF PageTyped
<1>3. /\ upload'[f] = "ended" /\ \A e \in Files : e # f => upload'[e] = upload[e]
  BY <1>1 DEF PageTyped
<1>4. FileInv'
  BY <1>1, <1>3 DEF FileInv
<1> QED
  BY <1>2, <1>4

LEMMA PageStep ==
  ASSUME TypeOK, Control, FileInv, [Next]_vars
  PROVE  PageTyped' /\ FileInv'
<1>0. /\ PageTyped /\ ControlTyped /\ live \in Generations
      /\ run \in RunTables /\ pasted \in [Generations -> BOOLEAN] /\ text \in Contents
      /\ \A r \in Runs : run[r].home \in Generations
  BY TypeParts DEF ControlTyped, PageTyped, RunTables, RunRecords
<1>1. CASE UNCHANGED <<page, uploads>> /\ pasted' \in [Generations -> BOOLEAN]
  BY <1>0, <1>1, PageKept DEF page, uploads
<1>2. CASE UNCHANGED vars
  BY <1>0, <1>1, <1>2 DEF vars, control
<1>3. ASSUME NEW r \in Runs, Resume(r) PROVE PageTyped' /\ FileInv'
  BY <1>0, <1>1, <1>3, InspectDoes DEF Resume
<1>4. ASSUME NEW r \in Runs, Answer(r) PROVE PageTyped' /\ FileInv'
  <2>1. CASE Superseded(r) \/ OtherAnswer(r)
    BY <1>0, <1>1, <2>1 DEF Superseded, OtherAnswer
  <2>2. CASE AllowAnswer(r)
    BY <1>0, <2>2, PageReplayed DEF AllowAnswer
  <2>3. CASE DisconnectedAnswer(r)
    <3>1. CASE \E v \in Verdicts \ {"allow"} : run' = Answered(r, v) /\ UNCHANGED <<page, pasted, uploads>>
      BY <1>0, <1>1, <3>1
    <3>2. CASE ReplayDisconnected(r) /\ UNCHANGED <<upload, uploader, pending>>
      <4>1. ASSUME NEW q \in Runs, HandleAttempt(Answered(r, "allow"), q, q) PROVE pasted' \in [Generations -> BOOLEAN]
        BY <1>0, <4>1, AnsweredMoves, AttemptDoes
      <4>2. /\ UNCHANGED page /\ pasted' \in [Generations -> BOOLEAN]
            /\ (UNCHANGED <<registered, unsupported, underRequest>> \/ ClearRegistered)
        BY <1>0, <3>2, <4>1 DEF ReplayDisconnected
      <4> QED
        BY <1>0, <3>2, <4>2, PageKept DEF page
    <3> QED
      BY <2>3, <3>1, <3>2 DEF DisconnectedAnswer
  <2> QED
    BY <1>4, <2>1, <2>2, <2>3 DEF Answer
<1>5. CASE Type
  <2>1. /\ edits < MaxEdits /\ edits' = edits + 1 /\ text' \in Contents
        /\ UNCHANGED <<attached, chips, sent, uploads>>
    BY <1>5 DEF Type, Contents
  <2>2. PICK remembered \in {TRUE, FALSE} : pasted' = [pasted EXCEPT ![live] = pasted[live] /\ remembered]
    BY <1>5 DEF Type
  <2>3. pasted' \in [Generations -> BOOLEAN]
    <3>1. (pasted[live] /\ remembered) \in BOOLEAN
      OBVIOUS
    <3> QED
      BY <1>0, <2>2, <3>1
  <2>4. PageTyped'
    BY <1>0, <2>1, <2>3 DEF PageTyped, uploads
  <2>5. FileInv'
    BY <2>1 DEF FileInv, uploads
  <2> QED
    BY <2>4, <2>5
<1>6. CASE PasteLong
  <2>1. /\ edits < MaxEdits /\ edits' = edits + 1 /\ attached' = attached \union {Paste}
        /\ pasted' = [pasted EXCEPT ![live] = TRUE]
        /\ UNCHANGED <<text, chips, sent, uploads>>
    BY <1>6 DEF PasteLong
  <2>2. PageTyped'
    BY <1>0, <2>1 DEF PageTyped, uploads, Items
  <2>3. FileInv'
    BY <2>1 DEF FileInv, uploads
  <2> QED
    BY <2>2, <2>3
<1>7. CASE Cancel
  BY <1>0, <1>1, <1>7 DEF Cancel
<1>8. CASE Continue \/ SendMasked
  <2>1. overlay.run \in Runs /\ UNCHANGED <<chips, edits, pasted, upload, uploader, pending>>
    BY <1>8, ShownIsActionable DEF Continue, SendMasked
  <2>2. CASE Replay(overlay.run)
    BY <1>0, <2>1, <2>2, PageReplayed
  <2>3. CASE UNCHANGED <<text, attached, sent, registered, unsupported, underRequest>>
    BY <1>0, <2>1, <2>3, PageKept
  <2> QED
    BY <1>8, <2>2, <2>3 DEF Continue, SendMasked
<1>9. ASSUME NEW f \in Files, AttachFile(f) \/ RemoveFile(f) PROVE PageTyped' /\ FileInv'
  <2>1. CASE AttachFile(f)
    BY <1>0, <2>1, PageAttached
  <2>2. CASE RemoveFile(f)
    BY <1>0, <2>2, PageKept DEF RemoveFile, control, uploads
  <2> QED
    BY <1>9, <2>1, <2>2
<1>10. ASSUME NEW r \in Runs, Send(r) \/ SendWithoutComposer(r) \/ RetryMasked(r) \/ Retry(r)
       PROVE  PageTyped' /\ FileInv'
  <2>1. UNCHANGED <<page, uploads>>
    BY <1>10 DEF Send, SendWithoutComposer, RetryMasked, Retry
  <2>2. pasted' \in [Generations -> BOOLEAN]
    <3>1. CASE Send(r)
      BY <1>0, <3>1, AttemptDoes DEF Send
    <3>2. CASE SendWithoutComposer(r)
      BY <1>0, <3>2 DEF SendWithoutComposer
    <3>3. CASE RetryMasked(r)
      BY <1>0, <3>3, ShownIsActionable, ReinspectDoes DEF RetryMasked
    <3>4. CASE Retry(r)
      BY <1>0, <3>4, ShownIsActionable, AttemptDoes DEF Retry
    <3> QED
      BY <1>10, <3>1, <3>2, <3>3, <3>4
  <2> QED
    BY <1>1, <2>1, <2>2
<1>11. ASSUME NEW r \in Runs, ApplyMask(r) PROVE PageTyped' /\ FileInv'
  <2>1. /\ UNCHANGED <<attached, chips, edits, sent, uploads>> /\ Masked \in Contents
        /\ text' = Masked \/ text' = text
    BY <1>11 DEF ApplyMask, Contents
  <2>2. pasted' \in [Generations -> BOOLEAN]
    BY <1>0, <1>11, <2>1, ShownIsActionable, ReinspectDoes DEF ApplyMask
  <2> QED
    BY <1>0, <2>1, <2>2, PageKept DEF uploads
<1>12. ASSUME NEW f \in Files, UploadEnds(f) PROVE PageTyped' /\ FileInv'
  BY <1>0, <1>12, PageUploaded
<1>13. CASE Reinstall \/ \E r \in Runs : AnalyzingOverlay(r)
  BY <1>0, <1>1, <1>13 DEF Reinstall, AnalyzingOverlay
<1> QED
  BY <1>2, <1>3, <1>4, <1>5, <1>6, <1>7, <1>8, <1>9, <1>10, <1>11, <1>12, <1>13 DEF Next, Continuation, User

-------------------------------------------------------------------------------
(* The theorems. *)

Ind == TypeOK /\ Control /\ FileInv

LEMMA InitInd == Init => Ind
<1> SUFFICES ASSUME Init PROVE Ind
  OBVIOUS
<1>1. TypeOK
  <2>1. run \in RunTables
    <3>1. ASSUME NEW r \in Runs, NEW no \in BOOLEAN, NEW t \in Contents
          PROVE  [stage |-> "new", home |-> 1, gesture |-> r, masked |-> no, timer |-> no,
                  text |-> t, items |-> {}, paste |-> no, verdict |-> "none"] \in RunRecords
      BY DEF RunRecords, Stages, Generations
    <3>2. Empty \in Contents
      BY DEF Contents
    <3> QED
      BY <3>1, <3>2 DEF Init, RunTables
  <2>2. overlay \in Overlays
    BY DEF Init, Overlays, Kinds
  <2>3. ControlTyped
    BY <2>1, <2>2 DEF Init, ControlTyped, Owned, Generations
  <2>4. PageTyped
    BY DEF Init, PageTyped, Generations, Contents
  <2> QED
    BY <2>3, <2>4, TypeParts
<1>2. /\ run \in RunTables /\ \A r \in Runs : run[r].stage = "new" /\ run[r].gesture = r /\ run[r].home = 1
      /\ overlay.run = NoRun /\ ~Actionable(overlay) /\ sent = {} /\ analyzing = FALSE /\ live = 1
      /\ owner[1] = NoRun /\ owner[2] = NoRun
      /\ upload = [f \in Files |-> "new"] /\ pending = 0 /\ attached = {}
  BY <1>1, Tables DEF Init, Generations, Actionable
<1>3. GestureInv(run, overlay, analyzing, sent)
  BY <1>2 DEF GestureInv, Gestures, OneOpen, Open, Buttons, Sends, SentOnce
<1>4. OwnerInv(run, owner, analyzing, live)
  BY <1>2 DEF OwnerInv, Generations
<1>5. UploadInv(run, upload, pending)
  <2>1. Uploading(upload) = {}
    BY <1>2 DEF Uploading
  <2> QED
    BY <1>2, <2>1, FS_EmptySet DEF UploadInv
<1>6. FileInv
  BY <1>2 DEF FileInv
<1> QED
  BY <1>1, <1>3, <1>4, <1>5, <1>6, TypeParts DEF Ind, Control

(* Along every behaviour of the content script the four parts of the        *)
(* invariant hold together: the runs of a gesture, the run that             *)
(* currentAttemptId stands for, pendingUploads and the files that were      *)
(* sent.                                                                    *)
THEOREM Invariant == Spec => []Ind
<1>1. Ind /\ [Next]_vars => Ind'
  <2>1. Ind /\ [Next]_vars => TypeOK' /\ Control' /\ FileInv'
    <3> SUFFICES ASSUME Ind, [Next]_vars PROVE TypeOK' /\ Control' /\ FileInv'
      OBVIOUS
    <3>1. Control'
      BY ControlStep DEF Ind
    <3>2. PageTyped' /\ FileInv'
      BY PageStep DEF Ind
    <3>3. TypeOK' <=> ControlTyped' /\ PageTyped'
      BY TypeParts, PTL
    <3> QED
      BY <3>1, <3>2, <3>3 DEF Control
  <2> QED
    BY <2>1 DEF Ind
<1> QED
  BY <1>1, InitInd, PTL DEF Spec

(* Every variable of the content script keeps its type. *)
THEOREM TypeCorrect == Spec => []TypeOK
<1>1. Ind => TypeOK
  BY DEF Ind
<1> QED
  BY <1>1, Invariant, PTL

(* Whatever buttons were pressed meanwhile, and whichever controller the    *)
(* answer came to, a prompt leaves the page only on a decision that allows  *)
(* its original.                                                            *)
THEOREM SendsAreAuthorised == Spec => []AuthorisedSend
<1>1. Ind => AuthorisedSend
  BY DEF Ind, Control, GestureInv, Sends, AuthorisedSend
<1> QED
  BY <1>1, Invariant, PTL

(* However often it is retried, masked, inspected again and answered late,  *)
(* a click sends one prompt at most.                                        *)
THEOREM OneSend == Spec => []OneSendPerGesture
<1>1. Ind => OneSendPerGesture
  BY DEF Ind, Control, GestureInv, SentOnce, OneSendPerGesture
<1> QED
  BY <1>1, Invariant, PTL

(* The reference of a file that was sent is not left for the next prompt,   *)
(* also when its upload ends after the send.                                *)
THEOREM NoReferenceLeft == Spec => []NoReferenceToSentFile
<1>1. Ind => NoReferenceToSentFile
  BY DEF Ind, TypeOK, FileInv, NoReferenceToSentFile
<1> QED
  BY <1>1, Invariant, PTL

(* The live controller says "already inspecting" exactly while its current  *)
(* run has an answer to come: a superseded run neither frees nor locks it.  *)
AnalyzingExact == analyzing <=> \E r \in Runs : owner[live] = r /\ run[r].stage = "analyzing"

THEOREM AnalyzingIsExact == Spec => []AnalyzingExact
<1>1. Ind => AnalyzingExact
  <2> SUFFICES ASSUME Ind PROVE AnalyzingExact
    OBVIOUS
  <2>1. owner[live] \in Runs \union {NoRun} /\ NoRun \notin Runs
    BY DEF Ind, Control, ControlTyped, Owned, Runs
  <2> QED
    BY <2>1 DEF Ind, Control, OwnerInv, AnalyzingExact
<1> QED
  BY <1>1, Invariant, PTL

(* No run waits for uploads when there are none: the wake-up is not lost,   *)
(* and pendingUploads counts what is really under way.                      *)
WaitingHasUploads ==
  /\ pending = Cardinality(Uploading(upload))
  /\ (\E r \in Runs : run[r].stage = "waiting") => Uploading(upload) # {}

THEOREM NoLostWakeup == Spec => []WaitingHasUploads
<1>1. Ind => WaitingHasUploads
  BY FS_EmptySet DEF Ind, Control, UploadInv, WaitingHasUploads
<1> QED
  BY <1>1, Invariant, PTL

-------------------------------------------------------------------------------
(* The history of what was sent, and the reports on it. *)

HIDE PreflightAssumption

(* A set of numbers with a member has a least one: induction over numbers    *)
(* here is to take the least exception.                                      *)
LEMMA LeastNumber ==
  ASSUME NEW T, T \subseteq Nat, T # {}
  PROVE  \E least \in T : \A n \in T : least <= n
<1>1. PICK x \in T : \A y \in T : <<y, x>> \notin OpToRel(<, Nat)
  BY WFMin, NatLessThanWellFounded
<1>2. \A y \in T : ~(y < x)
  BY <1>1 DEF OpToRel
<1> QED
  BY <1>2

(* Sequences put one after another make a sequence of what they consist of.  *)
LEMMA FlattenedSeqs ==
  ASSUME NEW S, NEW seqs \in Seq(Seq(S))
  PROVE  FlattenSeq(seqs) \in Seq(S)
<1> DEFINE Joins(f, n) == f = [i \in 1 .. n |-> IF i = 1 THEN seqs[i] ELSE f[i - 1] \o seqs[i]]
<1>1. \A n \in Nat : \E f : Joins(f, n)
  <2> DEFINE T == {n \in Nat : ~ \E f : Joins(f, n)}
  <2> SUFFICES ASSUME T # {} PROVE FALSE
    OBVIOUS
  <2>1. PICK n \in T : \A m \in T : n <= m
    BY LeastNumber
  <2>2. \E f : Joins(f, 0)
    <3>1. Joins(<< >>, 0)
      OBVIOUS
    <3> QED
      BY <3>1
  <2>3. n \in Nat \ {0} /\ n - 1 \in Nat \ T
    <3> HIDE DEF Joins
    <3> QED
      BY <2>1, <2>2
  <2>4. PICK f : Joins(f, n - 1)
    BY <2>3
  <2> DEFINE g == [i \in 1 .. n |-> IF i < n THEN f[i] ELSE IF n = 1 THEN seqs[1] ELSE f[n - 1] \o seqs[n]]
  <2>5. ASSUME NEW i \in 1 .. n PROVE g[i] = IF i = 1 THEN seqs[i] ELSE g[i - 1] \o seqs[i]
    <3>1. CASE i < n
      <4>1. i \in 1 .. n - 1 /\ g[i] = f[i] /\ (i # 1 => g[i - 1] = f[i - 1])
        BY <2>3, <3>1
      <4>2. f[i] = IF i = 1 THEN seqs[i] ELSE f[i - 1] \o seqs[i]
        BY <2>4, <4>1
      <4> QED
        BY <4>1, <4>2
    <3>2. CASE i = n
      BY <2>3, <3>2
    <3> QED
      BY <2>3, <3>1, <3>2
  <2>6. Joins(g, n)
    BY <2>5
  <2> QED
    BY <2>1, <2>6
<1> HIDE DEF Joins
<1>2. CASE Len(seqs) = 0
  BY <1>2 DEF FlattenSeq
<1>3. CASE Len(seqs) # 0
  <2> DEFINE flatten == CHOOSE f : Joins(f, Len(seqs))
  <2>1. Joins(flatten, Len(seqs))
    <3>1. \E f : Joins(f, Len(seqs))
      BY <1>1
    <3> QED
      BY <3>1
  <2> USE DEF Joins
  <2> HIDE DEF flatten
  <2>2. \A i \in 1 .. Len(seqs) : flatten[i] \in Seq(S)
    <3> DEFINE T == {i \in 1 .. Len(seqs) : flatten[i] \notin Seq(S)}
    <3> SUFFICES ASSUME T # {} PROVE FALSE
      OBVIOUS
    <3>1. PICK i \in T : \A j \in T : i <= j
      <4>1. T \subseteq Nat
        OBVIOUS
      <4> QED
        BY <4>1, LeastNumber
    <3>2. flatten[i] = IF i = 1 THEN seqs[i] ELSE flatten[i - 1] \o seqs[i]
      BY <2>1, <3>1
    <3>3. i # 1 => flatten[i - 1] \in Seq(S)
      BY <3>1
    <3>4. seqs[i] \in Seq(S) /\ flatten[i] \notin Seq(S)
      BY <3>1
    <3>5. ASSUME NEW front \in Seq(S), NEW back \in Seq(S) PROVE front \o back \in Seq(S)
      OBVIOUS
    <3> HIDE DEF T
    <3> QED
      BY <3>2, <3>3, <3>4, <3>5
  <2>3. FlattenSeq(seqs) = flatten[Len(seqs)]
    BY <1>3 DEF FlattenSeq, flatten
  <2> QED
    BY <1>3, <2>2, <2>3
<1> QED
  BY <1>2, <1>3

(* Counts of one each sum up to the number of rows.                          *)
LEMMA OnesSumUp ==
  ASSUME NEW rows, IsFiniteSet(rows), \A d \in rows : d.count = 1
  PROVE  SumCounts(rows) = Cardinality(rows)
<1> DEFINE Sums(f) == f = [s \in SUBSET rows |-> IF s = {} THEN 0 ELSE LET x == CHOOSE y \in s : TRUE IN x.count + f[s \ {x}]]
           sum == CHOOSE f : Sums(f)
<1>1. ASSUME NEW s \in SUBSET rows
      PROVE  Cardinality(s) = IF s = {} THEN 0 ELSE LET x == CHOOSE y \in s : TRUE IN x.count + Cardinality(s \ {x})
  <2>1. IsFiniteSet(s) /\ Cardinality(s) \in Nat
    BY FS_Subset, FS_CardinalityType
  <2>2. CASE s = {}
    BY <2>2, FS_EmptySet
  <2>3. CASE s # {}
    <3> DEFINE x == CHOOSE y \in s : TRUE
    <3>1. x \in s /\ x.count = 1
      BY <2>3
    <3>2. Cardinality(s \ {x}) = Cardinality(s) - 1
      BY <2>1, <3>1, FS_RemoveElement
    <3> QED
      BY <2>1, <2>3, <3>1, <3>2
  <2> QED
    BY <2>2, <2>3
<1>2. Sums([s \in SUBSET rows |-> Cardinality(s)])
  BY <1>1
<1>3. Sums(sum)
  BY <1>2
<1> HIDE DEF sum
<1>4. \A s \in SUBSET rows : sum[s] = Cardinality(s)
  <2> SUFFICES ASSUME NEW s \in SUBSET rows, sum[s] # Cardinality(s) PROVE FALSE
    OBVIOUS
  <2> DEFINE T == {Cardinality(t) : t \in {u \in SUBSET rows : sum[u] # Cardinality(u)}}
  <2>1. T \subseteq Nat /\ T # {}
    BY FS_Subset, FS_CardinalityType
  <2>2. PICK n \in T : \A m \in T : n <= m
    BY <2>1, LeastNumber
  <2>3. PICK t \in SUBSET rows : sum[t] # Cardinality(t) /\ n = Cardinality(t)
    BY <2>2
  <2>4. IsFiniteSet(t) /\ Cardinality(t) \in Nat
    BY FS_Subset, FS_CardinalityType
  <2>5. t # {}
    BY <1>3, <2>3, FS_EmptySet
  <2> DEFINE x == CHOOSE y \in t : TRUE
  <2>6. x \in t
    BY <2>5
  <2>7. Cardinality(t \ {x}) = n - 1
    BY <2>3, <2>4, <2>6, FS_RemoveElement
  <2>8. t \ {x} \in SUBSET rows /\ sum[t \ {x}] = Cardinality(t \ {x})
    <3>1. t \ {x} \in SUBSET rows /\ Cardinality(t \ {x}) \in Nat
      BY FS_Subset, FS_CardinalityType
    <3> HIDE DEF x
    <3>2. Cardinality(t \ {x}) \notin T
      BY <2>2, <2>3, <2>4, <2>7, <3>1
    <3> QED
      BY <3>1, <3>2
  <2>9. sum[t] = x.count + sum[t \ {x}]
    BY <1>3, <2>5
  <2>10. Cardinality(t) = x.count + Cardinality(t \ {x})
    BY <1>1, <2>5
  <2> QED
    BY <2>3, <2>8, <2>9, <2>10
<1>5. SumCounts(rows) = sum[rows]
  BY DEF SumCounts, MapThenSumSet, MapThenFoldSet, sum
<1> QED
  BY <1>4, <1>5
LEMMA ShortSeqs == \A S : <<>> \in Seq(S) /\ \A x \in S : <<x>> \in Seq(S)
OBVIOUS

LEMMA MapsAreSeqs ==
  ASSUME NEW S, NEW n \in Nat, NEW f, f \in [1 .. n -> S]
  PROVE  f \in Seq(S)
OBVIOUS

(* What the page can send as an input.                                       *)
PageItems ==
  [kind : {"text"}, source : {"composer", "converted_paste"}, included : {TRUE}, content : TextStates \ {"oversized"},
   reason : {None}, limit : {None}]
  \cup [kind : {"text"}, source : {"composer", "converted_paste"}, included : {FALSE}, content : {None},
        reason : {"oversized"}, limit : {"MAX_COMPOSER_TEXT_BYTES", "MAX_CONVERTED_PASTE_TEXT_BYTES"}]
  \cup [kind : {"file_reference"}, source : {"attached_file"}, included : {FALSE}, content : Uploads,
        reason : {None}, limit : {None}]
  \cup [kind : {"attachment_metadata"}, source : {"attachment_chip"}, included : {FALSE}, content : {None},
        reason : {None}, limit : {None}]
  \cup [kind : {"unsupported_attachment"}, source : {"attachment_chip"}, included : {FALSE}, content : {None},
        reason : {"oversized", "unsupported"}, limit : {None}]

LEMMA PageSendsItems ==
  ASSUME NEW attempt \in Attempts
  PROVE  PromptInputs(attempt) \in Seq(PageItems)
<1> DEFINE files == attempt.files
           pieces == [i \in DOMAIN files |-> AttachmentInputs(files[i])]
           fromFiles == FlattenSeq(pieces)
           composer == IF ~Blank(attempt.text) \/ fromFiles = <<>> THEN <<TextInput("composer", attempt.text)>> ELSE <<>>
           paste == IF attempt.paste = "" THEN <<>> ELSE <<TextInput("converted_paste", attempt.paste)>>
<1>1. ASSUME NEW file \in Uploads \cup {"too_large", "unsupported_type", "over_count", "chip"}
      PROVE  AttachmentInputs(file) \in Seq(PageItems)
  <2>1. CASE file \in Uploads
    <3>1. FileReferenceInput(file) \in PageItems
      BY <2>1 DEF FileReferenceInput, PageItems
    <3>2. AttachmentInputs(file) = <<FileReferenceInput(file)>>
      BY <2>1 DEF AttachmentInputs, Uploads
    <3> QED
      BY <3>1, <3>2
  <2>2. CASE file = "chip"
    <3>1. AttachmentMetadataInput \in PageItems
      BY DEF AttachmentMetadataInput, PageItems
    <3>2. AttachmentInputs(file) = <<AttachmentMetadataInput>>
      BY <2>2 DEF AttachmentInputs, Uploads
    <3> QED
      BY <3>1, <3>2
  <2>3. CASE file \in {"too_large", "unsupported_type", "over_count"}
    <3>1. UnsupportedAttachmentInput("oversized") \in PageItems /\ UnsupportedAttachmentInput("unsupported") \in PageItems
      BY DEF UnsupportedAttachmentInput, PageItems
    <3>2. AttachmentInputs(file) = MetadataOnlyInputs(file)
      BY <2>3 DEF AttachmentInputs, Uploads
    <3>3. MetadataOnlyInputs(file) \in
            {<<UnsupportedAttachmentInput("oversized")>>, <<UnsupportedAttachmentInput("unsupported")>>, <<>>}
      BY <2>3 DEF MetadataOnlyInputs
    <3> QED
      BY <3>1, <3>2, <3>3, ShortSeqs
  <2> QED
    BY <2>1, <2>2, <2>3
<1>2. ASSUME NEW source \in {"composer", "converted_paste"}, NEW state \in TextStates
      PROVE  TextInput(source, state) \in PageItems
  BY DEF TextInput, UnavailableTextInput, LimitOf, TextStates, PageItems
<1>3. fromFiles \in Seq(PageItems)
  <2>1. files \in Seq(Uploads \cup {"too_large", "unsupported_type", "over_count", "chip"})
    BY DEF Attempts
  <2>2. pieces \in [1 .. Len(files) -> Seq(PageItems)] /\ Len(files) \in Nat
    BY <1>1, <2>1
  <2>3. pieces \in Seq(Seq(PageItems))
    <3> HIDE DEF pieces
    <3> QED
      BY <2>2, MapsAreSeqs
  <2> QED
    BY <2>3, FlattenedSeqs
<1>4. composer \in Seq(PageItems) /\ paste \in Seq(PageItems)
  <2>1. attempt.text \in TextStates /\ (attempt.paste # "" => attempt.paste \in TextStates)
    BY DEF Attempts
  <2>2. TextInput("composer", attempt.text) \in PageItems
    BY <1>2, <2>1
  <2>3. attempt.paste # "" => TextInput("converted_paste", attempt.paste) \in PageItems
    BY <1>2, <2>1
  <2> QED
    BY <2>2, <2>3, ShortSeqs
<1>5. PromptInputs(attempt) = composer \o fromFiles \o paste
  BY DEF PromptInputs
<1> HIDE DEF composer, fromFiles, paste
<1> QED
  BY <1>3, <1>4, <1>5

ScanResults ==
  [scanned : BOOLEAN,
   basis : {"no_detection", "detection", "content_unavailable", "metadata_only", "context_risk"}]

(* An input is not scanned, for the answer, for the page of the event and    *)
(* for the policy at once.                                                   *)
LEMMA OneNotionOfUnavailable ==
  ASSUME NEW item \in PageItems, NEW risk \in BOOLEAN
  PROVE  LET result == ContextDecisionBasis(InputScanResult(item), risk) IN
         /\ result \in ScanResults
         /\ IsContentUnavailable(result, item.reason) = ContentUnavailable(result)
         /\ (EvidenceCode(item) # {}) = ContentUnavailable(result)
<1> DEFINE scan == InputScanResult(item)
           parsed == ParserResult(item)
<1>1. CASE item.kind = "text"
  <2>1. parsed = None /\ parsed # "parsed" /\ parsed # "failed"
    BY <1>1, HistoryAssumption DEF ParserResult, Uploads
  <2>2. CASE item.included
    <3>1. scan.scanned /\ scan.basis \in {"no_detection", "detection"} /\ scan \in ScanResults /\ item.reason = None
      BY <1>1, <2>1, <2>2 DEF InputScanResult, ScanResults, PageItems
    <3>2. EvidenceCode(item) = {}
      BY <1>1, <2>1, <2>2, <3>1, HistoryAssumption DEF EvidenceCode
    <3> QED
      BY <3>1, <3>2 DEF ContextDecisionBasis, ScanResults, IsContentUnavailable, ContentUnavailable
  <2>3. CASE ~item.included
    <3>1. scan = [scanned |-> FALSE, basis |-> "content_unavailable"]
      BY <1>1, <2>1, <2>3 DEF InputScanResult
    <3>2. EvidenceCode(item) # {}
      BY <1>1, <2>1, <2>3 DEF EvidenceCode
    <3> QED
      BY <3>1, <3>2 DEF ContextDecisionBasis, ScanResults, IsContentUnavailable, ContentUnavailable
  <2> QED
    BY <2>2, <2>3
<1>2. CASE item.kind = "file_reference"
  <2>1. item.content \in Uploads /\ ~item.included /\ item.reason = None
    BY <1>2 DEF PageItems
  <2>2. CASE parsed = "parsed"
    <3>1. scan.scanned /\ scan.basis \in {"no_detection", "detection"} /\ scan \in ScanResults
      BY <1>2, <2>1, <2>2 DEF InputScanResult, ScanResults
    <3>2. EvidenceCode(item) = {}
      BY <2>2 DEF EvidenceCode
    <3> QED
      BY <2>1, <3>1, <3>2 DEF ContextDecisionBasis, ScanResults, IsContentUnavailable, ContentUnavailable
  <2>3. CASE parsed # "parsed"
    <3>1. scan = [scanned |-> FALSE, basis |-> "content_unavailable"]
      BY <1>2, <2>1, <2>3 DEF InputScanResult
    <3>2. EvidenceCode(item) # {}
      BY <2>1, <2>3 DEF EvidenceCode
    <3> QED
      BY <3>1, <3>2 DEF ContextDecisionBasis, ScanResults, IsContentUnavailable, ContentUnavailable
  <2> QED
    BY <2>2, <2>3
<1>3. CASE item.kind \in {"attachment_metadata", "unsupported_attachment"}
  <2>1. ~item.included /\ parsed = None /\ parsed # "parsed" /\ parsed # "failed"
    BY <1>3, HistoryAssumption DEF ParserResult, Uploads, PageItems
  <2>2. scan = [scanned |-> FALSE, basis |-> IF item.kind = "attachment_metadata" THEN "metadata_only" ELSE "content_unavailable"]
    BY <1>3, <2>1 DEF InputScanResult
  <2>3. EvidenceCode(item) # {}
    BY <2>1 DEF EvidenceCode
  <2> QED
    BY <2>2, <2>3 DEF ContextDecisionBasis, ScanResults, IsContentUnavailable, ContentUnavailable
<1> QED
  BY <1>1, <1>2, <1>3 DEF PageItems

(* A function takes a finite set to one that is no larger.                   *)
LEMMA ImageIsSmaller ==
  ASSUME NEW S, IsFiniteSet(S), NEW f, f = [x \in S |-> f[x]]
  PROVE  /\ IsFiniteSet({f[x] : x \in S})
         /\ Cardinality({f[x] : x \in S}) <= Cardinality(S)
<1>1. f \in Surjection(S, {f[x] : x \in S})
  BY DEF Surjection
<1> QED
  BY <1>1, FS_Surjection

(* What is written for a request whose case is known. *)
LEMMA SentItems ==
  ASSUME NEW r \in Requests, request[r].case \in Cases
  PROVE  /\ Sent(r) \in Seq(PageItems)
         /\ \A i \in DOMAIN Sent(r) : i \in Nat /\ Sent(r)[i] \in PageItems
         /\ request[r].case.risk \in BOOLEAN /\ request[r].case.action \in Actions
<1>1. request[r].case.attempt \in Attempts /\ request[r].case.risk \in BOOLEAN /\ request[r].case.action \in Actions
  BY HistoryAssumption
<1>2. Sent(r) \in Seq(PageItems)
  BY <1>1, PageSendsItems DEF Sent
<1> QED
  BY <1>1, <1>2

LEMMA AcceptedIsStorable ==
  ASSUME NEW r \in Requests, request[r].case \in Cases, request[r].began \in Nat
  PROVE  Storable(r)
<1>1. EventRow(r) \in EventColumns
  <2>1. RiskLevelForScore(ScoreForFinalAction(request[r].case.score, request[r].case.action))
          \in {"low", "medium", "high", "critical"}
    BY DEF RiskLevelForScore
  <2>2. UserOf[r] \in Users
    BY HistoryAssumption
  <2> QED
    BY <2>1, <2>2, SentItems DEF EventRow, EventColumns
<1>2. ASSUME NEW i \in DOMAIN Sent(r)
      PROVE  /\ i \in Nat /\ Sent(r)[i].included \in BOOLEAN /\ Sent(r)[i].reason \in {None, "oversized", "unsupported"}
             /\ Result(r, i) \in ScanResults
             /\ ToSet(MatchesOf(Sent(r)[i])) \subseteq {"TOKEN", "PHONE"}
  <2>1. i \in Nat /\ Sent(r)[i] \in PageItems /\ request[r].case.risk \in BOOLEAN
    BY SentItems
  <2>2. Result(r, i) \in ScanResults
    BY <2>1, OneNotionOfUnavailable DEF Result
  <2>3. Sent(r)[i].included \in BOOLEAN /\ Sent(r)[i].reason \in {None, "oversized", "unsupported"}
    BY <2>1 DEF PageItems
  <2>4. MatchesOf(Sent(r)[i]) \in {<<"TOKEN">>, <<"TOKEN", "PHONE">>, <<>>}
    BY <2>1 DEF MatchesOf, PageItems
  <2>5. ToSet(<<"TOKEN">>) = {"TOKEN"} /\ ToSet(<<"TOKEN", "PHONE">>) = {"TOKEN", "PHONE"} /\ ToSet(<<>>) = {}
    BY DEF ToSet
  <2> QED
    BY <2>1, <2>2, <2>3, <2>4, <2>5
<1>3. InputRows(r) \subseteq InputColumns
  BY <1>2 DEF InputRows, InputColumns, ScanResults
<1>4. DetectionRows(r) \subseteq DetectionColumns
  BY <1>2 DEF DetectionRows, DetectionColumns
<1> QED
  BY <1>1, <1>3, <1>4 DEF Storable

LEMMA RowsOfRequest ==
  ASSUME NEW r \in Requests, request[r].case \in Cases
  PROVE  /\ IsFiniteSet(InputRows(r)) /\ Cardinality(InputRows(r)) = Len(Sent(r))
         /\ IsFiniteSet(DetectionRows(r))
         /\ \A row \in InputRows(r) \cup DetectionRows(r) : row.event = r
         /\ \A row \in DetectionRows(r) : row.count = 1
<1> DEFINE n == Len(Sent(r))
           Row(i) == [event |-> r, index |-> i, included |-> Sent(r)[i].included, result |-> Result(r, i),
                      reason |-> Sent(r)[i].reason]
           rowOf == [i \in 1 .. n |-> Row(i)]
           Found(i) == {[event |-> r, index |-> i, type |-> t, count |-> 1] : t \in ToSet(MatchesOf(Sent(r)[i]))}
<1>1. n \in Nat /\ DOMAIN Sent(r) = 1 .. n
  BY SentItems
<1>2. InputRows(r) = {Row(i) : i \in 1 .. n}
  BY <1>1 DEF InputRows
<1>3. \A i \in 1 .. n : Row(i).index = i /\ Row(i).event = r
  OBVIOUS
<1>4. rowOf \in Bijection(1 .. n, InputRows(r))
  <2> HIDE DEF Row, n
  <2>1. rowOf \in [1 .. n -> InputRows(r)]
    BY <1>2
  <2>2. \A i, j \in 1 .. n : rowOf[i] = rowOf[j] => i = j
    BY <1>3
  <2>3. \A row \in InputRows(r) : \E i \in 1 .. n : rowOf[i] = row
    BY <1>2
  <2> HIDE DEF rowOf
  <2> QED
    BY <2>1, <2>2, <2>3 DEF Bijection, Injection, Surjection, IsInjective
<1>5. IsFiniteSet(1 .. n) /\ Cardinality(1 .. n) = n
  <2> HIDE DEF n
  <2>1. IsFiniteSet(1 .. n) /\ Cardinality(1 .. n) = IF 1 > n THEN 0 ELSE n - 1 + 1
    BY <1>1, FS_Interval
  <2> QED
    BY <1>1, <2>1
<1>6. IsFiniteSet(InputRows(r)) /\ Cardinality(InputRows(r)) = n
  BY <1>4, <1>5, FS_Bijection DEF ExistsBijection
<1>7. DetectionRows(r) = UNION {Found(i) : i \in 1 .. n}
  BY <1>1 DEF DetectionRows
<1>8. ASSUME NEW i \in 1 .. n PROVE IsFiniteSet(Found(i))
  <2>1. MatchesOf(Sent(r)[i]) \in {<<"TOKEN">>, <<"TOKEN", "PHONE">>, <<>>}
    BY <1>1, SentItems DEF MatchesOf, PageItems
  <2>2. ToSet(<<"TOKEN">>) = {"TOKEN"} /\ ToSet(<<"TOKEN", "PHONE">>) = {"TOKEN"} \cup {"PHONE"} /\ ToSet(<<>>) = {}
    BY DEF ToSet
  <2>3. IsFiniteSet({}) /\ IsFiniteSet({"TOKEN"}) /\ IsFiniteSet({"TOKEN"} \cup {"PHONE"})
    BY FS_EmptySet, FS_Singleton, FS_AddElement
  <2>4. IsFiniteSet(ToSet(MatchesOf(Sent(r)[i])))
    BY <2>1, <2>2, <2>3
  <2> DEFINE rowFor == [t \in ToSet(MatchesOf(Sent(r)[i])) |-> [event |-> r, index |-> i, type |-> t, count |-> 1]]
  <2>5. Found(i) = {rowFor[t] : t \in ToSet(MatchesOf(Sent(r)[i]))}
    OBVIOUS
  <2>6. rowFor = [t \in ToSet(MatchesOf(Sent(r)[i])) |-> rowFor[t]]
    OBVIOUS
  <2> HIDE DEF rowFor
  <2>7. IsFiniteSet({rowFor[t] : t \in ToSet(MatchesOf(Sent(r)[i]))})
    BY <2>4, <2>6, ImageIsSmaller
  <2> QED
    BY <2>5, <2>7
<1>9. IsFiniteSet(DetectionRows(r))
  <2> HIDE DEF Found
  <2>1. IsFiniteSet({Found(i) : i \in 1 .. n})
    <3> DEFINE found == [i \in 1 .. n |-> Found(i)]
    <3>1. {Found(i) : i \in 1 .. n} = {found[i] : i \in 1 .. n}
      OBVIOUS
    <3>2. found = [i \in 1 .. n |-> found[i]]
      OBVIOUS
    <3> HIDE DEF found, n
    <3>3. IsFiniteSet({found[i] : i \in 1 .. n})
      BY <1>5, <3>2, ImageIsSmaller
    <3> QED
      BY <3>1, <3>3
  <2> QED
    BY <1>7, <1>8, <2>1, FS_UNION
<1>10. \A row \in DetectionRows(r) : row.event = r /\ row.count = 1
  BY <1>7
<1>11. \A row \in InputRows(r) : row.event = r
  BY <1>2
<1> QED
  BY <1>6, <1>9, <1>10, <1>11

-------------------------------------------------------------------------------
(* The invariant.  Tables hold the rows of the requests that were answered,  *)
(* which do not change any more (Stored).  A report knows of each event it   *)
(* has read the detections and inputs as they still are (Reading).           *)
Settled == {r \in Requests : request[r].pc = "answered"}

HistoryTypes ==
  /\ today \in 1 .. LastDay
  /\ users \in [Users -> [status : {"ACTIVE", "DISABLED"}, last : 0 .. LastDay]]
  /\ request \in [Requests -> [pc : {"idle", "accepted", "refused", "answered", "failed"},
                               case : Cases \cup {None}, began : 0 .. LastDay]]
  /\ \A r \in Requests :
       request[r].began <= today /\ (request[r].pc # "idle" => request[r].case \in Cases /\ request[r].began >= 1)
  /\ answer = [r \in Requests |-> answer[r]]

Stored ==
  /\ events = {EventRow(r) : r \in Settled}
  /\ inputs = UNION {InputRows(r) : r \in Settled}
  /\ detections = UNION {DetectionRows(r) : r \in Settled}
  /\ IsFiniteSet(events) /\ IsFiniteSet(inputs) /\ IsFiniteSet(detections)
  /\ \A r \in Settled : answer[r] = AnswerTo(r)

(* A user with a last event has one that happened. *)
Dated(rows, happened) == \A u \in Users : rows[u].last # 0 => \E e \in happened : e.user = u

ReportRecord ==
  [asked : Reports, asOf : 1 .. LastDay, next : {"users", "events", "detections", "inputs", "done"},
   known : SUBSET events, users : {None} \cup [Users -> [status : {"ACTIVE", "DISABLED"}, last : 0 .. LastDay]],
   events : SUBSET events, detections : SUBSET detections, inputs : SUBSET inputs]

Reading ==
  /\ \A e \in report.known : e.day <= report.asOf
  /\ report.next \in {"users", "events"} => report.detections = {} /\ report.inputs = {}
  /\ report.next = "users" => report.asked.kind = "user_stats"
  /\ report.next \in {"detections", "inputs", "done"} /\ report.asked.kind \in {"overview", "event_stats"} =>
       \A e \in report.known : report.asOf - e.day < report.asked.days => e \in report.events
  /\ report.next \in {"inputs", "done"} => report.detections = OfEvents(detections, report.events)
  /\ report.next = "done" /\ report.asked.kind \in {"overview", "events"} =>
       report.inputs = OfEvents(inputs, report.events)

UsersRead ==
  report.asked.kind = "user_stats" =>
    /\ report.next # "users" =>
         /\ report.users \in [Users -> [status : {"ACTIVE", "DISABLED"}, last : 0 .. LastDay]]
         /\ Dated(report.users, events)
    /\ report.next \in {"detections", "inputs", "done"} =>
         \A u \in IncludedUsers : report.users[u].last # 0 => \E e \in report.events : e.user = u

ReportFits == report # None => report \in ReportRecord /\ Reading /\ UsersRead

HistoryInv == HistoryTypes /\ Stored /\ Dated(users, events) /\ ReportFits

LEMMA RowsKept ==
  ASSUME NEW r \in Requests, request'[r].case = request[r].case, request'[r].began = request[r].began
  PROVE  /\ EventRow(r)' = EventRow(r) /\ InputRows(r)' = InputRows(r) /\ DetectionRows(r)' = DetectionRows(r)
         /\ AnswerTo(r)' = AnswerTo(r)
<1>1. Sent(r)' = Sent(r)
  BY DEF Sent
<1>2. \A i : Result(r, i)' = Result(r, i)
  BY <1>1 DEF Result
<1>3. EventRow(r)' = EventRow(r)
  BY DEF EventRow
<1>4. InputRows(r)' = InputRows(r) /\ DetectionRows(r)' = DetectionRows(r)
  BY <1>1, <1>2 DEF InputRows, DetectionRows
<1>5. AnswerTo(r)' = AnswerTo(r)
  <2>1. [i \in DOMAIN Sent(r) |-> Result(r, i)]' = [i \in DOMAIN Sent(r) |-> Result(r, i)]
    BY <1>1, <1>2
  <2>2. {i \in DOMAIN Sent(r) : ContentUnavailable(Result(r, i))}' =
          {i \in DOMAIN Sent(r) : ContentUnavailable(Result(r, i))}
    BY <1>1, <1>2
  <2>3. Cardinality(DetectionRows(r))' = Cardinality(DetectionRows(r))
    BY <1>4
  <2> QED
    BY <1>3, <2>1, <2>2, <2>3 DEF AnswerTo
<1> QED
  BY <1>3, <1>4, <1>5

LEMMA EventsOfRequests ==
  ASSUME HistoryTypes, Stored
  PROVE  /\ \A e \in events : e.id \in Settled /\ e = EventRow(e.id) /\ e.day = request[e.id].began
         /\ \A X \in SUBSET events : Ids(X) \subseteq Settled
<1>1. \A r \in Requests : EventRow(r).id = r /\ EventRow(r).day = request[r].began
  BY DEF EventRow
<1> QED
  BY <1>1 DEF Stored, Ids, Settled

(* No request is answered in a step that leaves the tables alone.            *)
LEMMA NothingStored ==
  ASSUME HistoryTypes, Stored, UNCHANGED <<answer, tables>>, Settled' = Settled,
         \A r \in Settled : request'[r].case = request[r].case /\ request'[r].began = request[r].began
  PROVE  Stored'
<1>1. \A r \in Settled : /\ EventRow(r)' = EventRow(r) /\ InputRows(r)' = InputRows(r)
                          /\ DetectionRows(r)' = DetectionRows(r) /\ AnswerTo(r)' = AnswerTo(r)
  BY RowsKept DEF Settled
<1>2. events' = events /\ inputs' = inputs /\ detections' = detections /\ answer' = answer
  BY DEF tables
<1> QED
  BY <1>1, <1>2 DEF Stored

(* A report is not disturbed by rows that come: they are of no event it has. *)
LEMMA ReportGoesOn ==
  ASSUME HistoryInv, UNCHANGED report,
         events \subseteq events', inputs \subseteq inputs', detections \subseteq detections',
         \A X \in SUBSET events : /\ OfEvents(detections', X) = OfEvents(detections, X)
                                  /\ OfEvents(inputs', X) = OfEvents(inputs, X)
  PROVE  ReportFits'
<1> SUFFICES ASSUME report # None PROVE (report \in ReportRecord /\ Reading /\ UsersRead)'
  BY DEF ReportFits
<1>1. report \in ReportRecord /\ Reading /\ UsersRead
  BY DEF HistoryInv, ReportFits
<1>2. report'\in ReportRecord'
  BY <1>1 DEF ReportRecord
<1>3. report.events \in SUBSET events
  BY <1>1 DEF ReportRecord
<1>4. OfEvents(detections', report.events) = OfEvents(detections, report.events)
      /\ OfEvents(inputs', report.events) = OfEvents(inputs, report.events)
  BY <1>3
<1>5. OfEvents(detections, report.events)' = OfEvents(detections', report.events)
      /\ OfEvents(inputs, report.events)' = OfEvents(inputs', report.events)
  BY DEF OfEvents, Ids
<1>6. Reading'
  BY <1>1, <1>4, <1>5 DEF Reading
<1>7. UsersRead'
  <2>1. IncludedUsers' = IncludedUsers
    BY DEF IncludedUsers
  <2> QED
    BY <1>1, <2>1 DEF UsersRead, Dated
<1> QED
  BY <1>2, <1>6, <1>7

LEMMA QuietForReports ==
  ASSUME HistoryInv, UNCHANGED <<report, tables>>
  PROVE  ReportFits'
<1>1. events' = events /\ inputs' = inputs /\ detections' = detections
  BY DEF tables
<1>2. \A X \in SUBSET events : /\ OfEvents(detections', X) = OfEvents(detections, X)
                               /\ OfEvents(inputs', X) = OfEvents(inputs, X)
  BY <1>1
<1> QED
  BY <1>1, <1>2, ReportGoesOn

LEMMA DayStep == ASSUME HistoryInv, DayPasses PROVE HistoryInv'
<1>1. HistoryTypes'
  BY HistoryAssumption DEF HistoryInv, HistoryTypes, DayPasses
<1>2. Settled' = Settled
  BY DEF Settled, DayPasses
<1>3. Stored'
  BY <1>2, NothingStored DEF HistoryInv, DayPasses
<1>4. Dated(users, events)' /\ ReportFits'
  BY QuietForReports DEF HistoryInv, Dated, DayPasses, tables
<1> QED
  BY <1>1, <1>3, <1>4 DEF HistoryInv

LEMMA StatusStep == ASSUME HistoryInv, NEW u \in Users, SetStatus(u) PROVE HistoryInv'
<1>1. HistoryTypes'
  <2>1. users' \in [Users -> [status : {"ACTIVE", "DISABLED"}, last : 0 .. LastDay]]
    BY DEF HistoryInv, HistoryTypes, SetStatus
  <2> QED
    BY <2>1 DEF HistoryInv, HistoryTypes, SetStatus
<1>2. Settled' = Settled
  BY DEF Settled, SetStatus
<1>3. Stored'
  BY <1>2, NothingStored DEF HistoryInv, SetStatus
<1>4. Dated(users, events)' /\ ReportFits'
  BY QuietForReports DEF HistoryInv, Dated, SetStatus, tables
<1> QED
  BY <1>1, <1>3, <1>4 DEF HistoryInv

LEMMA SubmitStep ==
  ASSUME HistoryInv, NEW r \in Requests, NEW case \in Cases, Submit(r, case)
  PROVE  HistoryInv'
<1> DEFINE pc == IF \A i \in DOMAIN PromptInputs(case.attempt) : Accepted(PromptInputs(case.attempt)[i])
                 THEN "accepted" ELSE "refused"
<1>1. /\ request[r].pc = "idle" /\ UNCHANGED <<today, users, answer, tables, report>>
      /\ request' = [request EXCEPT ![r] = [pc |-> pc, case |-> case, began |-> today]]
  BY DEF Submit
<1>2. pc \in {"accepted", "refused"}
  OBVIOUS
<1> HIDE DEF pc
<1>3. HistoryTypes'
  BY <1>1, <1>2 DEF HistoryInv, HistoryTypes
<1>4. Settled' = Settled /\ r \notin Settled /\ \A q \in Settled : request'[q] = request[q]
  BY <1>1, <1>2 DEF Settled, HistoryInv, HistoryTypes
<1>5. Stored'
  BY <1>1, <1>4, NothingStored DEF HistoryInv
<1>6. Dated(users, events)' /\ ReportFits'
  BY <1>1, QuietForReports DEF HistoryInv, Dated, tables
<1> QED
  BY <1>3, <1>5, <1>6 DEF HistoryInv

LEMMA FailStep == ASSUME HistoryInv, NEW r \in Requests, Fail(r) PROVE HistoryInv'
<1>1. HistoryTypes'
  BY DEF HistoryInv, HistoryTypes, Fail
<1>2. Settled' = Settled /\ \A q \in Settled : request'[q] = request[q]
  BY DEF Settled, Fail, HistoryInv, HistoryTypes
<1>3. Stored'
  BY <1>2, NothingStored DEF HistoryInv, Fail
<1>4. Dated(users, events)' /\ ReportFits'
  BY QuietForReports DEF HistoryInv, Dated, Fail, tables
<1> QED
  BY <1>1, <1>3, <1>4 DEF HistoryInv

LEMMA CommitStep == ASSUME HistoryInv, NEW r \in Requests, CommitAndAnswer(r) PROVE HistoryInv'
<1>1. /\ request[r].pc = "accepted" /\ UNCHANGED <<today, report>>
      /\ request' = [request EXCEPT ![r].pc = "answered"]
      /\ answer' = [answer EXCEPT ![r] = AnswerTo(r)]
      /\ events' = events \cup {EventRow(r)} /\ inputs' = inputs \cup InputRows(r)
      /\ detections' = detections \cup DetectionRows(r)
      /\ users' = [users EXCEPT ![UserOf[r]].last = request[r].began]
  BY DEF CommitAndAnswer, Write
<1>2. HistoryTypes'
  <2>1. UserOf[r] \in Users /\ request[r].began \in 0 .. LastDay
    BY HistoryAssumption DEF HistoryInv, HistoryTypes
  <2>2. users' \in [Users -> [status : {"ACTIVE", "DISABLED"}, last : 0 .. LastDay]]
    BY <1>1, <2>1 DEF HistoryInv, HistoryTypes
  <2> QED
    BY <1>1, <2>2 DEF HistoryInv, HistoryTypes
<1>3. Settled' = Settled \cup {r} /\ r \notin Settled
  BY <1>1 DEF Settled, HistoryInv, HistoryTypes
<1>4. \A q \in Requests : request'[q].case = request[q].case /\ request'[q].began = request[q].began
  BY <1>1 DEF HistoryInv, HistoryTypes
<1>5. \A q \in Requests : /\ EventRow(q)' = EventRow(q) /\ InputRows(q)' = InputRows(q)
                          /\ DetectionRows(q)' = DetectionRows(q) /\ AnswerTo(q)' = AnswerTo(q)
  BY <1>4, RowsKept
<1>6. Stored'
  <2>1. \A q \in Settled' : answer'[q] = AnswerTo(q)
    BY <1>1, <1>3 DEF HistoryInv, HistoryTypes, Stored, Settled
  <2>2. Settled' \subseteq Requests
    BY DEF Settled
  <2>3. /\ events' = {EventRow(q) : q \in Settled'}
        /\ inputs' = UNION {InputRows(q) : q \in Settled'}
        /\ detections' = UNION {DetectionRows(q) : q \in Settled'}
    BY <1>1, <1>3 DEF HistoryInv, Stored
  <2>4. IsFiniteSet(events') /\ IsFiniteSet(inputs') /\ IsFiniteSet(detections')
    <3>1. IsFiniteSet(InputRows(r)) /\ IsFiniteSet(DetectionRows(r))
      BY <1>1, RowsOfRequest DEF HistoryInv, HistoryTypes
    <3>2. IsFiniteSet(events) /\ IsFiniteSet(inputs) /\ IsFiniteSet(detections)
      BY DEF HistoryInv, Stored
    <3> QED
      BY <1>1, <3>1, <3>2, FS_AddElement, FS_Union
  <2> QED
    BY <1>5, <2>1, <2>2, <2>3, <2>4 DEF Stored
<1>7. request[r].case \in Cases
  BY <1>1 DEF HistoryInv, HistoryTypes
<1>8. ASSUME NEW X \in SUBSET events
      PROVE  OfEvents(detections', X) = OfEvents(detections, X) /\ OfEvents(inputs', X) = OfEvents(inputs, X)
  <2>1. r \notin Ids(X)
    BY <1>3, EventsOfRequests DEF HistoryInv
  <2>2. \A row \in InputRows(r) \cup DetectionRows(r) : row.event = r
    BY <1>7, RowsOfRequest
  <2> QED
    BY <1>1, <2>1, <2>2 DEF OfEvents
<1>9. Dated(users, events)'
  <2>1. EventRow(r).user = UserOf[r]
    BY DEF EventRow
  <2> QED
    BY <1>1, <2>1 DEF HistoryInv, HistoryTypes, Dated
<1> QED
  BY <1>1, <1>2, <1>6, <1>8, <1>9, ReportGoesOn DEF HistoryInv

LEMMA ReportStep ==
  ASSUME HistoryInv, UNCHANGED <<today, users, request, answer, tables>>,
         ReportFits'
  PROVE  HistoryInv'
<1>1. HistoryTypes'
  BY DEF HistoryInv, HistoryTypes
<1>2. Settled' = Settled
  BY DEF Settled
<1>3. Stored'
  BY <1>2, NothingStored DEF HistoryInv
<1>4. Dated(users, events)'
  BY DEF HistoryInv, Dated, tables
<1> QED
  BY <1>1, <1>3, <1>4 DEF HistoryInv

LEMMA RecordsStay ==
  ASSUME UNCHANGED tables
  PROVE  /\ ReportRecord' = ReportRecord /\ events' = events
         /\ \A X : OfEvents(detections, X)' = OfEvents(detections, X) /\ OfEvents(inputs, X)' = OfEvents(inputs, X)
BY DEF tables, ReportRecord, OfEvents, Ids

LEMMA AskStep == ASSUME HistoryInv, NEW asked \in Reports, AskReport(asked) PROVE HistoryInv'
<1>1. /\ UNCHANGED <<today, users, request, answer, tables>>
      /\ report' = [asked |-> asked, asOf |-> today, next |-> IF asked.kind = "user_stats" THEN "users" ELSE "events",
                    known |-> events, users |-> None, events |-> {}, detections |-> {}, inputs |-> {}]
  BY DEF AskReport
<1>2. report' \in ReportRecord
  BY <1>1 DEF ReportRecord, HistoryInv, HistoryTypes
<1>3. \A e \in events : e.day <= today
  BY EventsOfRequests DEF HistoryInv, HistoryTypes, Settled
<1>4. Reading'
  BY <1>1, <1>3 DEF Reading
<1>5. UsersRead'
  BY <1>1 DEF UsersRead, Dated
<1> QED
  BY <1>1, <1>2, <1>4, <1>5, RecordsStay, ReportStep DEF ReportFits

LEMMA ReadUsersStep == ASSUME HistoryInv, ReadUsers PROVE HistoryInv'
<1>1. /\ report # None /\ report.next = "users" /\ UNCHANGED <<today, users, request, answer, tables>>
      /\ report' = [report EXCEPT !.users = users, !.next = "events"]
  BY DEF ReadUsers, Reads
<1>2. report \in ReportRecord /\ Reading /\ UsersRead
  BY <1>1 DEF HistoryInv, ReportFits
<1>3. report' \in ReportRecord
  BY <1>1, <1>2 DEF ReportRecord, HistoryInv, HistoryTypes
<1>4. Reading'
  BY <1>1, <1>2 DEF Reading, ReportRecord
<1>5. UsersRead'
  BY <1>1, <1>2, RecordsStay DEF UsersRead, ReportRecord, HistoryInv, HistoryTypes
<1> QED
  BY <1>1, <1>3, <1>4, <1>5, RecordsStay, ReportStep DEF ReportFits

LEMMA ReadEventsStep == ASSUME HistoryInv, ReadEvents PROVE HistoryInv'
<1>1. PICK chosen \in SUBSET events :
        /\ report # None /\ report.next = "events" /\ UNCHANGED <<today, users, request, answer, tables>>
        /\ Selected(chosen)
        /\ report' = [report EXCEPT !.events = chosen, !.next = IF chosen = {} THEN "done" ELSE "detections"]
  BY DEF ReadEvents, Reads
<1>2. report \in ReportRecord /\ Reading /\ UsersRead
  BY <1>1 DEF HistoryInv, ReportFits
<1>3. report' \in ReportRecord
  BY <1>1, <1>2 DEF ReportRecord
<1>4. ASSUME report.asked.kind \in {"overview", "event_stats"}, NEW e \in report.known,
             report.asOf - e.day < report.asked.days
      PROVE  e \in chosen
  <2>1. chosen = {f \in events : f.day >= Min(Window(report.asked.days, report.asOf))}
    BY <1>1, <1>4 DEF Selected
  <2>2. report.asked.days \in 1 .. 90 /\ report.asOf \in Nat /\ e \in events
    BY <1>2, <1>4, HistoryAssumption DEF ReportRecord
  <2>3. Min(Window(report.asked.days, report.asOf)) = report.asOf - report.asked.days + 1
    BY <2>2 DEF Min, Window
  <2>4. e.day \in Nat
    BY <2>2, EventsOfRequests DEF HistoryInv, HistoryTypes, Settled
  <2> QED
    BY <1>4, <2>1, <2>2, <2>3, <2>4
<1>5. chosen = {} => OfEvents(detections, chosen) = {} /\ OfEvents(inputs, chosen) = {}
  BY DEF OfEvents, Ids
<1>6. /\ report'.events = chosen /\ report'.next = IF chosen = {} THEN "done" ELSE "detections"
      /\ report'.known = report.known /\ report'.asked = report.asked /\ report'.asOf = report.asOf
      /\ report'.detections = {} /\ report'.inputs = {}
  BY <1>1, <1>2 DEF ReportRecord, Reading
<1>7. OfEvents(detections, report.events)' = OfEvents(detections, chosen)
      /\ OfEvents(inputs, report.events)' = OfEvents(inputs, chosen)
  BY <1>1, <1>6, RecordsStay
<1>8. Reading'
  BY <1>2, <1>4, <1>5, <1>6, <1>7 DEF Reading
<1>9. UsersRead'
  <2>1. report.asked.kind = "user_stats" => chosen = {e \in events : e.user \in IncludedUsers}
    BY <1>1 DEF Selected
  <2>2. report'.users = report.users /\ IncludedUsers' = IncludedUsers /\ IncludedUsers \subseteq Users
    BY <1>1, <1>2 DEF ReportRecord, IncludedUsers
  <2> QED
    BY <1>1, <1>2, <1>6, <2>1, <2>2, RecordsStay DEF UsersRead, Dated
<1> QED
  BY <1>1, <1>3, <1>8, <1>9, RecordsStay, ReportStep DEF ReportFits

LEMMA ReadDetectionsStep == ASSUME HistoryInv, ReadDetections PROVE HistoryInv'
<1>1. /\ report # None /\ report.next = "detections" /\ UNCHANGED <<today, users, request, answer, tables>>
      /\ report' = [report EXCEPT !.detections = OfEvents(detections, report.events),
                                  !.next = IF report.asked.kind \in {"overview", "events"} THEN "inputs" ELSE "done"]
  BY DEF ReadDetections, Reads
<1>2. report \in ReportRecord /\ Reading /\ UsersRead
  BY <1>1 DEF HistoryInv, ReportFits
<1>3. report' \in ReportRecord
  BY <1>1, <1>2 DEF ReportRecord, OfEvents
<1>4. /\ report'.events = report.events /\ report'.detections = OfEvents(detections, report.events)
      /\ report'.next = IF report.asked.kind \in {"overview", "events"} THEN "inputs" ELSE "done"
      /\ report'.known = report.known /\ report'.asked = report.asked /\ report'.asOf = report.asOf
  BY <1>1, <1>2 DEF ReportRecord
<1>5. OfEvents(detections, report.events)' = OfEvents(detections, report.events)
  BY <1>1, <1>4, RecordsStay
<1>6. Reading'
  BY <1>1, <1>2, <1>4, <1>5 DEF Reading
<1>7. UsersRead'
  <2>1. report'.users = report.users /\ IncludedUsers' = IncludedUsers
    BY <1>1, <1>2 DEF ReportRecord, IncludedUsers
  <2> QED
    BY <1>1, <1>2, <1>4, <2>1, RecordsStay DEF UsersRead, Dated
<1> QED
  BY <1>1, <1>3, <1>6, <1>7, RecordsStay, ReportStep DEF ReportFits

LEMMA ReadInputsStep == ASSUME HistoryInv, ReadInputs PROVE HistoryInv'
<1>1. /\ report # None /\ report.next = "inputs" /\ UNCHANGED <<today, users, request, answer, tables>>
      /\ report' = [report EXCEPT !.inputs = OfEvents(inputs, report.events), !.next = "done"]
  BY DEF ReadInputs, Reads
<1>2. report \in ReportRecord /\ Reading /\ UsersRead
  BY <1>1 DEF HistoryInv, ReportFits
<1>3. report' \in ReportRecord
  BY <1>1, <1>2 DEF ReportRecord, OfEvents
<1>4. /\ report'.events = report.events /\ report'.detections = report.detections
      /\ report'.inputs = OfEvents(inputs, report.events) /\ report'.next = "done"
      /\ report'.known = report.known /\ report'.asked = report.asked /\ report'.asOf = report.asOf
  BY <1>1, <1>2 DEF ReportRecord
<1>5. OfEvents(detections, report.events)' = OfEvents(detections, report.events)
      /\ OfEvents(inputs, report.events)' = OfEvents(inputs, report.events)
  BY <1>1, <1>4, RecordsStay
<1>6. Reading'
  BY <1>1, <1>2, <1>4, <1>5 DEF Reading
<1>7. UsersRead'
  <2>1. report'.users = report.users /\ IncludedUsers' = IncludedUsers
    BY <1>1, <1>2 DEF ReportRecord, IncludedUsers
  <2> QED
    BY <1>1, <1>2, <1>4, <2>1, RecordsStay DEF UsersRead, Dated
<1> QED
  BY <1>1, <1>3, <1>6, <1>7, RecordsStay, ReportStep DEF ReportFits

LEMMA HistoryInitFits == HistoryInit => HistoryInv
<1> SUFFICES ASSUME HistoryInit PROVE HistoryInv
  OBVIOUS
<1>1. HistoryTypes
  BY HistoryAssumption DEF HistoryInit, HistoryTypes
<1>2. Settled = {}
  BY DEF HistoryInit, Settled
<1>3. Stored
  BY <1>2, FS_EmptySet DEF HistoryInit, Stored
<1>4. Dated(users, events) /\ ReportFits
  BY DEF HistoryInit, Dated, ReportFits
<1> QED
  BY <1>1, <1>3, <1>4 DEF HistoryInv

LEMMA HistoryNextFits == HistoryInv /\ [HistoryNext]_historyVars => HistoryInv'
<1> SUFFICES ASSUME HistoryInv, [HistoryNext]_historyVars PROVE HistoryInv'
  OBVIOUS
<1>1. CASE UNCHANGED historyVars
  <2>1. UNCHANGED <<today, users, request, answer, tables, report>>
    BY <1>1 DEF historyVars, tables
  <2>2. ReportFits'
    BY <2>1, QuietForReports
  <2> QED
    BY <2>1, <2>2, ReportStep
<1>2. CASE CloseReport
  BY <1>2, ReportStep DEF CloseReport, Reads, ReportFits
<1>3. ASSUME NEW r \in Requests, (\E case \in Cases : Submit(r, case)) \/ CommitAndAnswer(r) \/ Fail(r)
      PROVE  HistoryInv'
  BY <1>3, SubmitStep, CommitStep, FailStep
<1> QED
  BY <1>1, <1>2, <1>3, DayStep, StatusStep, AskStep, ReadUsersStep, ReadEventsStep, ReadDetectionsStep, ReadInputsStep
  DEF HistoryNext

LEMMA HistoryKept == HistorySpec => []HistoryInv
BY HistoryInitFits, HistoryNextFits, PTL DEF HistorySpec

(* The rows of the tables that are of one request. *)
LEMMA RowsOfEvent ==
  ASSUME HistoryInv, NEW r \in Settled
  PROVE  /\ OfEvents(inputs, {EventRow(r)}) = InputRows(r)
         /\ OfEvents(detections, {EventRow(r)}) = DetectionRows(r)
<1>1. Ids({EventRow(r)}) = {r}
  BY DEF Ids, EventRow
<1>2. \A q \in Settled : \A row \in InputRows(q) \cup DetectionRows(q) : row.event = q
  BY RowsOfRequest DEF HistoryInv, HistoryTypes, Settled
<1> QED
  BY <1>1, <1>2 DEF OfEvents, HistoryInv, Stored

(* What is listed of an event, and what its user was told. *)
LEMMA ListedAsAnswered ==
  ASSUME HistoryInv, NEW r \in Settled
  PROVE  LET e == EventRow(r)
             given == OfEvents(inputs, {e})
             item == ListItem(e, OfEvents(detections, {e}), given) IN
         /\ e \in events /\ e.id = r
         /\ item.action = answer[r].action /\ item.level = answer[r].level
         /\ item.detections = answer[r].detections /\ item.inputs = Len(answer[r].results)
         /\ {i.index : i \in {j \in given : IsContentUnavailable(j.result, j.reason)}} = answer[r].unavailable
         /\ \A i \in given : i.result = answer[r].results[i.index]
         /\ answer[r].unavailable = {i \in DOMAIN Sent(r) : EvidenceCode(Sent(r)[i]) # {}}
<1> DEFINE e == EventRow(r)
           item == ListItem(e, DetectionRows(r), InputRows(r))
           n == Len(Sent(r))
<1>1. r \in Requests /\ request[r].case \in Cases /\ answer[r] = AnswerTo(r) /\ e \in events
  BY DEF HistoryInv, HistoryTypes, Stored, Settled
<1>2. OfEvents(inputs, {e}) = InputRows(r) /\ OfEvents(detections, {e}) = DetectionRows(r)
  BY RowsOfEvent
<1>3. e.id = r /\ e.action = request[r].case.action
  BY DEF EventRow
<1>4. item.action = answer[r].action /\ item.level = answer[r].level
  BY <1>1, <1>3 DEF ListItem, AnswerTo
<1>5. item.detections = answer[r].detections
  <2>1. item.detections = SumCounts(DetectionRows(r))
    BY DEF ListItem
  <2>2. SumCounts(DetectionRows(r)) = Cardinality(DetectionRows(r))
    BY <1>1, RowsOfRequest, OnesSumUp
  <2> QED
    BY <1>1, <2>1, <2>2 DEF AnswerTo
<1>6. n \in Nat /\ DOMAIN Sent(r) = 1 .. n
  BY <1>1, SentItems
<1>7. answer[r].results = [i \in 1 .. n |-> Result(r, i)]
  BY <1>1, <1>6 DEF AnswerTo
<1>8. item.inputs = Len(answer[r].results)
  <2>1. item.inputs = n
    BY <1>1, RowsOfRequest DEF ListItem
  <2>2. Len([i \in 1 .. n |-> Result(r, i)]) = n
    <3> HIDE DEF n
    <3> QED
      BY <1>6
  <2> QED
    BY <1>7, <2>1, <2>2
<1>9. \A i \in 1 .. n : /\ IsContentUnavailable(Result(r, i), Sent(r)[i].reason) = ContentUnavailable(Result(r, i))
                        /\ (EvidenceCode(Sent(r)[i]) # {}) = ContentUnavailable(Result(r, i))
  BY <1>1, <1>6, SentItems, OneNotionOfUnavailable DEF Result
<1>10. answer[r].unavailable = {i \in 1 .. n : ContentUnavailable(Result(r, i))}
  BY <1>1, <1>6 DEF AnswerTo
<1>11. \A i \in InputRows(r) : i.index \in 1 .. n /\ i.result = Result(r, i.index) /\ i.reason = Sent(r)[i.index].reason
  BY <1>6 DEF InputRows
<1>12. ASSUME NEW k \in 1 .. n PROVE \E i \in InputRows(r) : i.index = k
  <2> DEFINE row == [event |-> r, index |-> k, included |-> Sent(r)[k].included, result |-> Result(r, k),
                     reason |-> Sent(r)[k].reason]
  <2>1. row \in InputRows(r)
    BY <1>6, <1>12 DEF InputRows
  <2> QED
    BY <2>1
<1>13. {i.index : i \in {j \in InputRows(r) : IsContentUnavailable(j.result, j.reason)}} = answer[r].unavailable
  <2> HIDE DEF n
  <2> QED
    BY <1>9, <1>10, <1>11, <1>12
<1>14. \A i \in InputRows(r) : i.result = answer[r].results[i.index]
  BY <1>7, <1>11
<1>15. answer[r].unavailable = {i \in DOMAIN Sent(r) : EvidenceCode(Sent(r)[i]) # {}}
  BY <1>6, <1>9, <1>10
<1> HIDE DEF e, item
<1> QED
  BY <1>1, <1>2, <1>3, <1>4, <1>5, <1>8, <1>13, <1>14, <1>15 DEF e, item

(* Type correctness: no row breaks a constraint of its table, for any        *)
(* requests and cases.                                                       *)
THEOREM HistoryTypesCorrect == HistorySpec => []HistoryTypeOK
<1>1. ASSUME HistoryInv PROVE HistoryTypeOK
  <2>1. ASSUME NEW r \in Settled
        PROVE  EventRow(r) \in EventColumns /\ InputRows(r) \subseteq InputColumns /\ DetectionRows(r) \subseteq DetectionColumns
    <3>1. r \in Requests /\ request[r].case \in Cases /\ request[r].began \in Nat
      BY <1>1, HistoryAssumption DEF Settled, HistoryInv, HistoryTypes
    <3> QED
      BY <3>1, AcceptedIsStorable DEF Storable
  <2>2. events \subseteq EventColumns /\ inputs \subseteq InputColumns /\ detections \subseteq DetectionColumns
    BY <1>1, <2>1 DEF HistoryInv, Stored
  <2> QED
    BY <1>1, <2>2 DEF HistoryInv, HistoryTypes, HistoryTypeOK
<1> QED
  BY <1>1, HistoryKept, PTL

(* The page of an event shows what its user was told, for any requests with  *)
(* any attachments, whatever the rows of others.                             *)
THEOREM PagesMatchAnswers == HistorySpec => []HistoryMatchesAnswer
<1>1. ASSUME HistoryInv PROVE HistoryMatchesAnswer
  <2>1. ASSUME NEW r \in Requests, request[r].pc = "accepted" PROVE Storable(r)
    <3>1. request[r].case \in Cases /\ request[r].began \in Nat
      BY <1>1, <2>1, HistoryAssumption DEF HistoryInv, HistoryTypes
    <3> QED
      BY <3>1, AcceptedIsStorable
  <2>2. ASSUME NEW r \in Requests, request[r].pc = "answered"
        PROVE  \E e \in events :
                 e.id = r /\
                 LET item == ListItem(e, OfEvents(detections, {e}), OfEvents(inputs, {e}))
                     given == OfEvents(inputs, {e}) IN
                 /\ item.action = answer[r].action /\ item.level = answer[r].level
                 /\ item.detections = answer[r].detections /\ item.inputs = Len(answer[r].results)
                 /\ {i.index : i \in {j \in given : IsContentUnavailable(j.result, j.reason)}} = answer[r].unavailable
                 /\ \A i \in given : i.result = answer[r].results[i.index]
                 /\ answer[r].unavailable = {i \in DOMAIN Sent(r) : EvidenceCode(Sent(r)[i]) # {}}
    <3>1. r \in Settled
      BY <2>2 DEF Settled
    <3>2. EventRow(r) \in events
      BY <1>1, <3>1, ListedAsAnswered
    <3> WITNESS EventRow(r) \in events
    <3> QED
      BY <1>1, <3>1, ListedAsAnswered
  <2> QED
    BY <2>1, <2>2 DEF HistoryMatchesAnswer
<1> QED
  BY <1>1, HistoryKept, PTL

(* A report counts events whole and misses none that was stored before,      *)
(* whatever is committed between its queries, and midnight included.         *)
THEOREM ReportsCountWholeEvents == HistorySpec => []ReportsWholeEvents
<1>1. ASSUME HistoryInv PROVE ReportsWholeEvents
  <2> SUFFICES ASSUME report # None, report.next = "done" PROVE ReportsWholeEvents
    BY DEF ReportsWholeEvents
  <2>1. report \in ReportRecord /\ Reading /\ UsersRead
    BY <1>1 DEF HistoryInv, ReportFits
  <2> DEFINE counted == Counted(report)
  <2>2. counted \subseteq report.events
    BY DEF Counted
  <2>3. Ids(counted) \subseteq Ids(report.events)
    BY <2>2 DEF Ids
  <2>4. OfEvents(report.detections, counted) = OfEvents(detections, counted)
    BY <2>1, <2>3 DEF Reading, OfEvents
  <2>5. report.asked.kind \in {"overview", "events"} => OfEvents(report.inputs, counted) = OfEvents(inputs, counted)
    BY <2>1, <2>3 DEF Reading, OfEvents
  <2>6. ASSUME report.asked.kind \in {"overview", "event_stats"}, NEW e \in report.known,
               report.asOf - e.day < report.asked.days
        PROVE  e \in counted
    <3>1. e \in report.events /\ e \in events /\ e.day <= report.asOf
      BY <2>1, <2>6 DEF Reading, ReportRecord
    <3>2. e.day \in Nat /\ report.asOf \in Nat /\ report.asked.days \in Nat
      <4>1. e.id \in Requests /\ e.day = request[e.id].began
        BY <1>1, <3>1, EventsOfRequests DEF HistoryInv, Settled
      <4>2. e.day \in Nat
        BY <1>1, <4>1, HistoryAssumption DEF HistoryInv, HistoryTypes
      <4>3. report.asOf \in Nat /\ report.asked \in Reports
        BY <2>1, HistoryAssumption DEF ReportRecord
      <4> QED
        BY <4>2, <4>3, HistoryAssumption
    <3>3. e.day \in Window(report.asked.days, report.asOf)
      BY <2>6, <3>1, <3>2 DEF Window
    <3> QED
      BY <2>6, <3>1, <3>3 DEF Counted
  <2> HIDE DEF counted
  <2> QED
    BY <2>4, <2>5, <2>6 DEF ReportsWholeEvents, counted
<1> QED
  BY <1>1, HistoryKept, PTL

-------------------------------------------------------------------------------
(* Sums and numbers of rows. *)

(* The sizes of the classes that a key makes add up to the rows that are in  *)
(* one of them.                                                              *)
LEMMA ClassesAddUp ==
  ASSUME NEW D, IsFiniteSet(D), NEW key, NEW counts, IsFiniteSet(DOMAIN counts),
         \A k \in DOMAIN counts : counts[k] = Cardinality({x \in D : key[x] = k})
  PROVE  Total(counts) = Cardinality({x \in D : key[x] \in DOMAIN counts})
<1> DEFINE K == DOMAIN counts
           Rows(s) == {x \in D : key[x] \in s}
           Sums(f) == f = [s \in SUBSET K |-> IF s = {} THEN 0 ELSE LET k == CHOOSE y \in s : TRUE IN counts[k] + f[s \ {k}]]
           sum == CHOOSE f : Sums(f)
<1>1. ASSUME NEW s \in SUBSET K
      PROVE  Cardinality(Rows(s)) = IF s = {} THEN 0 ELSE LET k == CHOOSE y \in s : TRUE IN counts[k] + Cardinality(Rows(s \ {k}))
  <2>1. CASE s = {}
    <3>1. Rows(s) = {}
      BY <2>1
    <3> QED
      BY <2>1, <3>1, FS_EmptySet
  <2>2. CASE s # {}
    <3> DEFINE k == CHOOSE y \in s : TRUE
               class == {x \in D : key[x] = k}
    <3>1. k \in s
      BY <2>2
    <3> HIDE DEF k
    <3>2. Rows(s) = class \cup Rows(s \ {k}) /\ class \cap Rows(s \ {k}) = {}
      BY <3>1
    <3>3. class \in SUBSET D /\ Rows(s \ {k}) \in SUBSET D
      OBVIOUS
    <3> HIDE DEF class, Rows
    <3>4. IsFiniteSet(class) /\ IsFiniteSet(Rows(s \ {k})) /\ Cardinality(class) \in Nat /\ Cardinality(Rows(s \ {k})) \in Nat
      BY <3>3, FS_Subset, FS_CardinalityType
    <3>5. Cardinality(Rows(s)) = Cardinality(class) + Cardinality(Rows(s \ {k})) - Cardinality(class \cap Rows(s \ {k}))
      BY <3>2, <3>4, FS_Union
    <3>6. Cardinality(Rows(s)) = Cardinality(class) + Cardinality(Rows(s \ {k}))
      <4>1. Cardinality(class \cap Rows(s \ {k})) = 0
        BY <3>2, FS_EmptySet
      <4> QED
        BY <3>4, <3>5, <4>1
    <3>7. counts[k] = Cardinality(class)
      BY <3>1 DEF class
    <3> QED
      BY <2>2, <3>6, <3>7 DEF k
  <2> QED
    BY <2>1, <2>2
<1>2. \A s \in SUBSET K : IsFiniteSet(s) /\ Cardinality(s) \in Nat
  BY FS_Subset, FS_CardinalityType
<1> HIDE DEF Rows
<1>3. Sums([s \in SUBSET K |-> Cardinality(Rows(s))])
  BY <1>1
<1>4. Sums(sum)
  BY <1>3
<1> HIDE DEF sum
<1>5. \A s \in SUBSET K : sum[s] = Cardinality(Rows(s))
  <2> SUFFICES ASSUME NEW s \in SUBSET K, sum[s] # Cardinality(Rows(s)) PROVE FALSE
    OBVIOUS
  <2> DEFINE T == {Cardinality(t) : t \in {u \in SUBSET K : sum[u] # Cardinality(Rows(u))}}
  <2>1. T \subseteq Nat /\ T # {}
    BY <1>2
  <2>2. PICK n \in T : \A m \in T : n <= m
    BY <2>1, LeastNumber
  <2>3. PICK t \in SUBSET K : sum[t] # Cardinality(Rows(t)) /\ n = Cardinality(t)
    BY <2>2
  <2>4. sum[{}] = Cardinality(Rows({}))
    BY <1>1, <1>4
  <2>5. t # {}
    BY <2>3, <2>4
  <2> DEFINE k == CHOOSE y \in t : TRUE
  <2>6. k \in t
    BY <2>5
  <2>7. Cardinality(t \ {k}) = n - 1
    BY <1>2, <2>3, <2>6, FS_RemoveElement
  <2>8. t \ {k} \in SUBSET K /\ sum[t \ {k}] = Cardinality(Rows(t \ {k}))
    <3>1. t \ {k} \in SUBSET K /\ Cardinality(t \ {k}) \in Nat /\ n \in Nat
      BY <1>2, <2>3
    <3> HIDE DEF k
    <3>2. Cardinality(t \ {k}) \notin T
      BY <2>2, <2>7, <3>1
    <3> QED
      BY <3>1, <3>2
  <2>9. sum[t] = counts[k] + sum[t \ {k}]
    BY <1>4, <2>5
  <2>10. Cardinality(Rows(t)) = counts[k] + Cardinality(Rows(t \ {k}))
    BY <1>1, <2>5
  <2> QED
    BY <2>3, <2>8, <2>9, <2>10
<1>6. Total(counts) = sum[K]
  BY DEF Total, MapThenSumSet, MapThenFoldSet, sum
<1> QED
  BY <1>5, <1>6 DEF Rows

(* What is counted by a key adds up to the rows; so do detections that       *)
(* count one each.                                                           *)
LEMMA CountByAddsUp ==
  ASSUME NEW key, key = [x \in DOMAIN key |-> key[x]], IsFiniteSet(DOMAIN key)
  PROVE  Total(CountBy(key)) = Cardinality(DOMAIN key)
<1> DEFINE counts == CountBy(key)
<1>1. DOMAIN counts = {key[x] : x \in DOMAIN key} /\ \A k \in DOMAIN counts : counts[k] = Cardinality({x \in DOMAIN key : key[x] = k})
  BY DEF CountBy, Range
<1>2. IsFiniteSet(DOMAIN counts)
  BY <1>1, ImageIsSmaller
<1> HIDE DEF counts
<1>3. Total(counts) = Cardinality({x \in DOMAIN key : key[x] \in DOMAIN counts})
  BY <1>1, <1>2, ClassesAddUp
<1>4. {x \in DOMAIN key : key[x] \in DOMAIN counts} = DOMAIN key
  BY <1>1
<1> QED
  BY <1>3, <1>4 DEF counts

LEMMA DetectionsByAddUp ==
  ASSUME NEW key, key = [x \in DOMAIN key |-> key[x]], IsFiniteSet(DOMAIN key), \A d \in DOMAIN key : d.count = 1
  PROVE  Total(DetectionsBy(key)) = Cardinality(DOMAIN key)
<1> DEFINE counts == DetectionsBy(key)
<1>1. DOMAIN counts = {key[x] : x \in DOMAIN key} /\ \A k \in DOMAIN counts : counts[k] = SumCounts({x \in DOMAIN key : key[x] = k})
  BY DEF DetectionsBy, Range
<1>2. \A k : SumCounts({x \in DOMAIN key : key[x] = k}) = Cardinality({x \in DOMAIN key : key[x] = k})
  <2> TAKE k
  <2>1. {x \in DOMAIN key : key[x] = k} \in SUBSET DOMAIN key
    OBVIOUS
  <2>2. IsFiniteSet({x \in DOMAIN key : key[x] = k})
    BY <2>1, FS_Subset
  <2> QED
    BY <2>2, OnesSumUp
<1>3. IsFiniteSet(DOMAIN counts)
  BY <1>1, ImageIsSmaller
<1> HIDE DEF counts
<1>4. Total(counts) = Cardinality({x \in DOMAIN key : key[x] \in DOMAIN counts})
  <2>1. \A k \in DOMAIN counts : counts[k] = Cardinality({x \in DOMAIN key : key[x] = k})
    BY <1>1, <1>2
  <2> QED
    BY <1>3, <2>1, ClassesAddUp
<1>5. {x \in DOMAIN key : key[x] \in DOMAIN counts} = DOMAIN key
  BY <1>1
<1> QED
  BY <1>4, <1>5 DEF counts

LEMMA LatestDay ==
  ASSUME NEW n \in Nat, NEW S \in SUBSET (1 .. n), S # {}
  PROVE  Max(S) \in S /\ \A d \in S : d <= Max(S)
<1> DEFINE T == {n - d : d \in S}
<1>1. T \subseteq Nat /\ T # {}
  <2>1. PICK d \in S : TRUE
    OBVIOUS
  <2>2. n - d \in T
    OBVIOUS
  <2>3. \A e \in S : e \in 1 .. n
    OBVIOUS
  <2>4. \A e \in S : n - e \in Nat
    BY <2>3
  <2> QED
    BY <2>2, <2>4
<1>2. PICK least \in T : \A m \in T : least <= m
  BY <1>1, LeastNumber
<1>3. PICK last \in S : least = n - last
  BY <1>2
<1>4. ASSUME NEW d \in S PROVE last >= d
  <2>1. n - d \in T /\ d \in Int /\ last \in Int
    OBVIOUS
  <2>2. n - last <= n - d
    BY <1>2, <1>3, <2>1
  <2> QED
    BY <2>1, <2>2
<1> QED
  BY <1>3, <1>4 DEF Max

LEMMA RowsReported ==
  ASSUME HistoryInv, report # None
  PROVE  /\ report \in ReportRecord
         /\ IsFiniteSet(report.events) /\ IsFiniteSet(report.detections) /\ IsFiniteSet(report.inputs)
         /\ \A e \in report.events : e.action \in Actions /\ e.day \in 1 .. LastDay
         /\ \A d \in report.detections : d.count = 1
<1>1. report \in ReportRecord
  BY DEF HistoryInv, ReportFits
<1>2. report.events \in SUBSET events /\ report.detections \in SUBSET detections /\ report.inputs \in SUBSET inputs
  BY <1>1 DEF ReportRecord
<1>3. IsFiniteSet(report.events) /\ IsFiniteSet(report.detections) /\ IsFiniteSet(report.inputs)
  BY <1>2, FS_Subset DEF HistoryInv, Stored
<1>4. ASSUME NEW e \in report.events PROVE e.action \in Actions /\ e.day \in 1 .. LastDay
  <2>1. PICK r \in Settled : e = EventRow(r)
    BY <1>2 DEF HistoryInv, Stored
  <2>2. r \in Requests /\ request[r].case \in Cases /\ request[r].began \in 1 .. LastDay
    BY <2>1, HistoryAssumption DEF Settled, HistoryInv, HistoryTypes
  <2> QED
    BY <2>1, <2>2, HistoryAssumption DEF EventRow
<1>5. ASSUME NEW d \in report.detections PROVE d.count = 1
  <2>1. PICK r \in Settled : d \in DetectionRows(r)
    BY <1>2 DEF HistoryInv, Stored
  <2>2. r \in Requests /\ request[r].case \in Cases
    BY <2>1 DEF Settled, HistoryInv, HistoryTypes
  <2> QED
    BY <2>1, <2>2, RowsOfRequest
<1> QED
  BY <1>1, <1>3, <1>4, <1>5

(* The total of the days: every event counted is of a day of the window.     *)
LEMMA DaysAddUp ==
  ASSUME HistoryInv, report # None, report.asked.kind \in {"overview", "event_stats"}
  PROVE  LET counted == Counted(report)
             buckets == EventStats(report).buckets IN
         Cardinality(counted) = Total([d \in DOMAIN buckets |-> Total(buckets[d])])
<1> DEFINE counted == Counted(report)
           window == Window(report.asked.days, report.asOf)
           OnDay(d) == {x \in counted : x.day = d}
           bucket(d) == CountBy([e \in OnDay(d) |-> e.action])
           buckets == [d \in window |-> bucket(d)]
           counts == [d \in window |-> Total(buckets[d])]
<1>1. report \in ReportRecord /\ IsFiniteSet(report.events)
  BY RowsReported
<1>2. counted = {e \in report.events : e.day \in window}
  BY DEF Counted
<1>3. IsFiniteSet(counted)
  BY <1>1, <1>2, FS_Subset
<1>4. IsFiniteSet(window)
  <2>1. report.asOf \in Int /\ report.asked.days \in Int
    BY <1>1, HistoryAssumption DEF ReportRecord
  <2>2. report.asOf - report.asked.days + 1 \in Int
    BY <2>1
  <2> QED
    BY <2>1, <2>2, FS_Interval DEF Window
<1>5. ASSUME NEW d \in window PROVE counts[d] = Cardinality(OnDay(d))
  <2> DEFINE key == [e \in OnDay(d) |-> e.action]
  <2>1. OnDay(d) \in SUBSET counted
    OBVIOUS
  <2>2. IsFiniteSet(OnDay(d))
    BY <1>3, <2>1, FS_Subset
  <2>3. key = [e \in DOMAIN key |-> key[e]] /\ DOMAIN key = OnDay(d)
    OBVIOUS
  <2> HIDE DEF key, OnDay
  <2>4. Total(CountBy(key)) = Cardinality(OnDay(d))
    BY <2>2, <2>3, CountByAddsUp
  <2>5. counts[d] = Total(CountBy(key))
    BY DEF key
  <2> QED
    BY <2>4, <2>5
<1> DEFINE dayOf == [e \in counted |-> e.day]
<1>6. DOMAIN counts = window
  OBVIOUS
<1>7. \A d \in window : OnDay(d) = {e \in counted : dayOf[e] = d}
  OBVIOUS
<1>8. {e \in counted : dayOf[e] \in window} = counted
  BY <1>2
<1>9. EventStats(report).buckets = buckets
  BY DEF EventStats
<1>10. [d \in DOMAIN buckets |-> Total(buckets[d])] = counts
  OBVIOUS
<1> HIDE DEF counts, dayOf, OnDay, window
<1>11. Total(counts) = Cardinality({e \in counted : dayOf[e] \in window})
  <2> HIDE DEF counted
  <2>1. \A d \in DOMAIN counts : counts[d] = Cardinality({e \in counted : dayOf[e] = d})
    BY <1>5, <1>6, <1>7
  <2> QED
    BY <1>3, <1>4, <1>6, <2>1, ClassesAddUp
<1> HIDE DEF buckets, counted
<1> QED
  BY <1>8, <1>9, <1>10, <1>11 DEF counted

(* The three reports add up by themselves. *)
LEMMA StatsAddUp ==
  ASSUME HistoryInv, Made("event_stats")
  PROVE  LET shown == EventStats(report) IN
         /\ shown.count = Total(shown.actions) /\ shown.count = Total(shown.levels)
         /\ shown.count = Total([d \in DOMAIN shown.buckets |-> Total(shown.buckets[d])])
         /\ Total(shown.types) = Total(shown.categories) /\ shown.users <= shown.count
<1> DEFINE counted == Counted(report)
           found == OfEvents(report.detections, counted)
           shown == EventStats(report)
<1>1. report # None /\ report.asked.kind = "event_stats"
  BY DEF Made
<1>2. IsFiniteSet(counted) /\ IsFiniteSet(found) /\ \A d \in found : d.count = 1
  <2>1. counted \in SUBSET report.events /\ found \in SUBSET report.detections
    BY DEF Counted, OfEvents
  <2> HIDE DEF counted, found
  <2> QED
    BY <1>1, <2>1, RowsReported, FS_Subset
<1> DEFINE actionOf == [e \in counted |-> e.action]
           levelOf == [e \in counted |-> e.level]
           userOf == [e \in counted |-> e.user]
           typeOf == [d \in found |-> d.type]
           categoryOf == [d \in found |-> CategoryOf(d.type)]
<1>3. /\ shown.count = Cardinality(counted) /\ shown.actions = CountBy(actionOf) /\ shown.levels = CountBy(levelOf)
      /\ shown.types = DetectionsBy(typeOf) /\ shown.categories = DetectionsBy(categoryOf)
      /\ shown.users = Cardinality({e.user : e \in counted})
  BY DEF EventStats
<1>4. {e.user : e \in counted} = {userOf[e] : e \in counted}
  OBVIOUS
<1> HIDE DEF counted, found
<1>5. /\ DOMAIN actionOf = counted /\ actionOf = [e \in DOMAIN actionOf |-> actionOf[e]]
      /\ DOMAIN levelOf = counted /\ levelOf = [e \in DOMAIN levelOf |-> levelOf[e]]
      /\ userOf = [e \in counted |-> userOf[e]]
      /\ DOMAIN typeOf = found /\ typeOf = [d \in DOMAIN typeOf |-> typeOf[d]]
      /\ DOMAIN categoryOf = found /\ categoryOf = [d \in DOMAIN categoryOf |-> categoryOf[d]]
  OBVIOUS
<1> HIDE DEF actionOf, levelOf, userOf, typeOf, categoryOf
<1>6. Total(CountBy(actionOf)) = Cardinality(counted) /\ Total(CountBy(levelOf)) = Cardinality(counted)
  BY <1>2, <1>5, CountByAddsUp
<1>7. Total(DetectionsBy(typeOf)) = Cardinality(found) /\ Total(DetectionsBy(categoryOf)) = Cardinality(found)
  BY <1>2, <1>5, DetectionsByAddUp
<1>8. Cardinality({userOf[e] : e \in counted}) <= Cardinality(counted)
  BY <1>2, <1>5, ImageIsSmaller
<1>9. shown.count = Total([d \in DOMAIN shown.buckets |-> Total(shown.buckets[d])])
  BY <1>1, <1>3, DaysAddUp DEF counted
<1> HIDE DEF shown
<1>10. shown.count = Total(shown.actions) /\ shown.count = Total(shown.levels)
  BY <1>3, <1>6
<1>11. Total(shown.types) = Total(shown.categories) /\ shown.users <= shown.count
  BY <1>3, <1>4, <1>7, <1>8
<1> QED
  BY <1>9, <1>10, <1>11 DEF shown

LEMMA OverviewAddsUp ==
  ASSUME HistoryInv, Made("overview")
  PROVE  LET shown == Overview(report) IN
         /\ shown.count = Total(shown.actions)
         /\ shown.count = Total([d \in DOMAIN shown.buckets |-> Total(shown.buckets[d])])
         /\ shown.unavailable <= shown.count /\ (shown.last = 0) = (shown.count = 0)
         /\ shown.last <= report.asOf
<1> DEFINE counted == Counted(report)
           days == {e.day : e \in counted}
           shown == Overview(report)
           unread == {i.event : i \in {j \in OfEvents(report.inputs, counted) : ~j.included}}
<1>1. report # None /\ report.asked.kind = "overview" /\ report \in ReportRecord /\ counted \in SUBSET report.events
  BY RowsReported DEF Made, Counted
<1>2. IsFiniteSet(counted) /\ Cardinality(counted) \in Nat /\ (Cardinality(counted) = 0 <=> counted = {})
  <2> HIDE DEF counted
  <2> QED
    BY <1>1, RowsReported, FS_Subset, FS_CardinalityType, FS_EmptySet
<1>3. /\ shown.count = Cardinality(counted) /\ shown.unavailable = Cardinality(unread)
      /\ shown.actions = [a \in Actions |-> Cardinality({e \in counted : e.action = a})]
      /\ shown.last = IF counted = {} THEN 0 ELSE Max(days)
      /\ shown.buckets = EventStats(report).buckets
  BY DEF Overview
<1>4. unread \subseteq Ids(counted)
  BY DEF OfEvents
<1>5. \A e \in counted : e.action \in Actions /\ e.day \in 1 .. report.asOf
  <2>1. \A e \in counted : e.day \in Window(report.asked.days, report.asOf)
    BY <1>1 DEF Counted
  <2>2. report.asOf \in Nat /\ report.asked.days \in Nat /\ LastDay \in Nat
    BY <1>1, HistoryAssumption DEF ReportRecord
  <2>3. \A e \in counted : e.action \in Actions /\ e.day \in 1 .. LastDay
    BY <1>1, RowsReported
  <2> HIDE DEF counted
  <2> QED
    BY <2>1, <2>2, <2>3 DEF Window
<1>6. shown.count = Total([d \in DOMAIN shown.buckets |-> Total(shown.buckets[d])])
  BY <1>1, <1>3, DaysAddUp
<1>7. shown.count = Total(shown.actions)
  <2> DEFINE actionOf == [e \in counted |-> e.action]
             counts == [a \in Actions |-> Cardinality({e \in counted : e.action = a})]
  <2>1. IsFiniteSet(Actions)
    <3>1. Actions = ({"ALLOW"} \cup {"WARN"}) \cup ({"MASK"} \cup {"BLOCK"})
      BY DEF Actions
    <3> QED
      BY <3>1, FS_Singleton, FS_Union
  <2>2. \A a \in DOMAIN counts : counts[a] = Cardinality({e \in counted : actionOf[e] = a})
    <3>1. \A a : {e \in counted : actionOf[e] = a} = {e \in counted : e.action = a}
      OBVIOUS
    <3> HIDE DEF actionOf
    <3> QED
      BY <3>1
  <2>3. {e \in counted : actionOf[e] \in DOMAIN counts} = counted /\ DOMAIN counts = Actions
    BY <1>5
  <2> HIDE DEF actionOf, counts, counted
  <2>4. Total(counts) = Cardinality({e \in counted : actionOf[e] \in DOMAIN counts})
    BY <1>2, <2>1, <2>2, <2>3, ClassesAddUp
  <2> HIDE DEF shown
  <2> QED
    BY <1>3, <2>3, <2>4 DEF counts
<1>8. Cardinality(unread) <= Cardinality(counted)
  <2> DEFINE idOf == [e \in counted |-> e.id]
  <2>1. idOf = [e \in counted |-> idOf[e]] /\ Ids(counted) = {idOf[e] : e \in counted}
    BY DEF Ids
  <2> HIDE DEF idOf, counted, unread
  <2>2. IsFiniteSet(Ids(counted)) /\ Cardinality(Ids(counted)) <= Cardinality(counted)
    BY <1>2, <2>1, ImageIsSmaller
  <2>3. Cardinality(unread) <= Cardinality(Ids(counted)) /\ Cardinality(unread) \in Nat /\ Cardinality(Ids(counted)) \in Nat
    BY <1>4, <2>2, FS_Subset, FS_CardinalityType
  <2> QED
    BY <1>2, <2>2, <2>3
<1>9. (shown.last = 0) = (shown.count = 0) /\ shown.last <= report.asOf
  <2>1. report.asOf \in Nat
    BY <1>1, HistoryAssumption DEF ReportRecord
  <2>2. CASE counted = {}
    BY <1>2, <1>3, <2>1, <2>2
  <2>3. CASE counted # {}
    <3>1. days \in SUBSET (1 .. report.asOf) /\ days # {}
      BY <1>5, <2>3
    <3> HIDE DEF days
    <3>2. Max(days) \in 1 .. report.asOf
      BY <2>1, <3>1, LatestDay
    <3> HIDE DEF shown, counted
    <3> QED
      BY <1>2, <1>3, <2>1, <2>3, <3>2
  <2> QED
    BY <2>2, <2>3
<1> HIDE DEF shown, counted, unread
<1> QED
  BY <1>3, <1>6, <1>7, <1>8, <1>9 DEF shown

(* A finite set with a total order can be laid out in that order: each       *)
(* member comes as many places down as there are members before it.          *)
LEMMA SortedSeqExists ==
  ASSUME NEW S, IsFiniteSet(S), NEW R,
         \A x \in S : <<x, x>> \notin R,
         \A x, y \in S : x = y \/ <<x, y>> \in R \/ <<y, x>> \in R,
         \A x, y, z \in S : <<x, y>> \in R /\ <<y, z>> \in R => <<x, z>> \in R
  PROVE  \E s \in SetToSeqs(S) : \A i, j \in DOMAIN s : i < j => <<s[i], s[j]>> \in R
<1> DEFINE n == Cardinality(S)
           Above(x) == {y \in S : <<y, x>> \in R}
           place == [x \in S |-> Cardinality(Above(x)) + 1]
<1>1. n \in Nat
  BY FS_CardinalityType
<1>2. ASSUME NEW x \in S PROVE IsFiniteSet(Above(x)) /\ Cardinality(Above(x)) \in Nat /\ place[x] \in 1 .. n
  <2>1. Above(x) \in SUBSET (S \ {x})
    OBVIOUS
  <2>2. IsFiniteSet(S \ {x}) /\ Cardinality(S \ {x}) = n - 1
    BY FS_RemoveElement
  <2>3. place[x] = Cardinality(Above(x)) + 1
    OBVIOUS
  <2> HIDE DEF Above, place, n
  <2>4. IsFiniteSet(Above(x)) /\ Cardinality(Above(x)) <= n - 1
    BY <2>1, <2>2, FS_Subset
  <2>5. Cardinality(Above(x)) \in Nat
    BY <2>4, FS_CardinalityType
  <2> QED
    BY <1>1, <2>3, <2>4, <2>5
<1>3. ASSUME NEW x \in S, NEW y \in S, <<x, y>> \in R PROVE place[x] < place[y]
  <2>1. Above(x) \in SUBSET Above(y) /\ x \in Above(y) /\ x \notin Above(x)
    BY <1>3
  <2>2. place[x] = Cardinality(Above(x)) + 1 /\ place[y] = Cardinality(Above(y)) + 1
    OBVIOUS
  <2> HIDE DEF Above, place
  <2>3. Cardinality(Above(x)) <= Cardinality(Above(y)) /\ Cardinality(Above(x)) # Cardinality(Above(y))
    BY <1>2, <2>1, FS_Subset
  <2> QED
    BY <1>2, <2>2, <2>3
<1> HIDE DEF place
<1>4. place \in Injection(S, 1 .. n)
  <2>1. place \in [S -> 1 .. n]
    BY <1>2 DEF place
  <2>2. ASSUME NEW x \in S, NEW y \in S, place[x] = place[y] PROVE x = y
    <3>1. place[x] \in 1 .. n /\ place[y] \in 1 .. n
      BY <1>2
    <3>2. <<x, y>> \notin R /\ <<y, x>> \notin R
      BY <1>3, <2>2, <3>1
    <3> QED
      BY <3>2
  <2> QED
    BY <2>1, <2>2 DEF Injection, IsInjective
<1>5. place \in Surjection(S, 1 .. n)
  <2>1. IsFiniteSet(1 .. n) /\ Cardinality(1 .. n) = IF 1 > n THEN 0 ELSE n - 1 + 1
    BY <1>1, FS_Interval
  <2>2. Cardinality(S) = Cardinality(1 .. n)
    BY <1>1, <2>1
  <2> QED
    BY <1>4, <2>1, <2>2, FS_Injection
<1> DEFINE s == [i \in 1 .. n |-> CHOOSE x \in S : place[x] = i]
<1>6. \A i \in 1 .. n : s[i] \in S /\ place[s[i]] = i
  BY <1>5 DEF Surjection
<1>7. DOMAIN s = 1 .. n /\ s \in [1 .. n -> S]
  BY <1>6
<1> HIDE DEF s
<1>8. s \in SetToSeqs(S)
  BY <1>6, <1>7 DEF SetToSeqs
<1>9. ASSUME NEW i \in 1 .. n, NEW j \in 1 .. n, i < j PROVE <<s[i], s[j]>> \in R
  <2>1. s[i] # s[j] /\ s[i] \in S /\ s[j] \in S
    BY <1>6, <1>9
  <2>2. <<s[j], s[i]>> \notin R
    <3>1. ~(j < i)
      BY <1>1, <1>9
    <3> QED
      BY <1>3, <1>6, <2>1, <3>1
  <2> QED
    BY <2>1, <2>2
<1> QED
  BY <1>7, <1>8, <1>9

(* A list without repetition that is as long as the set holds all of it.     *)
LEMMA AllOfSetListed ==
  ASSUME NEW S, IsFiniteSet(S), NEW s \in SetToSeqs(S)
  PROVE  /\ Cardinality(S) \in Nat /\ Len(s) = Cardinality(S) /\ s \in Seq(S)
         /\ \A x \in S : \E i \in 1 .. Len(s) : s[i] = x
<1> DEFINE n == Cardinality(S)
<1>1. n \in Nat
  BY FS_CardinalityType
<1> HIDE DEF n
<1>2. s \in [1 .. n -> S] /\ \A i, j \in 1 .. n : i # j => s[i] # s[j]
  BY DEF SetToSeqs, n
<1>3. s \in Injection(1 .. n, S)
  BY <1>2 DEF Injection, IsInjective
<1>4. IsFiniteSet(1 .. n) /\ Cardinality(1 .. n) = n
  <2>1. IsFiniteSet(1 .. n) /\ Cardinality(1 .. n) = IF 1 > n THEN 0 ELSE n - 1 + 1
    BY <1>1, FS_Interval
  <2> QED
    BY <1>1, <2>1
<1>5. s \in Surjection(1 .. n, S)
  BY <1>3, <1>4, FS_Injection DEF n
<1>6. Len(s) = n /\ s \in Seq(S)
  BY <1>1, <1>2
<1> QED
  BY <1>1, <1>5, <1>6 DEF Surjection, n

(* Only the first rows are shown: what is left out comes after each of them. *)
LEMMA RowsLeftOut ==
  ASSUME NEW rep, NEW S, IsFiniteSet(S), rep.asked.limit \in Nat,
         NEW R,
         \A x, y \in S : <<x, y>> \in R <=> RowBefore(rep, x, y),
         \A x \in S : <<x, x>> \notin R,
         \A x, y \in S : x = y \/ <<x, y>> \in R \/ <<y, x>> \in R,
         \A x, y, z \in S : <<x, y>> \in R /\ <<y, z>> \in R => <<x, z>> \in R,
         NEW u \in S, u \notin ToSet(SortStatsRows(rep, S)), NEW v \in ToSet(SortStatsRows(rep, S))
  PROVE  v \in S /\ RowBefore(rep, v, u)
<1> DEFINE Sorted(s) == \A i, j \in DOMAIN s : i < j => RowBefore(rep, s[i], s[j])
           sorted == CHOOSE s \in SetToSeqs(S) : Sorted(s)
           shown == Min({rep.asked.limit, Len(sorted)})
<1>1. \E s \in SetToSeqs(S) : Sorted(s)
  <2>1. PICK s \in SetToSeqs(S) : \A i, j \in DOMAIN s : i < j => <<s[i], s[j]>> \in R
    BY SortedSeqExists
  <2>2. \A i \in DOMAIN s : s[i] \in S
    BY DEF SetToSeqs
  <2>3. Sorted(s)
    BY <2>1, <2>2
  <2> QED
    BY <2>3
<1>2. SortStatsRows(rep, S) = SubSeq(sorted, 1, shown)
  BY DEF SortStatsRows
<1>3. sorted \in SetToSeqs(S) /\ Sorted(sorted)
  BY <1>1
<1> HIDE DEF sorted
<1>4. Len(sorted) \in Nat /\ sorted \in Seq(S) /\ DOMAIN sorted = 1 .. Len(sorted)
      /\ \A x \in S : \E i \in 1 .. Len(sorted) : sorted[i] = x
  BY <1>3, AllOfSetListed
<1>5. shown \in Nat /\ shown <= Len(sorted)
  BY <1>4 DEF Min
<1> HIDE DEF shown
<1>6. Len(SubSeq(sorted, 1, shown)) = shown /\ SubSeq(sorted, 1, shown) \in Seq(S)
      /\ \A i \in 1 .. shown : SubSeq(sorted, 1, shown)[i] = sorted[i]
  BY <1>4, <1>5
<1>7. ToSet(SortStatsRows(rep, S)) = {sorted[i] : i \in 1 .. shown}
  BY <1>2, <1>6 DEF ToSet
<1>8. PICK i \in 1 .. shown : v = sorted[i]
  BY <1>7
<1>9. PICK j \in 1 .. Len(sorted) : u = sorted[j]
  BY <1>4
<1>10. j \notin 1 .. shown
  BY <1>7, <1>9
<1>11. i \in 1 .. Len(sorted) /\ i < j
  BY <1>4, <1>5, <1>8, <1>9, <1>10
<1>12. v \in S
  BY <1>4, <1>8, <1>11
<1> QED
  BY <1>3, <1>4, <1>8, <1>9, <1>11, <1>12

(* A user with a last event had one when the events were read. *)
LEMMA UserRowFits ==
  ASSUME HistoryInv, Made("user_stats"), NEW u \in IncludedUsers
  PROVE  LET row == UserRow(report, u) IN
         /\ row.count \in Nat /\ row.last \in Nat
         /\ (row.last = 0) = (row.count = 0) /\ row.count = Total(row.actions)
<1> DEFINE own == {e \in report.events : e.user = u}
           row == UserRow(report, u)
           actionOf == [e \in own |-> e.action]
           days == {e.day : e \in own}
<1>1. report # None /\ report.asked.kind = "user_stats" /\ report.next = "done" /\ own \in SUBSET report.events
  BY DEF Made
<1>2. IsFiniteSet(own) /\ Cardinality(own) \in Nat /\ (Cardinality(own) = 0 <=> own = {})
  <2> HIDE DEF own
  <2> QED
    BY <1>1, RowsReported, FS_Subset, FS_CardinalityType, FS_EmptySet
<1>3. /\ row.count = Cardinality(own) /\ row.actions = CountBy(actionOf)
      /\ row.last = IF own = {} THEN report.users[u].last ELSE Max(days)
  BY DEF UserRow
<1>4. report.users[u].last \in Nat /\ (report.users[u].last # 0 => own # {})
  <2>1. report.users \in [Users -> [status : {"ACTIVE", "DISABLED"}, last : 0 .. LastDay]]
    BY <1>1 DEF HistoryInv, ReportFits, UsersRead
  <2>2. report.users[u].last # 0 => \E e \in report.events : e.user = u
    BY <1>1 DEF HistoryInv, ReportFits, UsersRead
  <2>3. u \in Users
    BY DEF IncludedUsers
  <2> QED
    BY <2>1, <2>2, <2>3, HistoryAssumption
<1>5. Total(CountBy(actionOf)) = Cardinality(own)
  <2>1. actionOf = [e \in DOMAIN actionOf |-> actionOf[e]] /\ DOMAIN actionOf = own
    OBVIOUS
  <2> HIDE DEF actionOf, own
  <2> QED
    BY <1>2, <2>1, CountByAddsUp
<1>6. ASSUME own # {} PROVE Max(days) \in 1 .. LastDay
  <2>1. \A e \in own : e.day \in 1 .. LastDay
    BY <1>1, RowsReported
  <2>2. days \in SUBSET (1 .. LastDay) /\ days # {}
    BY <1>6, <2>1
  <2> HIDE DEF days
  <2> QED
    BY <2>2, LatestDay, HistoryAssumption
<1> HIDE DEF row, own, days, actionOf
<1>7. row.last \in Nat /\ (row.last = 0) = (row.count = 0)
  <2>1. CASE own = {}
    BY <1>2, <1>3, <1>4, <2>1
  <2>2. CASE own # {}
    <3>1. Max(days) \in Nat /\ Max(days) # 0
      BY <1>6, <2>2, HistoryAssumption
    <3> QED
      BY <1>2, <1>3, <2>2, <3>1
  <2> QED
    BY <2>1, <2>2
<1> QED
  BY <1>2, <1>3, <1>5, <1>7 DEF row

LEMMA UserRowsFit == HistoryInv => UserRowsAgree
<1> SUFFICES ASSUME HistoryInv, Made("user_stats") PROVE UserRowsAgree
  BY DEF UserRowsAgree
<1> DEFINE S == IncludedUsers
           R == {p \in S \X S : RowBefore(report, p[1], p[2])}
<1>1. S = {u \in Users : report.asked.disabled \/ report.users[u].status # "DISABLED"}
  BY DEF IncludedUsers
<1>2. S \in SUBSET Users /\ IsFiniteSet(S)
  <2>1. S \in SUBSET Users
    BY <1>1
  <2> HIDE DEF S
  <2> QED
    BY <2>1, FS_Subset, HistoryAssumption
<1>3. report.asked.limit \in Nat
  <2>1. report # None
    BY DEF Made
  <2>2. report.asked \in Reports
    BY <2>1, RowsReported DEF ReportRecord
  <2> QED
    BY <2>2, HistoryAssumption
<1> DEFINE row == [u \in S |-> UserRow(report, u)]
<1>4. \A u \in S : row[u] = UserRow(report, u)
  OBVIOUS
<1>5. ASSUME NEW u \in S
      PROVE  row[u].count \in Nat /\ row[u].last \in Nat /\ (row[u].last = 0) = (row[u].count = 0) /\ row[u].count = Total(row[u].actions)
  BY UserRowFits
<1>6. \A u, v \in S : RowBefore(report, u, v) <=>
        \/ row[u].count > row[v].count
        \/ row[u].count = row[v].count /\ row[u].last > row[v].last
        \/ row[u].count = row[v].count /\ row[u].last = row[v].last /\ Rank[u] < Rank[v]
  BY DEF RowBefore
<1>7. \A u, v \in S : <<u, v>> \in R <=> RowBefore(report, u, v)
  OBVIOUS
<1>8. \A u, v \in S : Rank[u] \in Nat /\ (Rank[u] = Rank[v] => u = v)
  BY <1>2, HistoryAssumption
<1> HIDE DEF S, R, row
<1>9. \A u \in S : <<u, u>> \notin R
  BY <1>5, <1>6, <1>7, <1>8
<1>10. \A u, v \in S : u = v \/ <<u, v>> \in R \/ <<v, u>> \in R
  <2> TAKE u, v \in S
  <2>1. /\ row[u].count \in Nat /\ row[v].count \in Nat /\ row[u].last \in Nat /\ row[v].last \in Nat
        /\ Rank[u] \in Nat /\ Rank[v] \in Nat /\ (Rank[u] = Rank[v] => u = v)
    BY <1>5, <1>8
  <2>2. u = v \/ RowBefore(report, u, v) \/ RowBefore(report, v, u)
    BY <1>6, <2>1
  <2> QED
    BY <1>7, <2>2
<1>11. \A u, v, w \in S : <<u, v>> \in R /\ <<v, w>> \in R => <<u, w>> \in R
  BY <1>5, <1>6, <1>7, <1>8
<1>12. ASSUME NEW u \in S, u \notin ToSet(SortStatsRows(report, S)), NEW v \in ToSet(SortStatsRows(report, S))
       PROVE  row[v].count >= row[u].count
  <2>1. v \in S /\ RowBefore(report, v, u)
    BY <1>2, <1>3, <1>7, <1>9, <1>10, <1>11, <1>12, RowsLeftOut
  <2> QED
    BY <1>5, <1>6, <2>1
<1>13. \A v \in ToSet(SortStatsRows(report, S)), u \in S :
         u \notin ToSet(SortStatsRows(report, S)) => UserRow(report, v).count >= UserRow(report, u).count
  <2> SUFFICES ASSUME NEW u \in S, u \notin ToSet(SortStatsRows(report, S)), NEW v \in ToSet(SortStatsRows(report, S))
               PROVE  UserRow(report, v).count >= UserRow(report, u).count
    OBVIOUS
  <2>1. v \in S
    BY <1>2, <1>3, <1>7, <1>9, <1>10, <1>11, RowsLeftOut
  <2> QED
    BY <1>4, <1>12, <2>1
<1> QED
  BY <1>1, <1>4, <1>5, <1>13 DEF UserRowsAgree

(* Whatever is committed between the queries of a report, its events are      *)
(* whole, its parts add up, the row of a user has a last event exactly if it *)
(* counts one, and the users shown are those with most events.               *)
THEOREM ReportsAlwaysAgree == HistorySpec => []ReportsAgree
<1>1. HistoryInv => ReportsAddUp
  BY StatsAddUp, OverviewAddsUp DEF ReportsAddUp
<1>2. HistoryInv => UserRowsAgree
  BY UserRowsFit
<1> QED
  BY <1>1, <1>2, HistoryKept, ReportsCountWholeEvents, PTL DEF ReportsAgree
===============================================================================
