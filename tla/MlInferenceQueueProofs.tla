------------------------ MODULE MlInferenceQueueProofs ------------------------
(***************************************************************************)
(* MlInferenceQueue for any number of calls, threads and queue places.     *)
(*                                                                         *)
(* The semaphore counts the jobs that hold a slot and _reserved_count the  *)
(* jobs whose release is not complete.  What makes the counts inductive is *)
(* the life of one job: which future and which callback go with which      *)
(* phase of its caller, so that the callback runs once and never for a job *)
(* that is still queued or running.                                        *)
(***************************************************************************)
EXTENDS MlInferenceQueue, FiniteSetTheorems, TLAPS

USE JobsAssumption, SizeAssumption

(* The life of one job. *)
Life(j) ==
  /\ phase[j] \in {"new", "acquired", "recorded"} => future[j] = "none" /\ callback[j] = "none"
  /\ phase[j] = "returned" <=> outcome[j] # "none"
  /\ outcome[j] = "rejected" => future[j] = "none" /\ callback[j] = "none"
  /\ phase[j] = "refused" => future[j] = "none" /\ callback[j] # "none"
  /\ phase[j] = "submitted" => future[j] # "none" /\ callback[j] = "none"
  /\ phase[j] \in {"inline", "waiting", "expired", "cancelling", "given up"} => future[j] # "none" /\ callback[j] # "none"
  /\ callback[j] \in {"due", "slot released", "done"} => future[j] \notin {"pending", "running"}

Lives == \A j \in Jobs : Life(j)

(* A job is in the work queue once, and has not been run. *)
WorkPending == /\ \A i \in 1..Len(work) : future[work[i]] \in {"pending", "cancelled"}
               /\ \A i, k \in 1..Len(work) : work[i] = work[k] => i = k

Holders == {j \in Jobs : HoldsSlot(j)}
Counted == {j \in Jobs : IsCounted(j)}
Undecided == {j \in Jobs : phase[j] \notin {"new", "acquired"} /\ outcome[j] = "none"}
HalfReleased == {j \in Jobs : callback[j] = "slot released"}

Counts == /\ free + Cardinality(Holders) = CapacityLimit
          /\ reserved = Cardinality(Counted)
          /\ totals.submitted = totals.succeeded + totals.timeout + totals.failed + Cardinality(Undecided)

IndInv == TypeOK /\ Lives /\ WorkPending /\ Counts

LEMMA CountsFinite ==
  /\ IsFiniteSet(Holders) /\ Cardinality(Holders) \in Nat
  /\ IsFiniteSet(Counted) /\ Cardinality(Counted) \in Nat
  /\ IsFiniteSet(Undecided) /\ Cardinality(Undecided) \in Nat
  /\ IsFiniteSet(HalfReleased) /\ Cardinality(HalfReleased) \in Nat
BY FS_Subset, FS_CardinalityType DEF Holders, Counted, Undecided, HalfReleased

LEMMA CapacityNat == CapacityLimit \in Nat
BY DEF CapacityLimit

Phases == {"new", "acquired", "recorded", "refused", "submitted", "inline", "waiting",
           "expired", "cancelling", "given up", "returned"}
Outcomes == {"none", "rejected", "succeeded", "timeout", "failed"}
Futures == {"none", "pending", "running", "value", "error", "cancelled"}
Callbacks == {"none", "armed", "due", "slot released", "done"}
Totals == [{"submitted", "succeeded", "timeout", "failed", "limit"} -> Nat]

LEMMA Types == TypeOK <=>
  /\ phase \in [Jobs -> Phases] /\ outcome \in [Jobs -> Outcomes]
  /\ future \in [Jobs -> Futures] /\ callback \in [Jobs -> Callbacks]
  /\ free \in 0..CapacityLimit /\ reserved \in Nat /\ totals \in Totals
  /\ work \in Seq(Jobs) /\ threads \subseteq Jobs /\ closed \in BOOLEAN
BY DEF TypeOK, Phases, Outcomes, Futures, Callbacks, Totals

LEMMA InvInit == Init => IndInv
<1> SUFFICES ASSUME Init PROVE IndInv
  OBVIOUS
<1>1. Holders = {} /\ Counted = {} /\ Undecided = {}
  BY DEF Init, Holders, Counted, Undecided, HoldsSlot, IsCounted
<1>2. Cardinality(Holders) = 0 /\ Cardinality(Counted) = 0 /\ Cardinality(Undecided) = 0
  BY <1>1, FS_EmptySet
<1>3. TypeOK
  <2>1. free \in 0..CapacityLimit
    BY CapacityNat DEF Init
  <2>2. totals \in Totals
    BY DEF Init, Totals
  <2>3. work \in Seq(Jobs) /\ threads \subseteq Jobs
    BY DEF Init
  <2> QED
    BY <2>1, <2>2, <2>3, Types DEF Init, Phases, Outcomes, Futures, Callbacks
<1>4. Lives /\ WorkPending
  BY DEF Init, Lives, Life, WorkPending
<1>5. Counts
  BY <1>2, CapacityNat DEF Init, Counts
<1> QED
  BY <1>3, <1>4, <1>5 DEF IndInv

-------------------------------------------------------------------------------
(* How one step of one job moves the counts. *)

(* A step that counts nothing. *)
LEMMA CountsKept ==
  ASSUME IndInv, UNCHANGED <<free, reserved, totals, outcome>>,
         Holders' = Holders, Counted' = Counted, Undecided' = Undecided
  PROVE  Counts' /\ free' \in 0..CapacityLimit /\ reserved' \in Nat /\ totals' \in Totals
BY Types DEF IndInv, Counts

(* A caller is told its outcome: it leaves Undecided for one of the totals. *)
LEMMA CountsDecided ==
  ASSUME IndInv, NEW j \in Jobs, NEW field \in {"succeeded", "timeout", "failed"}, Count(field),
         phase[j] \notin {"new", "acquired", "returned"}, phase' = [phase EXCEPT ![j] = "returned"],
         outcome' = [outcome EXCEPT ![j] = field], UNCHANGED <<future, callback, free, reserved, work, threads, closed>>
  PROVE  IndInv'
<1>1. /\ phase \in [Jobs -> Phases] /\ outcome \in [Jobs -> Outcomes]
      /\ totals \in Totals /\ free \in 0..CapacityLimit /\ Life(j) /\ Counts /\ Lives /\ WorkPending
  BY Types DEF IndInv, Lives
<1>2. outcome[j] = "none"
  BY <1>1 DEF Life
<1>3. /\ Holders' = Holders /\ Counted' = Counted
      /\ Undecided = Undecided' \union {j} /\ j \notin Undecided'
  BY <1>1, <1>2 DEF Holders, Counted, Undecided, HoldsSlot, IsCounted
<1>4. Cardinality(Undecided) = Cardinality(Undecided') + 1 /\ Cardinality(Undecided') \in Nat
  BY <1>3, CountsFinite, FS_Subset, FS_AddElement, FS_CardinalityType
<1>5. Counts'
  BY <1>1, <1>3, <1>4 DEF Count, Counts, Totals, CapacityLimit
<1>6. TypeOK'
  <2>1. totals' \in Totals
    BY <1>1 DEF Count, Totals
  <2>2. phase' \in [Jobs -> Phases] /\ outcome' \in [Jobs -> Outcomes]
    BY <1>1 DEF Phases, Outcomes
  <2>3. CapacityLimit' = CapacityLimit
    BY DEF CapacityLimit
  <2> QED
    BY <1>1, <2>1, <2>2, <2>3, Types DEF IndInv, TypeOK, Phases, Outcomes, Totals
<1>7. Lives'
  BY <1>1, <1>2 DEF Lives, Life, Phases
<1>8. WorkPending'
  BY <1>1 DEF WorkPending
<1> QED
  BY <1>5, <1>6, <1>7, <1>8 DEF IndInv

(* One caller moves, nothing is counted. *)
LEMMA LifeMoves ==
  ASSUME IndInv, NEW j \in Jobs, NEW p \in Phases, NEW f \in Futures, NEW c \in Callbacks,
         phase' = [phase EXCEPT ![j] = p], future' = [future EXCEPT ![j] = f],
         callback' = [callback EXCEPT ![j] = c],
         UNCHANGED <<outcome, free, reserved, totals, closed>>,
         work' \in Seq(Jobs), threads' \subseteq Jobs, WorkPending',
         phase[j] \in Phases \ {"new", "acquired"}, p \in Phases \ {"new", "acquired"}, outcome[j] # "rejected",
         c \in {"slot released", "done"} <=> callback[j] \in {"slot released", "done"},
         c = "done" <=> callback[j] = "done",
         Life(j)'
  PROVE  IndInv'
<1>1. /\ phase \in [Jobs -> Phases] /\ future \in [Jobs -> Futures] /\ callback \in [Jobs -> Callbacks]
      /\ outcome \in [Jobs -> Outcomes] /\ Lives
  BY Types DEF IndInv
<1>2. Holders' = Holders /\ Counted' = Counted /\ Undecided' = Undecided
  BY <1>1 DEF Holders, Counted, Undecided, HoldsSlot, IsCounted, Callbacks
<1>3. Counts' /\ free' \in 0..CapacityLimit /\ reserved' \in Nat /\ totals' \in Totals
  BY <1>2, CountsKept
<1>4. TypeOK'
  BY <1>1, <1>3, Types DEF IndInv, TypeOK, Phases, Outcomes, Futures, Callbacks, Totals, CapacityLimit
<1>5. \A k \in Jobs \ {j} : Life(k)'
  BY <1>1 DEF Lives, Life
<1> QED
  BY <1>3, <1>4, <1>5 DEF IndInv, Lives
-------------------------------------------------------------------------------
(* The steps. *)

(* Admission: the slot is taken, or refused, or counted. *)
LEMMA StepAdmission ==
  ASSUME IndInv, NEW j \in Jobs, Acquire(j) \/ LimitExceeded(j) \/ RecordSubmitted(j)
  PROVE  IndInv'
<1>1. /\ phase \in [Jobs -> Phases] /\ outcome \in [Jobs -> Outcomes]
      /\ future \in [Jobs -> Futures] /\ callback \in [Jobs -> Callbacks]
      /\ totals \in Totals /\ free \in 0..CapacityLimit /\ reserved \in Nat
      /\ Life(j) /\ Lives /\ WorkPending /\ Counts
  BY Types DEF IndInv, Lives
<1>2. CapacityLimit' = CapacityLimit /\ CapacityLimit \in Nat
  BY CapacityNat DEF CapacityLimit
<1>3. CASE Acquire(j)
  <2>1. /\ Holders' = Holders \union {j} /\ j \notin Holders
        /\ Counted' = Counted /\ Undecided' = Undecided
    BY <1>1, <1>3 DEF Acquire, At, Life, Holders, Counted, Undecided, HoldsSlot, IsCounted
  <2>2. Cardinality(Holders') = Cardinality(Holders) + 1
    BY <2>1, CountsFinite, FS_AddElement, FS_CardinalityType
  <2>3. Counts' /\ free' \in 0..CapacityLimit
    BY <1>1, <1>2, <1>3, <2>1, <2>2, CountsFinite DEF Acquire, Counts
  <2>4. phase' \in [Jobs -> Phases]
    BY <1>1, <1>3 DEF Acquire, At, Phases
  <2>5. TypeOK'
    BY <1>2, <1>3, <2>3, <2>4, Types DEF Acquire, IndInv, TypeOK, Phases
  <2>6. Lives' /\ WorkPending'
    <3>1. Lives'
      BY <1>1, <1>3 DEF Acquire, At, Lives, Life
    <3>2. WorkPending'
      BY <1>1, <1>3 DEF Acquire, WorkPending
    <3> QED
      BY <3>1, <3>2
  <2> QED
    BY <2>3, <2>5, <2>6 DEF IndInv
<1>4. CASE LimitExceeded(j)
  <2>1. Holders' = Holders /\ Counted' = Counted /\ Undecided' = Undecided
    BY <1>1, <1>4 DEF LimitExceeded, At, Life, Holders, Counted, Undecided, HoldsSlot, IsCounted
  <2>2. /\ totals' \in Totals
        /\ totals'.submitted = totals.submitted /\ totals'.succeeded = totals.succeeded
        /\ totals'.timeout = totals.timeout /\ totals'.failed = totals.failed
    BY <1>1, <1>4 DEF LimitExceeded, Count, Totals
  <2>3. Counts'
    BY <1>1, <1>2, <1>4, <2>1, <2>2 DEF LimitExceeded, Counts
  <2>4. phase' \in [Jobs -> Phases] /\ outcome' \in [Jobs -> Outcomes]
    BY <1>1, <1>4 DEF LimitExceeded, At, Phases, Outcomes
  <2>5. TypeOK'
    BY <1>1, <1>2, <1>4, <2>2, <2>4, Types DEF LimitExceeded, IndInv, TypeOK, Phases, Outcomes, Totals
  <2>6. Lives' /\ WorkPending'
    <3>1. Lives'
      BY <1>1, <1>4 DEF LimitExceeded, At, Lives, Life
    <3>2. WorkPending'
      BY <1>1, <1>4 DEF LimitExceeded, WorkPending
    <3> QED
      BY <3>1, <3>2
  <2> QED
    BY <2>3, <2>5, <2>6 DEF IndInv
<1>5. CASE RecordSubmitted(j)
  <2>1. /\ Holders' = Holders
        /\ Counted' = Counted \union {j} /\ j \notin Counted
        /\ Undecided' = Undecided \union {j} /\ j \notin Undecided
    BY <1>1, <1>5 DEF RecordSubmitted, At, Life, Holders, Counted, Undecided, HoldsSlot, IsCounted
  <2>2. /\ Cardinality(Counted') = Cardinality(Counted) + 1
        /\ Cardinality(Undecided') = Cardinality(Undecided) + 1
    BY <2>1, CountsFinite, FS_AddElement, FS_CardinalityType
  <2>3. totals' \in Totals
    BY <1>1, <1>5 DEF RecordSubmitted, Count, Totals
  <2>4. Counts' /\ reserved' \in Nat
    BY <1>1, <1>2, <1>5, <2>1, <2>2, CountsFinite DEF RecordSubmitted, Count, Counts, Totals
  <2>5. phase' \in [Jobs -> Phases]
    BY <1>1, <1>5 DEF RecordSubmitted, At, Phases
  <2>6. TypeOK'
    BY <1>1, <1>2, <1>5, <2>3, <2>4, <2>5, Types DEF RecordSubmitted, IndInv, TypeOK, Phases, Totals
  <2>7. Lives' /\ WorkPending'
    <3>1. Lives'
      BY <1>1, <1>5 DEF RecordSubmitted, At, Lives, Life
    <3>2. WorkPending'
      BY <1>1, <1>5 DEF RecordSubmitted, WorkPending
    <3> QED
      BY <3>1, <3>2
  <2> QED
    BY <2>4, <2>6, <2>7 DEF IndInv
<1> QED
  BY <1>3, <1>4, <1>5

(* A caller goes on; its callback is armed or becomes due. *)
LEMMA StepCaller ==
  ASSUME IndInv, NEW j \in Jobs, Call(j)
  PROVE  IndInv'
<1>1. /\ phase \in [Jobs -> Phases] /\ outcome \in [Jobs -> Outcomes]
      /\ future \in [Jobs -> Futures] /\ callback \in [Jobs -> Callbacks]
      /\ work \in Seq(Jobs) /\ threads \subseteq Jobs
      /\ Life(j) /\ WorkPending
  BY Types DEF IndInv, Lives
<1>2. /\ callback = [callback EXCEPT ![j] = callback[j]] /\ callback[j] \in Callbacks
      /\ future = [future EXCEPT ![j] = future[j]] /\ future[j] \in Futures
      /\ phase[j] \in Phases
  BY <1>1
<1>3. UNCHANGED <<work, future>> => WorkPending'
  BY <1>1 DEF WorkPending
<1>4. CASE Submit(j)
  <2>1. phase[j] = "recorded" /\ outcome[j] = "none" /\ future[j] = "none"
    BY <1>1, <1>4 DEF Submit, At, Life
  <2>2. work' = Append(work, j) /\ work' \in Seq(Jobs)
    BY <1>1, <1>4 DEF Submit
  <2>3. \A i \in 1..Len(work) : work[i] # j
    BY <1>1, <2>1 DEF WorkPending
  <2>4. /\ Len(work') = Len(work) + 1 /\ Len(work) \in Nat /\ work'[Len(work) + 1] = j
        /\ \A i \in 1..Len(work) : work'[i] = work[i] /\ work[i] \in Jobs
    BY <1>1, <2>2
  <2>5. WorkPending'
    <3>1. \A i \in 1..Len(work') : future'[work'[i]] \in {"pending", "cancelled"}
      BY <1>1, <1>4, <2>3, <2>4 DEF Submit, WorkPending
    <3>2. \A i, k \in 1..Len(work') : work'[i] = work'[k] => i = k
      BY <1>1, <2>3, <2>4 DEF WorkPending
    <3> QED
      BY <3>1, <3>2 DEF WorkPending
  <2>6. Life(j)'
    BY <1>1, <1>4, <2>1 DEF Submit, At, Life
  <2> QED
    BY <1>1, <1>2, <1>4, <2>1, <2>2, <2>5, <2>6, LifeMoves DEF Submit, At, Phases, Futures
<1>5. CASE SubmitRefused(j)
  <2>1. outcome[j] = "none" /\ Life(j)'
    BY <1>1, <1>5 DEF SubmitRefused, At, Life
  <2>2. callback[j] = "none"
    BY <1>1, <1>5 DEF SubmitRefused, At, Life
  <2> QED
    BY <1>1, <1>2, <1>3, <1>5, <2>1, <2>2, LifeMoves DEF SubmitRefused, At, Phases, Callbacks
<1>6. CASE AddCallback(j) \/ CallbackInline(j)
  <2>1. callback[j] = "none" /\ outcome[j] = "none" /\ Life(j)'
    BY <1>1, <1>6 DEF AddCallback, CallbackInline, FutureDone, At, Life
  <2>2. PICK c \in {"armed", "due"}, p \in {"waiting", "inline"} :
          /\ phase' = [phase EXCEPT ![j] = p] /\ callback' = [callback EXCEPT ![j] = c]
          /\ phase[j] = "submitted"
          /\ UNCHANGED <<outcome, future, free, reserved, totals, work, threads, closed>>
    BY <1>6 DEF AddCallback, CallbackInline, At
  <2> QED
    BY <1>1, <1>2, <1>3, <2>1, <2>2, LifeMoves DEF Phases, Callbacks
<1>7. CASE InlineDone(j) \/ TimerFires(j) \/ CancelTooLate(j)
  <2>1. outcome[j] = "none" /\ Life(j)'
    BY <1>1, <1>7 DEF InlineDone, TimerFires, CancelTooLate, At, Life
  <2>2. PICK p \in {"waiting", "expired", "given up"} :
          /\ phase' = [phase EXCEPT ![j] = p] /\ phase[j] \notin {"new", "acquired"}
          /\ UNCHANGED <<outcome, future, callback, free, reserved, totals, work, threads, closed>>
    BY <1>7 DEF InlineDone, TimerFires, CancelTooLate, At
  <2> QED
    BY <1>1, <1>2, <1>3, <2>1, <2>2, LifeMoves DEF Phases
<1>8. CASE CancelPending(j)
  <2>1. /\ outcome[j] = "none" /\ phase[j] = "expired" /\ future[j] = "pending"
        /\ callback[j] \notin {"none", "due", "slot released", "done"}
    BY <1>1, <1>8 DEF CancelPending, At, Life
  <2>2. callback[j] = "armed" /\ callback' = [callback EXCEPT ![j] = "due"]
    BY <1>1, <1>8, <2>1 DEF CancelPending, Invoked, Callbacks
  <2>3. Life(j)'
    BY <1>1, <1>8, <2>1, <2>2 DEF CancelPending, At, Life
  <2>4. WorkPending'
    BY <1>1, <1>8 DEF CancelPending, WorkPending
  <2> QED
    BY <1>1, <1>8, <2>1, <2>2, <2>3, <2>4, LifeMoves DEF CancelPending, At, Phases, Futures, Callbacks
<1>9. CASE RefusedFails(j) \/ GotException(j)
  BY <1>9, CountsDecided DEF RefusedFails, GotException, At
<1>10. CASE GotValue(j)
  BY <1>10, CountsDecided DEF GotValue, At
<1>11. CASE RecordTimeout(j)
  BY <1>11, CountsDecided DEF RecordTimeout, At
<1> QED
  BY <1>4, <1>5, <1>6, <1>7, <1>8, <1>9, <1>10, <1>11, StepAdmission DEF Call
(* The two halves of a release. *)
LEMMA StepCallback ==
  ASSUME IndInv, NEW j \in Jobs, Callback(j)
  PROVE  IndInv'
<1>1. /\ phase \in [Jobs -> Phases] /\ outcome \in [Jobs -> Outcomes]
      /\ future \in [Jobs -> Futures] /\ callback \in [Jobs -> Callbacks]
      /\ totals \in Totals /\ free \in 0..CapacityLimit /\ reserved \in Nat
      /\ Life(j) /\ Lives /\ WorkPending /\ Counts
  BY Types DEF IndInv, Lives
<1>2. CapacityLimit' = CapacityLimit /\ CapacityLimit \in Nat
  BY CapacityNat DEF CapacityLimit
<1>3. callback[j] # "none" => phase[j] \notin {"new", "acquired", "recorded"} /\ outcome[j] # "rejected"
  BY <1>1 DEF Life
<1>4. CASE ReleaseSlot(j)
  <2>1. /\ Holders = Holders' \union {j} /\ j \notin Holders'
        /\ Counted' = Counted /\ Undecided' = Undecided
    BY <1>1, <1>3, <1>4 DEF ReleaseSlot, Holders, Counted, Undecided, HoldsSlot, IsCounted
  <2>2. Cardinality(Holders) = Cardinality(Holders') + 1 /\ Cardinality(Holders') \in Nat
    BY <2>1, CountsFinite, FS_Subset, FS_AddElement, FS_CardinalityType
  <2>3. Counts' /\ free' \in 0..CapacityLimit
    <3>1. free' = free + 1 /\ UNCHANGED <<reserved, totals>>
      BY <1>4 DEF ReleaseSlot
    <3> QED
      BY <1>1, <1>2, <2>1, <2>2, <3>1 DEF Counts
  <2>4. callback' \in [Jobs -> Callbacks]
    BY <1>1, <1>4 DEF ReleaseSlot, Callbacks
  <2>5. TypeOK'
    BY <1>2, <1>4, <2>3, <2>4, Types DEF ReleaseSlot, IndInv, TypeOK, Callbacks
  <2>6. Lives'
    BY <1>1, <1>3, <1>4 DEF ReleaseSlot, Lives, Life
  <2>7. WorkPending'
    BY <1>1, <1>4 DEF ReleaseSlot, WorkPending
  <2> QED
    BY <2>3, <2>5, <2>6, <2>7 DEF IndInv
<1>5. CASE UncountSlot(j)
  <2>1. /\ Counted = Counted' \union {j} /\ j \notin Counted'
        /\ Holders' = Holders /\ Undecided' = Undecided
    BY <1>1, <1>3, <1>5 DEF UncountSlot, Holders, Counted, Undecided, HoldsSlot, IsCounted
  <2>2. Cardinality(Counted) = Cardinality(Counted') + 1 /\ Cardinality(Counted') \in Nat
    BY <2>1, CountsFinite, FS_Subset, FS_AddElement, FS_CardinalityType
  <2>3. Counts' /\ reserved' \in Nat
    <3>1. reserved > 0
      BY <1>1, <2>2 DEF Counts
    <3>2. reserved' = reserved - 1 /\ UNCHANGED <<free, totals>>
      BY <1>5, <3>1 DEF UncountSlot
    <3>3. reserved' = Cardinality(Counted') /\ reserved' \in Nat
      BY <1>1, <2>2, <3>2 DEF Counts
    <3>4. Cardinality(Holders') = Cardinality(Holders) /\ Cardinality(Undecided') = Cardinality(Undecided)
      BY <2>1
    <3> QED
      BY <1>1, <1>2, <3>2, <3>3, <3>4 DEF Counts
  <2>4. callback' \in [Jobs -> Callbacks] /\ threads' \subseteq Jobs
    BY <1>1, <1>5, Types DEF UncountSlot, Callbacks, IndInv
  <2>5. TypeOK'
    BY <1>2, <1>5, <2>3, <2>4, Types DEF UncountSlot, IndInv, TypeOK, Callbacks
  <2>6. Lives'
    BY <1>1, <1>3, <1>5 DEF UncountSlot, Lives, Life
  <2>7. WorkPending'
    BY <1>1, <1>5 DEF UncountSlot, WorkPending
  <2> QED
    BY <2>3, <2>5, <2>6, <2>7 DEF IndInv
<1> QED
  BY <1>4, <1>5 DEF Callback

(* The pool: a job is run once, from the head of the work queue. *)
LEMMA StepPool ==
  ASSUME IndInv, Take \/ \E j \in Jobs : Finish(j)
  PROVE  IndInv'
<1>1. /\ phase \in [Jobs -> Phases] /\ outcome \in [Jobs -> Outcomes]
      /\ future \in [Jobs -> Futures] /\ callback \in [Jobs -> Callbacks]
      /\ work \in Seq(Jobs) /\ threads \subseteq Jobs /\ Lives /\ WorkPending
  BY Types DEF IndInv
<1>2. CASE Take
  <2>1. /\ Len(work) \in Nat \ {0} /\ Head(work) = work[1] /\ Head(work) \in Jobs
        /\ Tail(work) \in Seq(Jobs) /\ Len(Tail(work)) = Len(work) - 1 /\ work' = Tail(work)
        /\ \A i \in 1..Len(Tail(work)) : Tail(work)[i] = work[i + 1] /\ i + 1 \in 1..Len(work)
    BY <1>1, <1>2 DEF Take
  <2>2. future[Head(work)] \in {"pending", "cancelled"}
    BY <1>1, <2>1 DEF WorkPending
  <2>3. \A i \in 1..Len(Tail(work)) : Tail(work)[i] # Head(work) /\ Tail(work)[i] \in Jobs
    BY <1>1, <2>1 DEF WorkPending
  <2>4. \A i, k \in 1..Len(work') : work'[i] = work'[k] => i = k
    BY <1>1, <2>1 DEF WorkPending
  <2>5. CASE future[Head(work)] = "cancelled"
    <3>1. UNCHANGED <<phase, outcome, future, callback, free, reserved, totals, threads, closed>>
      BY <1>2, <2>5 DEF Take
    <3>2. WorkPending'
      BY <1>1, <2>1, <2>4, <3>1 DEF WorkPending
    <3>3. Holders' = Holders /\ Counted' = Counted /\ Undecided' = Undecided
      BY <3>1 DEF Holders, Counted, Undecided, HoldsSlot, IsCounted
    <3>4. Counts'
      BY <3>1, <3>3, CountsKept
    <3>5. TypeOK' /\ Lives'
      BY <1>1, <2>1, <3>1, Types DEF IndInv, TypeOK, Lives, Life, CapacityLimit
    <3> QED
      BY <3>2, <3>4, <3>5 DEF IndInv
  <2>6. CASE future[Head(work)] # "cancelled"
    <3> PICK j \in Jobs : j = Head(work)
      BY <2>1
    <3>1. /\ future[j] = "pending"
          /\ future' = [future EXCEPT ![j] = "running"] /\ threads' = threads \union {j}
          /\ UNCHANGED <<phase, outcome, callback, free, reserved, totals, closed>>
      BY <1>2, <2>1, <2>2, <2>6 DEF Take
    <3>2. Life(j) /\ phase[j] \notin {"new", "acquired", "recorded"} /\ outcome[j] # "rejected"
      BY <1>1, <3>1 DEF Lives, Life
    <3>3. Life(j)'
      BY <1>1, <3>1, <3>2 DEF Life
    <3>4. \A i \in 1..Len(work') : work'[i] # j /\ work'[i] \in Jobs /\ future[work'[i]] \in {"pending", "cancelled"}
      BY <1>1, <2>1, <2>3 DEF WorkPending
    <3>5. WorkPending'
      BY <1>1, <2>4, <3>1, <3>4 DEF WorkPending
    <3>6. /\ phase' = [phase EXCEPT ![j] = phase[j]] /\ phase[j] \in Phases
          /\ callback' = [callback EXCEPT ![j] = callback[j]] /\ callback[j] \in Callbacks
          /\ work' \in Seq(Jobs) /\ threads' \subseteq Jobs
      BY <1>1, <2>1, <3>1
    <3> QED
      BY <3>1, <3>2, <3>3, <3>5, <3>6, LifeMoves DEF Futures
  <2> QED
    BY <2>5, <2>6
<1>3. ASSUME NEW j \in Jobs, Finish(j) PROVE IndInv'
  <2>1. /\ future[j] = "running" /\ Life(j)
        /\ phase[j] \notin {"new", "acquired", "recorded"} /\ outcome[j] # "rejected"
        /\ callback[j] \in {"none", "armed"}
    BY <1>1, <1>3 DEF Finish, Lives, Life, Callbacks
  <2>2. PICK end \in {"value", "error"} : future' = [future EXCEPT ![j] = end]
    BY <1>3 DEF Finish
  <2>3. PICK c \in {"none", "due"} : callback' = [callback EXCEPT ![j] = c] /\ (c = "none" <=> callback[j] = "none")
    BY <1>1, <1>3, <2>1 DEF Finish, Invoked
  <2>4. /\ UNCHANGED <<phase, outcome, free, reserved, totals, work, closed>>
        /\ phase' = [phase EXCEPT ![j] = phase[j]] /\ phase[j] \in Phases
        /\ threads' \subseteq Jobs
    BY <1>1, <1>3 DEF Finish
  <2>5. Life(j)'
    BY <1>1, <2>1, <2>2, <2>3, <2>4 DEF Life
  <2>6. WorkPending'
    BY <1>1, <2>1, <2>2, <2>4 DEF WorkPending
  <2> QED
    BY <1>1, <2>1, <2>2, <2>3, <2>4, <2>5, <2>6, LifeMoves DEF Futures, Callbacks
<1> QED
  BY <1>2, <1>3

(* shutdown(): every pending job is cancelled and its callback invoked. *)
LEMMA StepShutdown ==
  ASSUME IndInv, Shutdown
  PROVE  IndInv'
<1>1. /\ phase \in [Jobs -> Phases] /\ outcome \in [Jobs -> Outcomes]
      /\ future \in [Jobs -> Futures] /\ callback \in [Jobs -> Callbacks] /\ Lives
  BY Types DEF IndInv
<1>2. /\ UNCHANGED <<phase, outcome, free, reserved, totals, threads>>
      /\ work' = <<>> /\ Len(work') = 0 /\ closed' = TRUE
      /\ \A j \in Jobs : future[j] = "pending" => future'[j] = "cancelled" /\ callback'[j] = Invoked(callback[j])
      /\ \A j \in Jobs : future[j] # "pending" => future'[j] = future[j] /\ callback'[j] = callback[j]
  BY <1>1 DEF Shutdown
<1>3. \A j \in Jobs : /\ Life(j)
                      /\ future[j] = "pending" => callback[j] \in {"none", "armed"} /\ callback'[j] \in {"none", "due"}
                                                 /\ (callback'[j] = "none" <=> callback[j] = "none")
  BY <1>1, <1>2 DEF Lives, Life, Invoked, Callbacks
<1>4. Lives'
  BY <1>1, <1>2, <1>3 DEF Lives, Life
<1>5. Holders' = Holders /\ Counted' = Counted /\ Undecided' = Undecided
  BY <1>1, <1>2, <1>3 DEF Holders, Counted, Undecided, HoldsSlot, IsCounted, Callbacks
<1>6. Counts'
  BY <1>2, <1>5, CountsKept
<1>7. WorkPending'
  BY <1>2 DEF WorkPending
<1>8. future' \in [Jobs -> Futures] /\ callback' \in [Jobs -> Callbacks]
  BY <1>1 DEF Shutdown, Invoked, Futures, Callbacks
<1>9. TypeOK'
  <2>1. work' \in Seq(Jobs) /\ CapacityLimit' = CapacityLimit
    BY <1>2 DEF CapacityLimit
  <2> QED
    BY <1>2, <1>8, <2>1, Types DEF IndInv, TypeOK, Futures, Callbacks
<1> QED
  BY <1>4, <1>6, <1>7, <1>9 DEF IndInv

LEMMA InvStep == IndInv /\ [Next]_vars => IndInv'
<1> SUFFICES ASSUME IndInv, [Next]_vars PROVE IndInv'
  OBVIOUS
<1>1. CASE \E j \in Jobs : Call(j) \/ Callback(j) \/ Finish(j)
  BY <1>1, StepCaller, StepCallback, StepPool
<1>2. CASE Take \/ Shutdown
  BY <1>2, StepPool, StepShutdown
<1>3. CASE UNCHANGED vars
  <2>1. Holders' = Holders /\ Counted' = Counted /\ Undecided' = Undecided
    BY <1>3 DEF vars, Holders, Counted, Undecided, HoldsSlot, IsCounted
  <2>2. Counts'
    BY <1>3, <2>1, CountsKept DEF vars
  <2>3. TypeOK'
    BY <1>3 DEF vars, IndInv, TypeOK, CapacityLimit
  <2>4. Lives' /\ WorkPending'
    BY <1>3 DEF vars, IndInv, Lives, Life, WorkPending
  <2> QED
    BY <2>2, <2>3, <2>4 DEF IndInv
<1> QED
  BY <1>1, <1>2, <1>3 DEF Next

(* In every reachable state the semaphore and the counters agree with the   *)
(* lives of the jobs.                                                       *)
THEOREM Invariant == Spec => []IndInv
BY InvInit, InvStep, PTL DEF Spec
-------------------------------------------------------------------------------
(* What the runs check, from the invariant. *)

(* Every variable keeps its type; the semaphore, a BoundedSemaphore, is     *)
(* never released above its initial value.                                  *)
THEOREM TypeCorrect == Spec => []TypeOK
<1>1. IndInv => TypeOK
  BY DEF IndInv
<1> QED
  BY <1>1, Invariant, PTL

(* However many callers gave up, the operations in the pool never outnumber *)
(* the slots that are taken.                                                *)
THEOREM OperationsStayBounded == Spec => []OperationsBounded
<1>1. ASSUME IndInv PROVE OperationsBounded
  <2> DEFINE Live == {j \in Jobs : future[j] \in {"pending", "running"}}
  <2>1. Live \subseteq Holders
    <3> SUFFICES ASSUME NEW j \in Jobs, future[j] \in {"pending", "running"} PROVE HoldsSlot(j)
      BY DEF Holders
    <3>1. Life(j) /\ callback[j] \in Callbacks
      BY <1>1, Types DEF IndInv, Lives
    <3> QED
      BY <3>1 DEF Life, HoldsSlot, Callbacks
  <2>2. Cardinality(Live) \in Nat /\ Cardinality(Live) <= Cardinality(Holders)
    BY <2>1, CountsFinite, FS_Subset, FS_CardinalityType
  <2>3. free \in Nat /\ CapacityLimit - free = Cardinality(Holders)
    BY <1>1, Types, CountsFinite, CapacityNat DEF IndInv, Counts
  <2> QED
    BY <2>2, <2>3, CountsFinite, CapacityNat DEF OperationsBounded
<1> QED
  BY <1>1, Invariant, PTL

(* in_flight_or_queued is exact, and exceeds the slots in use by no more    *)
(* than the releases that are half done.                                    *)
THEOREM ReservedCorrect == Spec => []ReservedExact
<1>1. IndInv => ReservedExact
  <2> SUFFICES ASSUME IndInv PROVE ReservedExact
    OBVIOUS
  <2>1. callback \in [Jobs -> Callbacks] /\ free \in 0..CapacityLimit /\ Counts
    BY Types DEF IndInv
  <2>2. Counted \subseteq Holders \union HalfReleased
    BY <2>1 DEF IndInv, Lives, Life, Counted, Holders, HalfReleased, IsCounted, HoldsSlot, Callbacks
  <2>3. /\ IsFiniteSet(Holders \union HalfReleased)
        /\ Cardinality(Holders \union HalfReleased)
             = Cardinality(Holders) + Cardinality(HalfReleased) - Cardinality(Holders \intersect HalfReleased)
    BY CountsFinite, FS_Union
  <2>4. Cardinality(Holders \intersect HalfReleased) \in Nat
    BY CountsFinite, FS_Subset, FS_CardinalityType
  <2>5. Cardinality(Counted) <= Cardinality(Holders \union HalfReleased)
    BY <2>2, <2>3, FS_Subset, FS_CardinalityType
  <2>6. Cardinality(Counted) <= Cardinality(Holders) + Cardinality(HalfReleased)
    BY <2>3, <2>4, <2>5, CountsFinite
  <2>7. CapacityLimit - free = Cardinality(Holders)
    BY <2>1, CountsFinite, CapacityNat DEF Counts
  <2> QED
    BY <2>1, <2>6, <2>7 DEF Counts, ReservedExact, Counted, HalfReleased
<1> QED
  BY <1>1, Invariant, PTL

(* Every submission is in one outcome total or still undecided. *)
THEOREM TotalsBalanced == Spec => []TotalsBalance
<1>1. IndInv => TotalsBalance
  BY DEF IndInv, Counts, Undecided, TotalsBalance
<1> QED
  BY <1>1, Invariant, PTL

-------------------------------------------------------------------------------
(* The boundary that callers see. *)

LEMMA SeenStep == IndInv /\ [Next]_vars => [Admission!Next]_(Admission!vars)
<1> SUFFICES ASSUME IndInv, [Next]_vars PROVE [Admission!Next]_(Admission!vars)
  OBVIOUS
<1>1. /\ phase \in [Jobs -> Phases] /\ outcome \in [Jobs -> Outcomes]
      /\ future \in [Jobs -> Futures] /\ callback \in [Jobs -> Callbacks]
      /\ free \in 0..CapacityLimit /\ \A k \in Jobs : Life(k)
  BY Types DEF IndInv, Lives
<1>2. ASSUME NEW j \in Jobs, NEW o \in {"succeeded", "timeout", "failed"},
             phase[j] \notin {"new", "returned"}, phase' = [phase EXCEPT ![j] = "returned"],
             outcome' = [outcome EXCEPT ![j] = o], UNCHANGED <<callback, free>>
      PROVE  Admission!Next
  <2>1. outcome[j] = "none" /\ SlotStage[j] # "new" /\ SlotStage' = SlotStage
    BY <1>1, <1>2 DEF Life, SlotStage, HoldsSlot
  <2>2. Admission!Settle(j, o)
    BY <1>2, <2>1 DEF Admission!Settle
  <2> QED
    BY <2>2 DEF Admission!Next, Admission!Outcomes
(* A step that moves callers and callbacks within "holds a slot" is invisible. *)
<1>3. ASSUME UNCHANGED <<outcome, free>>,
             \A k \in Jobs : phase'[k] = "new" <=> phase[k] = "new",
             \A k \in Jobs : callback'[k] \in {"none", "armed", "due"} <=> callback[k] \in {"none", "armed", "due"}
      PROVE  UNCHANGED Admission!vars
  <2>1. SlotStage' = SlotStage
    BY <1>3 DEF SlotStage, HoldsSlot
  <2> QED
    BY <1>3, <2>1 DEF Admission!vars
<1>4. ASSUME NEW j \in Jobs, Call(j) PROVE [Admission!Next]_(Admission!vars)
  <2>1. CASE Acquire(j)
    <3>1. outcome[j] = "none" /\ SlotStage[j] = "new" /\ SlotStage' = [SlotStage EXCEPT ![j] = "held"]
      BY <1>1, <2>1 DEF Acquire, At, Life, SlotStage, HoldsSlot
    <3>2. Admission!Admit(j)
      BY <2>1, <3>1 DEF Acquire, Admission!Admit
    <3> QED
      BY <3>2 DEF Admission!Next
  <2>2. CASE LimitExceeded(j)
    <3>1. outcome[j] = "none" /\ SlotStage[j] = "new" /\ SlotStage' = SlotStage
      BY <1>1, <2>2 DEF LimitExceeded, At, Life, SlotStage, HoldsSlot
    <3>2. Admission!Reject(j)
      BY <2>2, <3>1 DEF LimitExceeded, Admission!Reject
    <3> QED
      BY <3>2 DEF Admission!Next
  <2>3. CASE RefusedFails(j) \/ GotException(j)
    BY <1>2, <2>3 DEF RefusedFails, GotException, At
  <2>4. CASE GotValue(j)
    BY <1>2, <2>4 DEF GotValue, At
  <2>5. CASE RecordTimeout(j)
    BY <1>2, <2>5 DEF RecordTimeout, At
  <2>6. CASE RecordSubmitted(j) \/ Submit(j) \/ SubmitRefused(j) \/ AddCallback(j) \/ CallbackInline(j)
             \/ InlineDone(j) \/ TimerFires(j) \/ CancelPending(j) \/ CancelTooLate(j)
    <3>1. UNCHANGED <<outcome, free>>
      BY <2>6 DEF RecordSubmitted, Submit, SubmitRefused, AddCallback, CallbackInline, InlineDone,
                  TimerFires, CancelPending, CancelTooLate
    <3>2. phase[j] # "new" /\ \E p \in Phases \ {"new"} : phase' = [phase EXCEPT ![j] = p]
      BY <2>6 DEF RecordSubmitted, Submit, SubmitRefused, AddCallback, CallbackInline, InlineDone,
                  TimerFires, CancelPending, CancelTooLate, At, Phases
    <3>3. \E c \in Callbacks : callback' = [callback EXCEPT ![j] = c]
            /\ (c \in {"none", "armed", "due"} <=> callback[j] \in {"none", "armed", "due"})
      <4>1. CASE SubmitRefused(j) \/ AddCallback(j) \/ CallbackInline(j) \/ CancelPending(j)
        BY <1>1, <4>1 DEF SubmitRefused, AddCallback, CallbackInline, CancelPending, Invoked, Callbacks, At, Life
      <4>2. CASE UNCHANGED callback
        BY <1>1, <4>2
      <4> QED
        BY <2>6, <4>1, <4>2 DEF RecordSubmitted, Submit, InlineDone, TimerFires, CancelTooLate
    <3>4. \A k \in Jobs : phase'[k] = "new" <=> phase[k] = "new"
      <4> PICK p \in Phases \ {"new"} : phase' = [phase EXCEPT ![j] = p]
        BY <3>2
      <4> QED
        BY <1>1, <3>2
    <3>5. \A k \in Jobs : callback'[k] \in {"none", "armed", "due"} <=> callback[k] \in {"none", "armed", "due"}
      <4> PICK c \in Callbacks : callback' = [callback EXCEPT ![j] = c]
            /\ (c \in {"none", "armed", "due"} <=> callback[j] \in {"none", "armed", "due"})
        BY <3>3
      <4>1. \A k \in Jobs : callback'[k] = IF k = j THEN c ELSE callback[k]
        BY <1>1
      <4> QED
        BY <4>1
    <3> QED
      BY <1>3, <3>1, <3>4, <3>5
  <2> QED
    BY <1>4, <2>1, <2>2, <2>3, <2>4, <2>5, <2>6 DEF Call
<1>5. ASSUME NEW j \in Jobs, ReleaseSlot(j) PROVE Admission!Next
  <2>1. phase[j] # "new" /\ outcome[j] # "rejected"
    BY <1>1, <1>5 DEF ReleaseSlot, Life
  <2>2. SlotStage[j] = "held" /\ SlotStage' = [SlotStage EXCEPT ![j] = "released"]
    BY <1>1, <1>5, <2>1 DEF ReleaseSlot, SlotStage, HoldsSlot
  <2>3. Admission!Release(j)
    BY <1>5, <2>2 DEF ReleaseSlot, Admission!Release
  <2> QED
    BY <2>3 DEF Admission!Next
<1>6. ASSUME NEW j \in Jobs, UncountSlot(j) PROVE UNCHANGED Admission!vars
  BY <1>1, <1>3, <1>6 DEF UncountSlot
<1>7. ASSUME NEW j \in Jobs, Finish(j) PROVE UNCHANGED Admission!vars
  BY <1>1, <1>3, <1>7 DEF Finish, Invoked
<1>8. CASE Take \/ UNCHANGED vars
  BY <1>3, <1>8 DEF Take, vars
<1>9. CASE Shutdown
  BY <1>1, <1>3, <1>9 DEF Shutdown, Invoked
<1> QED
  BY <1>4, <1>5, <1>6, <1>7, <1>8, <1>9 DEF Next, Callback

(* execute() implements the bounded boundary of BoundedAdmission, whichever *)
(* thread runs the callback that gives a slot back.                         *)
THEOREM RefinesAdmission == Spec => ImplementsAdmission
<1>1. Init => Admission!Init
  BY DEF Init, Admission!Init, SlotStage
<1> QED
  BY <1>1, SeenStep, Invariant, PTL DEF Spec, ImplementsAdmission, Admission!Spec
-------------------------------------------------------------------------------
(***************************************************************************)
(* The abstract boundary itself, with calls, capacity and state of its     *)
(* own: nothing here is about the queue.                                   *)
(***************************************************************************)
CONSTANTS Calls, Slots
VARIABLES freeSlots, stageOf, toldOf

Boundary == INSTANCE BoundedAdmission
  WITH Jobs <- Calls, Capacity <- Slots, free <- freeSlots, stage <- stageOf, outcome <- toldOf

(* The instance has a Cardinality of its own, which is the same operator.    *)
LEMMA SameCardinality == \A S : Boundary!Cardinality(S) = Cardinality(S)
BY Zenon DEF Boundary!Cardinality, Cardinality

(* All three parts are needed together: the count of free slots stays a     *)
(* natural number because a job releases only a slot it holds.              *)
BoundaryInv == Boundary!TypeOK /\ Boundary!SlotsConserved /\ Boundary!RejectedTakesNoSlot

(* The number of free slots and of held ones add up to the capacity in      *)
(* every state, so the boundary never admits more, and a job that was       *)
(* turned away holds nothing: what any implementation inherits.             *)
THEOREM AdmissionInvariant ==
  ASSUME Slots \in Nat, IsFiniteSet(Calls)
  PROVE  Boundary!Spec => []BoundaryInv
<1>1. Boundary!Init => BoundaryInv
  <2> SUFFICES ASSUME Boundary!Init PROVE BoundaryInv
    OBVIOUS
  <2>1. Boundary!Held = {}
    BY DEF Boundary!Init, Boundary!Held
  <2>2. Boundary!Cardinality(Boundary!Held) = 0
    BY <2>1, FS_EmptySet, SameCardinality
  <2> QED
    BY <2>2 DEF Boundary!Init, BoundaryInv, Boundary!TypeOK, Boundary!SlotsConserved, Boundary!RejectedTakesNoSlot
<1>2. BoundaryInv /\ [Boundary!Next]_(Boundary!vars) => BoundaryInv'
  <2> SUFFICES ASSUME BoundaryInv, [Boundary!Next]_(Boundary!vars) PROVE BoundaryInv'
    OBVIOUS
  <2> USE DEF BoundaryInv, Boundary!TypeOK, Boundary!SlotsConserved, Boundary!RejectedTakesNoSlot
  <2>0. IsFiniteSet(Boundary!Held) /\ Boundary!Cardinality(Boundary!Held) \in Nat
    BY FS_Subset, FS_CardinalityType, SameCardinality DEF Boundary!Held
  <2>1. ASSUME NEW j \in Calls, Boundary!Admit(j) PROVE BoundaryInv'
    <3>1. Boundary!Held' = Boundary!Held \union {j} /\ j \notin Boundary!Held
      BY <2>1 DEF Boundary!Admit, Boundary!Held
    <3>2. Boundary!Cardinality(Boundary!Held') = Boundary!Cardinality(Boundary!Held) + 1
      BY <2>0, <3>1, FS_AddElement, SameCardinality
    <3> QED
      BY <2>0, <2>1, <3>2 DEF Boundary!Admit
  <2>2. ASSUME NEW j \in Calls, Boundary!Reject(j) PROVE BoundaryInv'
    <3>1. Boundary!Held' = Boundary!Held
      BY <2>2 DEF Boundary!Reject, Boundary!Held
    <3> QED
      BY <2>2, <3>1 DEF Boundary!Reject
  <2>3. ASSUME NEW j \in Calls, NEW o \in Boundary!Outcomes, Boundary!Settle(j, o) PROVE BoundaryInv'
    <3>1. Boundary!Held' = Boundary!Held
      BY <2>3 DEF Boundary!Settle, Boundary!Held
    <3> QED
      BY <2>3, <3>1 DEF Boundary!Settle, Boundary!Outcomes
  <2>4. ASSUME NEW j \in Calls, Boundary!Release(j) PROVE BoundaryInv'
    <3>1. Boundary!Held = Boundary!Held' \union {j} /\ j \notin Boundary!Held'
      BY <2>4 DEF Boundary!Release, Boundary!Held
    <3>2. IsFiniteSet(Boundary!Held')
      BY <2>0, <3>1, FS_Subset, FS_CardinalityType
    <3>3. Boundary!Cardinality(Boundary!Held) = Boundary!Cardinality(Boundary!Held') + 1 /\ Boundary!Cardinality(Boundary!Held') \in Nat
      BY <3>1, <3>2, FS_AddElement, FS_CardinalityType, SameCardinality
    <3> QED
      BY <2>0, <2>4, <3>3 DEF Boundary!Release
  <2>5. CASE UNCHANGED Boundary!vars
    BY <2>5 DEF Boundary!vars, Boundary!Held
  <2> QED
    BY <2>1, <2>2, <2>3, <2>4, <2>5 DEF Boundary!Next
<1> QED
  BY <1>1, <1>2, PTL DEF Boundary!Spec

===============================================================================
