-------------------------- MODULE ResidentWorkerProofs --------------------------
(***************************************************************************)
(* ResidentWorker for any number of calls and any MaxPending, and          *)
(* TorchWorkerClient on top of it.                                         *)
(*                                                                         *)
(* Two inductive invariants of the worker.  Accounting is about callers:   *)
(* what phase a call is in fixes what it was told, and slots,              *)
(* _in_flight_or_queued and the counters count those phases.  Exchange is  *)
(* about the executor: a job is in the queue, or is the job of the         *)
(* executor thread, or its future is resolved, and the pipes hold nothing  *)
(* but the line of the exchange under _lock.                               *)
(*                                                                         *)
(* Then execute(), which calls request(): its steps are steps of the       *)
(* worker, and ClientInv relates the phases of a call to its payload file  *)
(* and to the line it reads.  The last part is about the health checks     *)
(* (ServiceReadiness), which probe the workers.                            *)
(***************************************************************************)
EXTENDS TorchWorkerClient, ServiceReadiness, FiniteSetTheorems, TLAPS

USE RequestsAssumption, PendingAssumption

-------------------------------------------------------------------------------
(* Accounting. *)

(* In each phase a caller has been told something, or not yet. *)
Told == \A r \in Requests :
  /\ phase[r] \in {"new", "acquired", "recorded", "waiting"} => outcome[r] = "none"
  /\ phase[r] \in {"restarting", "settled", "leaving"} => outcome[r] \in {"succeeded", "timeout", "failed"}
  /\ phase[r] = "done" => outcome[r] # "none"

SlotsExact == slots + Cardinality(Holding) = MaxPending

Rejected == {r \in Requests : outcome[r] = "rejected"}
Undecided == {r \in Counted : outcome[r] = "none"}

CountersExact ==
  /\ inFlight = Cardinality(Counted)
  /\ stats.requests + Cardinality(Rejected)
       = stats.succeeded + stats.timeout + stats.failed + Cardinality(Undecided)

(* A line is only ever written for a job: TypeOK is not inductive alone. *)
Typed == TypeOK /\ (rpcStage # "idle" => rpcJob \in Requests)

Accounting == Typed /\ Told /\ SlotsExact /\ CountersExact

(* The sets that are counted are finite, and a counted call holds a slot. *)
LEMMA CountsFinite ==
  /\ IsFiniteSet(Holding) /\ Cardinality(Holding) \in Nat
  /\ IsFiniteSet(Counted) /\ Cardinality(Counted) \in Nat
  /\ IsFiniteSet(Rejected) /\ Cardinality(Rejected) \in Nat
  /\ IsFiniteSet(Undecided) /\ Cardinality(Undecided) \in Nat
  /\ Cardinality(Counted) <= Cardinality(Holding)
<1>1. /\ Holding \subseteq Requests /\ Counted \subseteq Requests
      /\ Rejected \subseteq Requests /\ Undecided \subseteq Requests
      /\ Counted \subseteq Holding
  BY DEF Holding, Counted, Rejected, Undecided
<1> QED
  BY <1>1, FS_Subset, FS_CardinalityType

(* What no caller disturbs does not disturb the accounting. *)
LEMMA AccountingKept ==
  ASSUME Accounting, Typed', UNCHANGED <<phase, outcome, slots, inFlight>>,
         \A field \in {"requests", "succeeded", "timeout", "failed"} : stats'[field] = stats[field]
  PROVE  Accounting'
<1>1. Holding' = Holding /\ Counted' = Counted /\ Rejected' = Rejected /\ Undecided' = Undecided
  BY DEF Holding, Counted, Rejected, Undecided
<1>2. /\ stats'.requests = stats.requests /\ stats'.succeeded = stats.succeeded
      /\ stats'.timeout = stats.timeout /\ stats'.failed = stats.failed
  OBVIOUS
<1> QED
  BY <1>1, <1>2 DEF Accounting, Told, SlotsExact, CountersExact

LEMMA AccountingInit == Init => Accounting
<1> SUFFICES ASSUME Init PROVE Accounting
  OBVIOUS
<1>1. Holding = {} /\ Counted = {} /\ Rejected = {} /\ Undecided = {}
  BY DEF Init, Holding, Counted, Rejected, Undecided
<1>2. Cardinality(Holding) = 0 /\ Cardinality(Counted) = 0
      /\ Cardinality(Rejected) = 0 /\ Cardinality(Undecided) = 0
  BY <1>1, FS_EmptySet
<1>3. Typed
  BY DEF Init, Typed, TypeOK, NoStats
<1> QED
  BY <1>2, <1>3 DEF Init, Accounting, Told, SlotsExact, CountersExact, NoStats

Counters == [{"requests", "succeeded", "timeout", "failed", "restart"} -> Nat]
FutureStates == {"none", "pending", "running", "line", "empty", "raised", "cancelled"}

(* Stopping the worker counts a restart at most and empties the pipes. *)
LEMMA StopLockedTypes ==
  ASSUME stats \in Counters, StopLocked
  PROVE  /\ stats' \in Counters
         /\ process' = "none" /\ stdin' = <<>> /\ stdout' = <<>>
         /\ \A field \in {"requests", "succeeded", "timeout", "failed"} : stats'[field] = stats[field]
<1>1. CASE process = "none"
  BY <1>1 DEF StopLocked
<1>2. CASE process # "none"
  BY <1>2 DEF StopLocked, Count, Counters
<1> QED
  BY <1>1, <1>2

(* The future that the executor thread resolves keeps its type, and so does *)
(* the answer it holds.                                                     *)
LEMMA ResolveTypes ==
  ASSUME TypeOK, NEW state \in FutureStates, NEW whose \in Requests \union {NoJob}, Resolve(state, whose)
  PROVE  /\ future' \in [Requests -> FutureStates]
         /\ answer' \in [Requests -> Requests \union {NoJob}]
         /\ rpcJob' = NoJob /\ rpcStage' = "idle"
<1>1. future \in [Requests -> FutureStates] /\ answer \in [Requests -> Requests \union {NoJob}]
  BY DEF TypeOK, FutureStates
<1> QED
  BY <1>1 DEF Resolve

(* Types, for the steps that touch no count of slots. *)
LEMMA TypesKept ==
  ASSUME Typed, [Next]_vars, slots' \in 0..MaxPending
  PROVE  Typed'
<1> USE DEF Typed, TypeOK
<1>1. ASSUME NEW r \in Requests, Caller(r) PROVE Typed'
  <2>1. CASE Acquire(r)
    BY <2>1 DEF Acquire, Goto, poolVars, pipeVars
  <2>2. CASE QueueFull(r)
    BY <2>2 DEF QueueFull, Goto, Count, poolVars, pipeVars
  <2>3. CASE RecordSubmitted(r)
    BY <2>3 DEF RecordSubmitted, Goto, Count, poolVars, pipeVars
  <2>4. CASE Submit(r)
    BY <2>4 DEF Submit, Goto, pipeVars
  <2>5. CASE SubmitRefused(r)
    BY <2>5 DEF SubmitRefused, Goto, Count, poolVars, pipeVars
  <2>6. CASE GotLine(r)
    BY <2>6 DEF GotLine, Goto, Count, poolVars, pipeVars
  <2>7. CASE GotNothing(r)
    BY <2>7 DEF GotNothing, Goto, Count, poolVars, pipeVars
  <2>8. CASE GotException(r)
    BY <2>8 DEF GotException, Goto, Count, poolVars, pipeVars
  <2>9. CASE TimedOut(r)
    BY <2>9 DEF TimedOut, Goto, Count, poolVars, pipeVars
  <2>10. CASE Restart(r)
    BY <2>10, StopLockedTypes DEF Restart, Goto, poolVars, Counters
  <2>11. CASE RecordFinished(r)
    BY <2>11 DEF RecordFinished, Goto, poolVars, pipeVars
  <2>12. CASE ReleaseSlot(r)
    BY <2>12 DEF ReleaseSlot, Goto, poolVars, pipeVars
  <2> QED
    BY <1>1, <2>1, <2>2, <2>3, <2>4, <2>5, <2>6, <2>7, <2>8, <2>9, <2>10, <2>11, <2>12 DEF Caller
<1>2. CASE TakeJob
  <2>1. Head(queue) \in Requests /\ Tail(queue) \in Seq(Requests)
    BY <1>2 DEF TakeJob
  <2> QED
    BY <1>2, <2>1 DEF TakeJob, callerVars, pipeVars
<1>3. CASE EnsureStarted
  <2>1. stdin' \in Seq(Requests) /\ stdout' \in Seq(Requests)
    <3>1. CASE process = "alive"
      BY <1>3, <3>1 DEF EnsureStarted
    <3>2. CASE process # "alive"
      BY <1>3, <3>2 DEF EnsureStarted
    <3> QED
      BY <3>1, <3>2
  <2> QED
    BY <1>3, <2>1 DEF EnsureStarted, callerVars
<1>4. CASE StartFailed
  BY <1>4, ResolveTypes DEF StartFailed, pipeVars, FutureStates
<1>5. CASE WriteLine
  <2>1. Append(stdin, rpcJob) \in Seq(Requests)
    BY <1>5 DEF WriteLine
  <2> QED
    BY <1>5, <2>1 DEF WriteLine, callerVars
<1>6. CASE ReadLine
  <2>1. Head(stdout) \in Requests /\ Tail(stdout) \in Seq(Requests)
    BY <1>6 DEF ReadLine
  <2> QED
    BY <1>6, <2>1, ResolveTypes DEF ReadLine, FutureStates
<1>7. CASE BrokenPipe
  BY <1>7, ResolveTypes, StopLockedTypes DEF BrokenPipe, FutureStates, Counters
<1>8. CASE WorkerAnswers
  <2>1. Head(stdin) \in Requests /\ Tail(stdin) \in Seq(Requests)
    BY <1>8 DEF WorkerAnswers
  <2> QED
    BY <1>8, <2>1 DEF WorkerAnswers, callerVars, poolVars
<1>9. CASE WorkerDies
  BY <1>9 DEF WorkerDies, callerVars, poolVars
<1>10. CASE CloseStops
  BY <1>10, StopLockedTypes DEF CloseStops, callerVars, poolVars, Counters
<1>11. CASE CloseShutsDown
  BY <1>11 DEF CloseShutsDown, callerVars, pipeVars
<1>12. CASE UNCHANGED vars
  BY <1>12 DEF vars
<1> QED
  BY <1>1, <1>2, <1>3, <1>4, <1>5, <1>6, <1>7, <1>8, <1>9, <1>10, <1>11, <1>12 DEF Next, Executor

(* The steps of a caller: which of the counted sets it enters and leaves. *)
LEMMA AccountingCaller ==
  ASSUME Accounting, NEW r \in Requests, Caller(r)
  PROVE  Accounting'
<1> USE DEF Accounting, Typed
<1>0. TypeOK
  OBVIOUS
<1>1. ASSUME slots' \in 0..MaxPending PROVE Typed'
  BY <1>1, TypesKept DEF Next
<1>2. phase \in [Requests -> {"new", "acquired", "recorded", "waiting", "restarting", "settled", "leaving", "done"}]
      /\ outcome \in [Requests -> {"none", "rejected", "succeeded", "timeout", "failed"}]
      /\ slots \in 0..MaxPending /\ inFlight \in Nat
      /\ stats \in [{"requests", "succeeded", "timeout", "failed", "restart"} -> Nat]
  BY DEF TypeOK
<1>3. CASE Acquire(r)
  <2>1. /\ Holding' = Holding \union {r} /\ r \notin Holding
        /\ Counted' = Counted /\ Rejected' = Rejected /\ Undecided' = Undecided
    BY <1>2, <1>3 DEF Acquire, Goto, Holding, Counted, Rejected, Undecided
  <2>2. Cardinality(Holding') = Cardinality(Holding) + 1
    BY <2>1, CountsFinite, FS_AddElement, FS_CardinalityType
  <2>3. SlotsExact' /\ slots' \in 0..MaxPending
    BY <1>2, <1>3, <2>2, CountsFinite DEF Acquire, SlotsExact
  <2>4. CountersExact'
    BY <1>3, <2>1 DEF Acquire, CountersExact
  <2>5. Told'
    BY <1>2, <1>3 DEF Acquire, Goto, Told
  <2> QED
    BY <1>1, <2>3, <2>4, <2>5
<1>4. CASE QueueFull(r)
  <2>1. /\ Holding' = Holding /\ Counted' = Counted /\ Undecided' = Undecided
        /\ Rejected' = Rejected \union {r} /\ r \notin Rejected
    BY <1>2, <1>4 DEF QueueFull, Goto, Holding, Counted, Rejected, Undecided, Told
  <2>2. Cardinality(Rejected') = Cardinality(Rejected) + 1
    BY <2>1, CountsFinite, FS_AddElement, FS_CardinalityType
  <2>3. SlotsExact' /\ slots' \in 0..MaxPending
    BY <1>2, <1>4, <2>1 DEF QueueFull, SlotsExact
  <2>4. CountersExact'
    BY <1>2, <1>4, <2>1, <2>2, CountsFinite DEF QueueFull, Count, CountersExact
  <2>5. Told'
    BY <1>2, <1>4 DEF QueueFull, Goto, Told
  <2> QED
    BY <1>1, <2>3, <2>4, <2>5
<1>5. CASE RecordSubmitted(r)
  <2>1. /\ Holding' = Holding /\ Rejected' = Rejected
        /\ Counted' = Counted \union {r} /\ r \notin Counted
        /\ Undecided' = Undecided \union {r} /\ r \notin Undecided
    BY <1>2, <1>5 DEF RecordSubmitted, Goto, Holding, Counted, Rejected, Undecided, Told
  <2>2. /\ Cardinality(Counted') = Cardinality(Counted) + 1
        /\ Cardinality(Undecided') = Cardinality(Undecided) + 1
    BY <2>1, CountsFinite, FS_AddElement, FS_CardinalityType
  <2>3. SlotsExact' /\ slots' \in 0..MaxPending
    BY <1>2, <1>5, <2>1 DEF RecordSubmitted, SlotsExact
  <2>4. CountersExact'
    BY <1>2, <1>5, <2>1, <2>2, CountsFinite DEF RecordSubmitted, Count, CountersExact
  <2>5. Told'
    BY <1>2, <1>5 DEF RecordSubmitted, Goto, Told
  <2> QED
    BY <1>1, <2>3, <2>4, <2>5
<1>6. CASE Submit(r)
  <2>1. /\ Holding' = Holding /\ Rejected' = Rejected /\ Counted' = Counted /\ Undecided' = Undecided
    BY <1>2, <1>6 DEF Submit, Goto, Holding, Counted, Rejected, Undecided
  <2>3. SlotsExact' /\ slots' \in 0..MaxPending /\ CountersExact'
    BY <1>2, <1>6, <2>1 DEF Submit, SlotsExact, CountersExact
  <2>5. Told'
    BY <1>2, <1>6 DEF Submit, Goto, Told
  <2> QED
    BY <1>1, <2>3, <2>5
<1>7. ASSUME NEW field \in {"succeeded", "timeout", "failed"}, Count(field),
             r \in Undecided, r \in Counted',
             NEW p \in {"restarting", "settled"}, Goto(r, p), outcome' = [outcome EXCEPT ![r] = field],
             UNCHANGED <<slots, inFlight>>
      PROVE  Accounting'
  <2>1. /\ Holding' = Holding /\ Rejected' = Rejected /\ Counted' = Counted
        /\ Undecided = Undecided' \union {r} /\ r \notin Undecided'
    BY <1>2, <1>7 DEF Goto, Holding, Counted, Rejected, Undecided
  <2>2. IsFiniteSet(Undecided')
    BY <2>1, CountsFinite, FS_Subset, FS_CardinalityType
  <2>3. Cardinality(Undecided) = Cardinality(Undecided') + 1 /\ Cardinality(Undecided') \in Nat
    BY <2>1, <2>2, FS_AddElement, FS_CardinalityType
  <2>4. SlotsExact' /\ slots' \in 0..MaxPending
    BY <1>2, <1>7, <2>1 DEF SlotsExact
  <2>5. CountersExact'
    BY <1>2, <1>7, <2>1, <2>3, CountsFinite DEF Count, CountersExact
  <2>6. Told'
    BY <1>2, <1>7 DEF Goto, Told
  <2> QED
    BY <1>1, <2>4, <2>5, <2>6
<1>8. CASE SubmitRefused(r)
  BY <1>2, <1>7, <1>8 DEF SubmitRefused, Goto, Undecided, Counted, Told
<1>9. CASE GotLine(r)
  BY <1>2, <1>7, <1>9 DEF GotLine, Goto, Undecided, Counted, Told
<1>10. CASE GotNothing(r)
  BY <1>2, <1>7, <1>10 DEF GotNothing, Goto, Undecided, Counted, Told
<1>11. CASE GotException(r)
  BY <1>2, <1>7, <1>11 DEF GotException, Goto, Undecided, Counted, Told
<1>12. CASE TimedOut(r)
  BY <1>2, <1>7, <1>12 DEF TimedOut, Goto, Undecided, Counted, Told
<1>13. CASE Restart(r)
  <2>1. /\ Holding' = Holding /\ Rejected' = Rejected /\ Counted' = Counted /\ Undecided' = Undecided
    BY <1>2, <1>13 DEF Restart, Goto, Holding, Counted, Rejected, Undecided
  <2>2. \A field \in {"requests", "succeeded", "timeout", "failed"} : stats'[field] = stats[field]
    BY <1>2, <1>13, StopLockedTypes DEF Restart, Counters
  <2>3. SlotsExact' /\ slots' \in 0..MaxPending /\ CountersExact'
    BY <1>2, <1>13, <2>1, <2>2 DEF Restart, SlotsExact, CountersExact
  <2>5. Told'
    BY <1>2, <1>13 DEF Restart, Goto, Told
  <2> QED
    BY <1>1, <2>3, <2>5
<1>14. CASE RecordFinished(r)
  <2>1. /\ Holding' = Holding /\ Rejected' = Rejected /\ Undecided' = Undecided
        /\ Counted = Counted' \union {r} /\ r \notin Counted'
    BY <1>2, <1>14 DEF RecordFinished, Goto, Holding, Counted, Rejected, Undecided, Told
  <2>2. IsFiniteSet(Counted')
    BY <2>1, CountsFinite, FS_Subset, FS_CardinalityType
  <2>3. Cardinality(Counted) = Cardinality(Counted') + 1 /\ Cardinality(Counted') \in Nat
    BY <2>1, <2>2, FS_AddElement, FS_CardinalityType
  <2>4. SlotsExact' /\ slots' \in 0..MaxPending
    BY <1>2, <1>14, <2>1 DEF RecordFinished, SlotsExact
  <2>5. CountersExact'
    BY <1>2, <1>14, <2>1, <2>3 DEF RecordFinished, CountersExact
  <2>6. Told'
    BY <1>2, <1>14 DEF RecordFinished, Goto, Told
  <2> QED
    BY <1>1, <2>4, <2>5, <2>6
<1>15. CASE ReleaseSlot(r)
  <2>1. /\ Holding = Holding' \union {r} /\ r \notin Holding'
        /\ Counted' = Counted /\ Rejected' = Rejected /\ Undecided' = Undecided
    BY <1>2, <1>15 DEF ReleaseSlot, Goto, Holding, Counted, Rejected, Undecided
  <2>2. IsFiniteSet(Holding')
    BY <2>1, CountsFinite, FS_Subset, FS_CardinalityType
  <2>3. Cardinality(Holding) = Cardinality(Holding') + 1 /\ Cardinality(Holding') \in Nat
    BY <2>1, <2>2, FS_AddElement, FS_CardinalityType
  <2>4. SlotsExact' /\ slots' \in 0..MaxPending
    BY <1>2, <1>15, <2>3 DEF ReleaseSlot, SlotsExact
  <2>5. CountersExact'
    BY <1>15, <2>1 DEF ReleaseSlot, CountersExact
  <2>6. Told'
    BY <1>2, <1>15 DEF ReleaseSlot, Goto, Told
  <2> QED
    BY <1>1, <2>4, <2>5, <2>6
<1> QED
  BY <1>3, <1>4, <1>5, <1>6, <1>8, <1>9, <1>10, <1>11, <1>12, <1>13, <1>14, <1>15 DEF Caller

LEMMA AccountingStep == Accounting /\ [Next]_vars => Accounting'
<1> SUFFICES ASSUME Accounting, [Next]_vars PROVE Accounting'
  OBVIOUS
<1>1. CASE \E r \in Requests : Caller(r)
  BY <1>1, AccountingCaller
<1>2. ASSUME UNCHANGED <<phase, outcome, slots, inFlight>>,
             \A field \in {"requests", "succeeded", "timeout", "failed"} : stats'[field] = stats[field]
      PROVE  Accounting'
  BY <1>2, TypesKept, AccountingKept DEF Accounting, Typed, TypeOK
<1>3. stats \in Counters
  BY DEF Accounting, Typed, TypeOK, Counters
<1>4. CASE Executor
  BY <1>2, <1>3, <1>4, StopLockedTypes
     DEF Executor, TakeJob, EnsureStarted, StartFailed, WriteLine, ReadLine, BrokenPipe, callerVars
<1>5. CASE WorkerAnswers \/ WorkerDies
  BY <1>2, <1>5 DEF WorkerAnswers, WorkerDies, callerVars
<1>6. CASE CloseStops \/ CloseShutsDown
  BY <1>2, <1>3, <1>6, StopLockedTypes DEF CloseStops, CloseShutsDown, callerVars
<1>7. CASE UNCHANGED vars
  BY <1>2, <1>7 DEF vars
<1> QED
  BY <1>1, <1>4, <1>5, <1>6, <1>7 DEF Next

-------------------------------------------------------------------------------
(* Exchange. *)

(* The executor thread runs one job, the one whose future is running. *)
OneRunning == /\ rpcStage # "idle" => future[rpcJob] = "running"
              /\ \A r \in Requests : future[r] = "running" => rpcStage # "idle" /\ r = rpcJob

(* Jobs in the queue are pending and each is there once. *)
QueuePending == /\ \A i \in 1..Len(queue) : future[queue[i]] = "pending"
                /\ \A i, j \in 1..Len(queue) : queue[i] = queue[j] => i = j

(* A job has no future before it is submitted; a resolved future with a     *)
(* line holds the reply to its own job, and success is read from a line.    *)
Answers == \A r \in Requests :
  /\ phase[r] \in {"new", "acquired", "recorded"} => future[r] = "none"
  /\ future[r] = "line" => answer[r] = r
  /\ outcome[r] = "succeeded" => future[r] = "line"

(* PipeInStep, by cases. *)
Pipes == \/ stdin = <<>> /\ stdout = <<>>
         \/ /\ rpcStage = "written"
            /\ \/ stdin = <<rpcJob>> /\ stdout = <<>>
               \/ stdin = <<>> /\ stdout = <<rpcJob>>

Exchange == OneRunning /\ QueuePending /\ Answers /\ Pipes

IndInv == Accounting /\ Exchange

LEMMA ExchangeInit == Init => Exchange
BY DEF Init, Exchange, OneRunning, QueuePending, Answers, Pipes

LEMMA ExchangeCaller ==
  ASSUME IndInv, NEW r \in Requests, Caller(r)
  PROVE  Exchange'
<1> USE DEF IndInv, Accounting, Typed
<1>0. /\ phase \in [Requests -> {"new", "acquired", "recorded", "waiting", "restarting", "settled", "leaving", "done"}]
      /\ outcome \in [Requests -> {"none", "rejected", "succeeded", "timeout", "failed"}]
      /\ future \in [Requests -> FutureStates]
      /\ queue \in Seq(Requests)
  BY DEF TypeOK, FutureStates
(* Most steps of a caller touch neither the executor nor the pipes. *)
<1>1. ASSUME UNCHANGED <<answer, future, queue, rpcJob, rpcStage, stdin, stdout>>,
             NEW p, NEW o, phase' = [phase EXCEPT ![r] = p], outcome' = [outcome EXCEPT ![r] = o],
             p \in {"new", "acquired", "recorded"} => future[r] = "none",
             o = "succeeded" => future[r] = "line"
      PROVE  Exchange'
  <2>1. OneRunning' /\ QueuePending' /\ Pipes'
    BY <1>1 DEF Exchange, OneRunning, QueuePending, Pipes
  <2>2. Answers'
    BY <1>0, <1>1 DEF Exchange, Answers
  <2> QED
    BY <2>1, <2>2 DEF Exchange
<1>2. outcome = [outcome EXCEPT ![r] = outcome[r]]
  BY <1>0
<1>3. CASE Submit(r)
  <2>1. future[r] = "none" /\ phase[r] = "recorded"
    BY <1>3 DEF Submit, Exchange, Answers
  <2>2. OneRunning'
    BY <1>0, <1>3, <2>1 DEF Submit, Exchange, OneRunning, Typed
  <2>3. QueuePending'
    <3>1. queue' = Append(queue, r)
      BY <1>3 DEF Submit
    <3>2. \A i \in 1..Len(queue) : queue[i] # r
      BY <2>1 DEF Exchange, QueuePending
    <3>3. /\ Len(queue') = Len(queue) + 1 /\ Len(queue) \in Nat /\ queue'[Len(queue) + 1] = r
          /\ \A i \in 1..Len(queue) : queue'[i] = queue[i] /\ queue[i] \in Requests
      BY <1>0, <3>1
    <3>4. \A i \in 1..Len(queue') : future'[queue'[i]] = "pending"
      BY <1>0, <1>3, <3>2, <3>3 DEF Submit, Exchange, QueuePending
    <3>5. \A i, j \in 1..Len(queue') : queue'[i] = queue'[j] => i = j
      BY <3>2, <3>3 DEF Exchange, QueuePending
    <3> QED
      BY <3>4, <3>5 DEF QueuePending
  <2>4. Answers'
    BY <1>0, <1>3, <2>1 DEF Submit, Goto, Exchange, Answers
  <2>5. Pipes'
    BY <1>3 DEF Submit, pipeVars, Exchange, Pipes
  <2> QED
    BY <2>2, <2>3, <2>4, <2>5 DEF Exchange
<1>4. CASE Restart(r)
  <2>1. stdin' = <<>> /\ stdout' = <<>>
    BY <1>4 DEF Restart, StopLocked
  <2>2. OneRunning' /\ QueuePending' /\ Answers'
    BY <1>0, <1>4 DEF Restart, Goto, poolVars, Exchange, OneRunning, QueuePending, Answers
  <2> QED
    BY <2>1, <2>2 DEF Exchange, Pipes
<1>5. CASE Acquire(r) \/ RecordSubmitted(r) \/ RecordFinished(r) \/ ReleaseSlot(r)
  <2>1. phase[r] \in {"new", "acquired"} => future[r] = "none"
    BY DEF Exchange, Answers
  <2>2. outcome[r] = "succeeded" => future[r] = "line"
    BY DEF Exchange, Answers
  <2> QED
    BY <1>1, <1>2, <1>5, <2>1, <2>2
       DEF Acquire, RecordSubmitted, RecordFinished, ReleaseSlot, Goto, poolVars, pipeVars
<1>6. CASE QueueFull(r) \/ SubmitRefused(r) \/ GotLine(r) \/ GotNothing(r) \/ GotException(r) \/ TimedOut(r)
  BY <1>1, <1>6
     DEF QueueFull, SubmitRefused, GotLine, GotNothing, GotException, TimedOut, Goto, poolVars, pipeVars
<1> QED
  BY <1>3, <1>4, <1>5, <1>6 DEF Caller

LEMMA ExchangeExecutor ==
  ASSUME IndInv, Executor
  PROVE  Exchange'
<1> USE DEF IndInv, Accounting, Typed, Exchange
<1>0. /\ future \in [Requests -> FutureStates] /\ answer \in [Requests -> Requests \union {NoJob}]
      /\ queue \in Seq(Requests)
      /\ rpcStage \in {"idle", "taken", "started", "written"}
      /\ rpcStage # "idle" => rpcJob \in Requests
  BY DEF TypeOK, FutureStates
(* Whatever the job is resolved with, a line is its own. *)
<1>1. ASSUME rpcStage # "idle", NEW state \in {"line", "empty", "raised"}, NEW whose,
             state = "line" => whose = rpcJob,
             Resolve(state, whose), UNCHANGED <<phase, outcome, queue>>
      PROVE  OneRunning' /\ QueuePending' /\ Answers'
  <2>1. OneRunning'
    BY <1>0, <1>1 DEF Resolve, OneRunning
  <2>2. QueuePending'
    BY <1>0, <1>1 DEF Resolve, QueuePending, OneRunning
  <2>3. Answers'
    BY <1>0, <1>1 DEF Resolve, Answers, OneRunning
  <2> QED
    BY <2>1, <2>2, <2>3
<1>2. CASE TakeJob
  <2>1. /\ Len(queue) \in Nat \ {0} /\ Head(queue) = queue[1] /\ Head(queue) \in Requests
        /\ Len(Tail(queue)) = Len(queue) - 1
        /\ \A i \in 1..Len(Tail(queue)) : Tail(queue)[i] = queue[i + 1] /\ i + 1 \in 1..Len(queue)
    BY <1>0, <1>2 DEF TakeJob
  <2>2. future[Head(queue)] = "pending"
    BY <2>1 DEF QueuePending
  <2>3. OneRunning'
    BY <1>0, <1>2, <2>1 DEF TakeJob, OneRunning
  <2>4. QueuePending'
    <3>1. \A i \in 1..Len(Tail(queue)) : Tail(queue)[i] # Head(queue) /\ Tail(queue)[i] \in Requests
      BY <1>0, <2>1 DEF QueuePending
    <3>2. \A i \in 1..Len(queue') : future'[queue'[i]] = "pending"
      BY <1>0, <1>2, <2>1, <3>1 DEF TakeJob, QueuePending
    <3>3. \A i, j \in 1..Len(queue') : queue'[i] = queue'[j] => i = j
      BY <1>2, <2>1 DEF TakeJob, QueuePending
    <3> QED
      BY <3>2, <3>3 DEF QueuePending
  <2>5. Answers'
    BY <1>0, <1>2, <2>1, <2>2 DEF TakeJob, callerVars, Answers
  <2>6. Pipes'
    BY <1>2 DEF TakeJob, pipeVars, Pipes
  <2> QED
    BY <2>3, <2>4, <2>5, <2>6
<1>3. CASE EnsureStarted
  <2>1. stdin = <<>> /\ stdout = <<>>
    BY <1>3 DEF EnsureStarted, Pipes
  <2>2. stdin' = <<>> /\ stdout' = <<>>
    BY <1>3, <2>1 DEF EnsureStarted
  <2>3. OneRunning' /\ QueuePending' /\ Answers'
    BY <1>3 DEF EnsureStarted, callerVars, OneRunning, QueuePending, Answers
  <2> QED
    BY <2>2, <2>3 DEF Pipes
<1>4. CASE StartFailed
  <2>1. OneRunning' /\ QueuePending' /\ Answers'
    BY <1>1, <1>4 DEF StartFailed
  <2>2. Pipes'
    BY <1>4 DEF StartFailed, pipeVars, Pipes
  <2> QED
    BY <2>1, <2>2
<1>5. CASE WriteLine
  <2>1. stdin = <<>> /\ stdout = <<>>
    BY <1>5 DEF WriteLine, Pipes
  <2>2. stdin' = <<rpcJob>> /\ stdout' = <<>> /\ rpcStage' = "written" /\ rpcJob' = rpcJob
    BY <1>5, <2>1 DEF WriteLine
  <2>3. OneRunning' /\ QueuePending' /\ Answers'
    BY <1>5 DEF WriteLine, callerVars, OneRunning, QueuePending, Answers
  <2> QED
    BY <2>2, <2>3 DEF Pipes
<1>6. CASE ReadLine
  <2>1. stdin = <<>> /\ stdout = <<rpcJob>>
    BY <1>6 DEF ReadLine, Pipes
  <2>2. Head(stdout) = rpcJob /\ Tail(stdout) = <<>>
    BY <2>1
  <2>3. OneRunning' /\ QueuePending' /\ Answers'
    BY <1>1, <1>6, <2>2 DEF ReadLine
  <2>4. Pipes'
    BY <1>6, <2>1, <2>2 DEF ReadLine, Pipes
  <2> QED
    BY <2>3, <2>4
<1>7. CASE BrokenPipe
  <2>1. OneRunning' /\ QueuePending' /\ Answers'
    BY <1>1, <1>7 DEF BrokenPipe
  <2>2. Pipes'
    BY <1>7 DEF BrokenPipe, StopLocked, Pipes
  <2> QED
    BY <2>1, <2>2
<1> QED
  BY <1>2, <1>3, <1>4, <1>5, <1>6, <1>7 DEF Executor
(* The subprocess and close(). *)
LEMMA ExchangeStep ==
  ASSUME IndInv, [Next]_vars
  PROVE  Exchange'
<1> USE DEF IndInv, Accounting, Typed, Exchange
<1>0. /\ future \in [Requests -> FutureStates]
      /\ queue \in Seq(Requests) /\ stdin \in Seq(Requests) /\ stdout \in Seq(Requests)
      /\ rpcStage # "idle" => rpcJob \in Requests
  BY DEF TypeOK, FutureStates
<1>1. ASSUME UNCHANGED <<phase, outcome, answer, future, queue, rpcJob, rpcStage>>
      PROVE  OneRunning' /\ QueuePending' /\ Answers'
  BY <1>1 DEF OneRunning, QueuePending, Answers
<1>2. CASE WorkerAnswers
  <2>1. rpcStage = "written" /\ stdin = <<rpcJob>> /\ stdout = <<>>
    BY <1>2 DEF WorkerAnswers, Pipes
  <2>2. Head(stdin) = rpcJob /\ Tail(stdin) = <<>> /\ Append(stdout, rpcJob) = <<rpcJob>>
    BY <1>0, <2>1
  <2>3. stdin' = <<>> /\ stdout' = <<rpcJob>> /\ rpcStage' = "written" /\ rpcJob' = rpcJob
    BY <1>2, <2>1, <2>2 DEF WorkerAnswers, poolVars
  <2> QED
    BY <1>1, <1>2, <2>3 DEF WorkerAnswers, callerVars, poolVars, Pipes
<1>3. CASE WorkerDies
  <2>1. Pipes'
    BY <1>3 DEF WorkerDies, poolVars, Pipes
  <2> QED
    BY <1>1, <1>3, <2>1 DEF WorkerDies, callerVars, poolVars
<1>4. CASE CloseStops
  <2>1. Pipes'
    BY <1>4 DEF CloseStops, StopLocked, Pipes
  <2> QED
    BY <1>1, <1>4, <2>1 DEF CloseStops, callerVars, poolVars
<1>5. CASE CloseShutsDown
  <2>1. /\ UNCHANGED <<phase, outcome, answer, rpcJob, rpcStage, stdin, stdout>>
        /\ queue' = <<>> /\ Len(queue') = 0
        /\ \A r \in Requests : future'[r] = IF future[r] = "pending" THEN "cancelled" ELSE future[r]
    BY <1>5 DEF CloseShutsDown, callerVars, pipeVars
  <2>2. OneRunning' /\ QueuePending'
    BY <1>0, <2>1 DEF OneRunning, QueuePending
  <2>3. Answers' /\ Pipes'
    BY <1>0, <2>1 DEF Answers, Pipes
  <2> QED
    BY <2>2, <2>3
<1>6. CASE UNCHANGED vars
  BY <1>1, <1>6 DEF vars, Pipes
<1> QED
  BY <1>2, <1>3, <1>4, <1>5, <1>6, ExchangeCaller, ExchangeExecutor DEF Next

LEMMA IndInvInit == Init => IndInv
BY AccountingInit, ExchangeInit DEF IndInv

LEMMA IndInvStep == IndInv /\ [Next]_vars => IndInv'
BY AccountingStep, ExchangeStep DEF IndInv

(* In every reachable state, for any number of concurrent calls: the         *)
(* accounting of request() and the exchange with the worker are in order.   *)
THEOREM Invariant == Spec => []IndInv
BY IndInvInit, IndInvStep, PTL DEF Spec

-------------------------------------------------------------------------------
(* What the runs check, from the invariant. *)

(* Every variable of the worker process keeps its type; in particular the   *)
(* semaphore never leaves 0..MaxPending.                                    *)
THEOREM TypeCorrect == Spec => []TypeOK
<1>1. IndInv => TypeOK
  BY DEF IndInv, Accounting, Typed
<1> QED
  BY <1>1, Invariant, PTL

(* A caller that is given a line is given the reply to its own payload,     *)
(* however many jobs of callers that gave up are still to be exchanged.     *)
THEOREM AnswersMatch == Spec => []OwnAnswer
<1>1. IndInv => OwnAnswer
  BY DEF IndInv, Exchange, Answers, OwnAnswer
<1> QED
  BY <1>1, Invariant, PTL

(* No reply is left in a pipe for the job that comes next. *)
THEOREM PipesInStep == Spec => []PipeInStep
<1>1. IndInv => PipeInStep
  <2>1. ASSUME IndInv PROVE PipeInStep
    <3>1. rpcStage = "written" => rpcJob \in Requests
      BY <2>1 DEF IndInv, Accounting, Typed
    <3>2. <<>> \o <<>> = <<>> /\ (rpcJob \in Requests => <<rpcJob>> \o <<>> = <<rpcJob>> /\ <<>> \o <<rpcJob>> = <<rpcJob>>)
      OBVIOUS
    <3> QED
      BY <2>1, <3>1, <3>2 DEF IndInv, Exchange, Pipes, PipeInStep
  <2> QED
    BY <2>1
<1> QED
  BY <1>1, Invariant, PTL

(* _in_flight_or_queued counts the calls between _record_submitted and      *)
(* _record_finished, never more than the slots in use.                      *)
THEOREM InFlightCorrect == Spec => []InFlightExact
<1>1. IndInv => InFlightExact
  BY CountsFinite DEF IndInv, Accounting, Typed, TypeOK, SlotsExact, CountersExact, InFlightExact
<1> QED
  BY <1>1, Invariant, PTL

(* The counters of a snapshot balance in every state. *)
THEOREM StatsBalanced == Spec => []StatsBalance
<1>1. IndInv => StatsBalance
  BY DEF IndInv, Accounting, CountersExact, StatsBalance, Rejected, Undecided
<1> QED
  BY <1>1, Invariant, PTL

-------------------------------------------------------------------------------
(* The boundary that callers see. *)

(* A step that leaves slots alone and tells at most one caller its outcome. *)
LEMMA SeenSettle ==
  ASSUME IndInv, NEW r \in Requests, NEW o \in {"succeeded", "timeout", "failed"},
         NEW p \in {"restarting", "settled"}, phase[r] \in {"recorded", "waiting"},
         Goto(r, p), outcome' = [outcome EXCEPT ![r] = o], UNCHANGED slots
  PROVE  Admission!Settle(r, o)
<1>1. /\ phase \in [Requests -> {"new", "acquired", "recorded", "waiting", "restarting", "settled", "leaving", "done"}]
      /\ outcome \in [Requests -> {"none", "rejected", "succeeded", "timeout", "failed"}]
      /\ outcome[r] = "none"
  BY DEF IndInv, Accounting, Typed, TypeOK, Told
<1>2. SlotStage[r] = "held"
  BY <1>1 DEF SlotStage
<1>3. SlotStage' = SlotStage
  BY <1>1 DEF SlotStage, Goto
<1> QED
  BY <1>1, <1>2, <1>3 DEF Admission!Settle

LEMMA SeenStep == IndInv /\ [Next]_vars => [Admission!Next]_(Admission!vars)
<1> SUFFICES ASSUME IndInv, [Next]_vars PROVE [Admission!Next]_(Admission!vars)
  OBVIOUS
<1>1. /\ phase \in [Requests -> {"new", "acquired", "recorded", "waiting", "restarting", "settled", "leaving", "done"}]
      /\ outcome \in [Requests -> {"none", "rejected", "succeeded", "timeout", "failed"}]
      /\ slots \in 0..MaxPending /\ Told
  BY DEF IndInv, Accounting, Typed, TypeOK
<1>2. ASSUME NEW r \in Requests, Caller(r) PROVE [Admission!Next]_(Admission!vars)
  <2>1. ASSUME NEW o \in {"succeeded", "timeout", "failed"}, Admission!Settle(r, o) PROVE Admission!Next
    BY <2>1 DEF Admission!Next, Admission!Outcomes
  <2>2. CASE Acquire(r)
    <3>1. outcome[r] = "none" /\ SlotStage[r] = "new" /\ SlotStage' = [SlotStage EXCEPT ![r] = "held"]
      BY <1>1, <2>2 DEF Acquire, Goto, SlotStage, Told
    <3>2. Admission!Admit(r)
      BY <2>2, <3>1 DEF Acquire, Admission!Admit
    <3> QED
      BY <3>2 DEF Admission!Next
  <2>3. CASE QueueFull(r)
    <3>1. outcome[r] = "none" /\ SlotStage[r] = "new" /\ SlotStage' = SlotStage
      BY <1>1, <2>3 DEF QueueFull, Goto, SlotStage, Told
    <3>2. Admission!Reject(r)
      BY <2>3, <3>1 DEF QueueFull, Admission!Reject
    <3> QED
      BY <3>2 DEF Admission!Next
  <2>4. CASE SubmitRefused(r)
    BY <2>1, <2>4, SeenSettle DEF SubmitRefused
  <2>5. CASE GotLine(r)
    BY <2>1, <2>5, SeenSettle DEF GotLine
  <2>6. CASE GotNothing(r)
    BY <2>1, <2>6, SeenSettle DEF GotNothing
  <2>7. CASE GotException(r)
    BY <2>1, <2>7, SeenSettle DEF GotException
  <2>8. CASE TimedOut(r)
    BY <2>1, <2>8, SeenSettle DEF TimedOut
  <2>9. CASE ReleaseSlot(r)
    <3>1. outcome[r] \in {"succeeded", "timeout", "failed"} /\ phase[r] = "leaving"
      BY <1>1, <2>9 DEF ReleaseSlot, Told
    <3>2. SlotStage[r] = "held" /\ SlotStage' = [SlotStage EXCEPT ![r] = "released"]
      BY <1>1, <2>9, <3>1 DEF ReleaseSlot, Goto, SlotStage
    <3>3. Admission!Release(r)
      BY <2>9, <3>2 DEF ReleaseSlot, Admission!Release
    <3> QED
      BY <3>3 DEF Admission!Next
  <2>10. CASE RecordSubmitted(r) \/ Submit(r) \/ Restart(r) \/ RecordFinished(r)
    <3>1. UNCHANGED <<slots, outcome>>
      BY <2>10 DEF RecordSubmitted, Submit, Restart, RecordFinished
    <3>2. SlotStage' = SlotStage
      BY <1>1, <2>10 DEF RecordSubmitted, Submit, Restart, RecordFinished, Goto, SlotStage
    <3> QED
      BY <3>1, <3>2 DEF Admission!vars
  <2> QED
    BY <1>2, <2>2, <2>3, <2>4, <2>5, <2>6, <2>7, <2>8, <2>9, <2>10 DEF Caller
<1>3. ASSUME UNCHANGED <<phase, outcome, slots>> PROVE [Admission!Next]_(Admission!vars)
  BY <1>3 DEF Admission!vars, SlotStage
<1>4. CASE Executor
  BY <1>3, <1>4 DEF Executor, TakeJob, EnsureStarted, StartFailed, WriteLine, ReadLine, BrokenPipe, callerVars
<1>5. CASE WorkerAnswers \/ WorkerDies \/ CloseStops \/ CloseShutsDown \/ UNCHANGED vars
  BY <1>3, <1>5 DEF WorkerAnswers, WorkerDies, CloseStops, CloseShutsDown, callerVars, vars
<1> QED
  BY <1>2, <1>3, <1>4, <1>5 DEF Next

(* request() implements the bounded boundary of BoundedAdmission: every     *)
(* step of the threads, the subprocess and close() is one of its steps or   *)
(* invisible to the callers.                                                *)
THEOREM RefinesAdmission == Spec => ImplementsAdmission
<1>1. Init => Admission!Init
  BY DEF Init, Admission!Init, SlotStage
<1> QED
  BY <1>1, SeenStep, Invariant, PTL DEF Spec, ImplementsAdmission, Admission!Spec

-------------------------------------------------------------------------------
(* execute() around request(). *)

(* Whatever execute() does, the worker process below it takes one of its    *)
(* own steps or none.                                                       *)
LEMMA ClientStep == [ClientNext]_allVars => [Next]_vars
<1> SUFFICES ASSUME [ClientNext]_allVars PROVE [Next]_vars
  OBVIOUS
<1>1. CASE \E r \in Requests : Call(r)
  <2>1. PICK r \in Requests : Call(r)
    BY <1>1
  <2>2. CASE Enter(r) \/ Inside(r)
    BY <2>2 DEF Enter, Inside, Caller, Next
  <2>3. CASE WritePayload(r) \/ WriteRaises(r) \/ NoPayload(r) \/ Invalid(r) \/ DeletePayload(r)
    BY <2>3 DEF WritePayload, WriteRaises, NoPayload, Invalid, DeletePayload
  <2>4. CASE ParseLine(r) \/ SnapshotLooks(r) \/ SnapshotPolls(r)
    BY <2>4 DEF ParseLine, SnapshotLooks, SnapshotPolls
  <2> QED
    BY <2>1, <2>2, <2>3, <2>4 DEF Call
<1>2. CASE WorkerHandles
  BY <1>2 DEF WorkerHandles, Next
<1>3. CASE Background
  BY <1>3 DEF Background, Next
<1>4. CASE UNCHANGED allVars
  BY <1>4 DEF allVars
<1> QED
  BY <1>1, <1>2, <1>3, <1>4 DEF ClientNext

(* The client changes nothing about the resident worker: whatever is proved *)
(* of request() holds of request() as execute() calls it.                   *)
THEOREM ClientUsesWorker == ClientSpec => Spec
<1>1. ClientInit => Init
  BY DEF ClientInit
<1> QED
  BY <1>1, ClientStep, PTL DEF ClientSpec, Spec

Steps == {"new", "stored", "inside", "polling", "cleanup", "done"}
Payloads == {"absent", "partial", "stored", "deleted"}
Replies == {"none", "ok", "not_ok", "PAYLOAD_UNAVAILABLE"}
Results == Replies \union {"raised", "INVALID", "QUEUE_FULL", "TIMEOUT", "NO_RESPONSE", "REQUEST_FAILED", "UNAVAILABLE"}

ClientTyped == /\ step \in [Requests -> Steps]
               /\ payload \in [Requests -> Payloads]
               /\ reply \in [Requests -> Replies]
               /\ result \in [Requests -> Results]

(* The finally clause has run when a call is over; a file that was only     *)
(* begun belongs to the call that raised.                                   *)
PayloadInv == \A r \in Requests :
  /\ step[r] = "done" => payload[r] # "stored"
  /\ payload[r] = "partial" => step[r] = "done" /\ result[r] = "raised"

ClientInv == ClientTyped /\ PayloadInv /\ OkIsGenuine

(* A call that was given its line keeps it: its future is resolved, so the  *)
(* executor thread works for others.                                        *)
LEMMA SucceededKept ==
  ASSUME IndInv, [Next]_vars, NEW r \in Requests, outcome[r] = "succeeded"
  PROVE  /\ outcome'[r] = "succeeded"
         /\ answer'[r] = answer[r]
<1>1. /\ outcome \in [Requests -> {"none", "rejected", "succeeded", "timeout", "failed"}]
      /\ answer \in [Requests -> Requests \union {NoJob}]
      /\ queue \in Seq(Requests)
      /\ rpcStage # "idle" => rpcJob \in Requests
      /\ phase[r] \notin {"new", "acquired", "recorded", "waiting"}
  BY DEF IndInv, Accounting, Typed, TypeOK, Told
<1>2. rpcStage # "idle" => rpcJob # r
  BY DEF IndInv, Exchange, OneRunning, Answers
<1>3. ASSUME NEW q \in Requests, Caller(q) PROVE outcome'[r] = "succeeded" /\ answer'[r] = answer[r]
  BY <1>1, <1>3 DEF Caller, Acquire, QueueFull, RecordSubmitted, Submit, SubmitRefused, GotLine, GotNothing,
                    GotException, TimedOut, Restart, RecordFinished, ReleaseSlot
<1>4. CASE TakeJob \/ EnsureStarted \/ WriteLine
  BY <1>4 DEF TakeJob, EnsureStarted, WriteLine, callerVars
<1>5. CASE StartFailed \/ ReadLine \/ BrokenPipe
  BY <1>1, <1>2, <1>5 DEF StartFailed, ReadLine, BrokenPipe, Resolve
<1>6. CASE WorkerAnswers \/ WorkerDies \/ CloseStops \/ CloseShutsDown \/ UNCHANGED vars
  BY <1>6 DEF WorkerAnswers, WorkerDies, CloseStops, CloseShutsDown, callerVars, vars
<1> QED
  BY <1>3, <1>4, <1>5, <1>6 DEF Next, Executor

(* The worker handles the job under way, never the one of a call that has   *)
(* its line already.                                                        *)
LEMMA ReplyKept ==
  ASSUME IndInv, ClientTyped, [ClientNext]_allVars, NEW r \in Requests, outcome[r] = "succeeded"
  PROVE  reply'[r] = reply[r]
<1>1. CASE WorkerHandles
  <2>1. rpcStage = "written" /\ stdin = <<rpcJob>> /\ rpcJob \in Requests
    BY <1>1 DEF WorkerHandles, WorkerAnswers, IndInv, Exchange, Pipes, Accounting, Typed
  <2>2. Head(stdin) = rpcJob
    BY <2>1
  <2>3. rpcJob # r
    BY <2>1 DEF IndInv, Exchange, OneRunning, Answers
  <2> QED
    BY <1>1, <2>2, <2>3 DEF WorkerHandles, ClientTyped
<1>2. CASE \E q \in Requests : Call(q)
  BY <1>2 DEF Call, WritePayload, WriteRaises, NoPayload, Invalid, Enter, Inside, ParseLine,
              SnapshotLooks, SnapshotPolls, DeletePayload, clientVars
<1>3. CASE Background \/ UNCHANGED allVars
  BY <1>3 DEF Background, allVars, clientVars
<1> QED
  BY <1>1, <1>2, <1>3 DEF ClientNext

LEMMA ClientInvInit == ClientInit => ClientInv
BY DEF ClientInit, ClientInv, ClientTyped, PayloadInv, OkIsGenuine, Steps, Payloads, Replies, Results

(* A call that moves on inside execute() disturbs the records of no other. *)
LEMMA OwnResult ==
  ASSUME IndInv, ClientInv, [ClientNext]_allVars,
         NEW q \in Requests, NEW there \in Steps, NEW file \in Payloads, NEW code \in Results,
         step' = [step EXCEPT ![q] = there], payload' = [payload EXCEPT ![q] = file],
         result' = [result EXCEPT ![q] = code], reply' = reply,
         step[q] # "done",
         there = "done" => file # "stored",
         file = "partial" => there = "done" /\ code = "raised",
         code = "ok" => outcome[q] = "succeeded" /\ answer[q] = q /\ reply[q] = "ok"
  PROVE  ClientInv'
<1>1. ClientTyped'
  BY DEF ClientInv, ClientTyped
<1>2. PayloadInv'
  BY DEF ClientInv, ClientTyped, PayloadInv
<1>3. OkIsGenuine'
  <2> SUFFICES ASSUME NEW r \in Requests, result'[r] = "ok"
               PROVE  outcome'[r] = "succeeded" /\ answer'[r] = r /\ reply'[r] = "ok"
    BY DEF OkIsGenuine
  <2>1. outcome[r] = "succeeded" /\ answer[r] = r /\ reply[r] = "ok"
    BY DEF ClientInv, ClientTyped, OkIsGenuine
  <2> QED
    BY <2>1, ClientStep, SucceededKept
<1> QED
  BY <1>1, <1>2, <1>3 DEF ClientInv

LEMMA ClientInvStep == IndInv /\ ClientInv /\ [ClientNext]_allVars => ClientInv'
<1> SUFFICES ASSUME IndInv, ClientInv, [ClientNext]_allVars PROVE ClientInv'
  OBVIOUS
<1>0. /\ step \in [Requests -> Steps] /\ payload \in [Requests -> Payloads]
      /\ reply \in [Requests -> Replies] /\ result \in [Requests -> Results]
      /\ \A r \in Requests : /\ step = [step EXCEPT ![r] = step[r]]
                             /\ payload = [payload EXCEPT ![r] = payload[r]]
                             /\ result = [result EXCEPT ![r] = result[r]]
  BY DEF ClientInv, ClientTyped
<1>1. ASSUME UNCHANGED <<step, payload, result>>,
             reply' \in [Requests -> Replies] PROVE ClientInv'
  <2>1. ClientTyped' /\ PayloadInv'
    BY <1>1 DEF ClientInv, ClientTyped, PayloadInv
  <2>2. OkIsGenuine'
    <3> SUFFICES ASSUME NEW r \in Requests, result[r] = "ok"
                 PROVE  outcome'[r] = "succeeded" /\ answer'[r] = r /\ reply'[r] = "ok"
      BY <1>1 DEF OkIsGenuine
    <3>1. outcome[r] = "succeeded" /\ answer[r] = r /\ reply[r] = "ok"
      BY DEF ClientInv, OkIsGenuine
    <3>2. reply'[r] = reply[r]
      BY <3>1, ReplyKept DEF ClientInv
    <3> QED
      BY <3>1, <3>2, ClientStep, SucceededKept
  <2> QED
    BY <2>1, <2>2 DEF ClientInv
<1>2. ASSUME NEW r \in Requests, Call(r) PROVE ClientInv'
  <2>0. /\ step[r] # "done" => payload[r] # "partial"
        /\ result[r] = "ok" => outcome[r] = "succeeded" /\ answer[r] = r /\ reply[r] = "ok"
        /\ payload[r] \in Payloads /\ reply[r] \in Results /\ result[r] \in Results
        /\ "raised" \in Results /\ "INVALID" \in Results
        /\ payload = [payload EXCEPT ![r] = payload[r]] /\ result = [result EXCEPT ![r] = result[r]]
    BY <1>0 DEF ClientInv, PayloadInv, OkIsGenuine, Replies, Results
  <2> USE DEF At, Returns, Steps, Payloads
  <2>1. CASE WritePayload(r)
    BY <1>0, <2>0, <2>1, OwnResult DEF WritePayload
  <2>2. CASE WriteRaises(r)
    BY <1>0, <2>0, <2>2, OwnResult DEF WriteRaises
  <2>3. CASE NoPayload(r)
    <3>1. /\ step' = [step EXCEPT ![r] = "stored"] /\ payload' = [payload EXCEPT ![r] = payload[r]]
          /\ result' = [result EXCEPT ![r] = result[r]] /\ reply' = reply /\ step[r] = "new"
      BY <2>0, <2>3 DEF NoPayload
    <3> QED
      BY <2>0, <3>1, OwnResult
  <2>4. CASE Invalid(r)
    BY <1>0, <2>0, <2>4, OwnResult DEF Invalid
  <2>5. CASE Enter(r)
    <3>1. /\ step' = [step EXCEPT ![r] = "inside"] /\ payload' = [payload EXCEPT ![r] = payload[r]]
          /\ result' = [result EXCEPT ![r] = result[r]] /\ reply' = reply /\ step[r] = "stored"
      BY <2>0, <2>5 DEF Enter
    <3> QED
      BY <2>0, <3>1, OwnResult
  <2>6. CASE Inside(r)
    BY <1>0, <1>1, <2>6 DEF Inside, clientVars
  <2>7. CASE ParseLine(r)
    <3>1. answer[r] = r /\ outcome[r] = "succeeded"
      BY <2>7 DEF ParseLine, IndInv, Exchange, Answers
    <3>2. /\ step' = [step EXCEPT ![r] = "cleanup"] /\ payload' = [payload EXCEPT ![r] = payload[r]]
          /\ result' = [result EXCEPT ![r] = reply[r]] /\ reply' = reply /\ step[r] = "inside"
      BY <2>0, <2>7, <3>1 DEF ParseLine
    <3> QED
      BY <2>0, <3>1, <3>2, OwnResult
  <2>8. FailureCode(lastFailure) \in Results \ {"ok"}
    BY DEF FailureCode, Results, Replies
  <2>9. CASE SnapshotLooks(r)
    <3>1. CASE process # "none"
      BY <1>0, <2>0, <2>9, <3>1, OwnResult DEF SnapshotLooks
    <3>2. CASE process = "none"
      BY <1>0, <2>0, <2>8, <2>9, <3>2, OwnResult DEF SnapshotLooks
    <3> QED
      BY <3>1, <3>2
  <2>10. CASE SnapshotPolls(r)
    <3>1. CASE process # "none"
      BY <1>0, <2>0, <2>8, <2>10, <3>1, OwnResult DEF SnapshotPolls
    <3>2. CASE process = "none"
      BY <1>0, <2>0, <2>10, <3>2, OwnResult DEF SnapshotPolls
    <3> QED
      BY <3>1, <3>2
  <2>11. CASE DeletePayload(r)
    BY <1>0, <2>0, <2>11, OwnResult DEF DeletePayload
  <2> QED
    BY <1>2, <2>1, <2>2, <2>3, <2>4, <2>5, <2>6, <2>7, <2>9, <2>10, <2>11 DEF Call
<1>3. CASE WorkerHandles
  <2>1. PICK content \in Replies : reply' = [reply EXCEPT ![Head(stdin)] = content]
    BY <1>3 DEF WorkerHandles, Replies
  <2>2. reply' \in [Requests -> Replies]
    BY <1>0, <2>1
  <2> QED
    BY <1>1, <1>3, <2>2 DEF WorkerHandles
<1>4. CASE Background \/ UNCHANGED allVars
  BY <1>0, <1>1, <1>4 DEF Background, allVars, clientVars
<1> QED
  BY <1>2, <1>3, <1>4 DEF ClientNext

(* In every reachable state of the client the payload files and the results *)
(* are in order.                                                            *)
THEOREM ClientInvariant == ClientSpec => []ClientInv
<1>1. ClientSpec => []IndInv
  BY ClientUsesWorker, Invariant, PTL
<1> QED
  BY <1>1, ClientInvInit, ClientInvStep, PTL DEF ClientSpec

(* The raw text of a call never outlives it, for any number of concurrent   *)
(* calls, whatever the worker, the queue and close() do.                    *)
THEOREM PayloadsDeleted == ClientSpec => []PayloadGone
<1>1. ClientInv => PayloadGone
  BY DEF ClientInv, PayloadInv, PayloadGone
<1> QED
  BY <1>1, ClientInvariant, PTL

(* execute() says ok only of a line the worker printed for this very call.  *)
THEOREM ResultsAreGenuine == ClientSpec => []OkIsGenuine
<1>1. ClientInv => OkIsGenuine
  BY DEF ClientInv
<1> QED
  BY <1>1, ClientInvariant, PTL
-------------------------------------------------------------------------------
HIDE RequestsAssumption
HIDE PendingAssumption

(***************************************************************************)
(* The health checks that probe the workers                                *)
(*                                                                         *)
(* An answer is given looks later than what it rests on.  What a check has *)
(* written down of a part (FindingFits) is said of the two histories: it   *)
(* stays true because of the parts that were out of order more and more    *)
(* are known while the check is asking, and fewer that were so all the     *)
(* time.  That a single look agrees with the histories needs that these    *)
(* have the present state between them (Watched).                          *)
(***************************************************************************)
FindResults == {"healthy", "unhealthy", "degraded", "disabled"}
Parts == Surroundings \cup {"config"}

CheckRecord ==
  [route: Routes, pc: {"new", "looking", "probing", "answered"}, found: UNION {[D -> FindResults] : D \in SUBSET Parts},
   code: {None, 200, 503}]

ReadinessTypes ==
  /\ settings \in Settings
  /\ order \in [Surroundings -> BOOLEAN]
  /\ processes \in [Clients -> {"none", "running", "warm"}]
  /\ loop \in Checks \cup Jobs \cup {None}
  /\ check \in [Checks -> CheckRecord]
  /\ everBad \in [Checks -> SUBSET (Parts \cup {"paddle_models"})]
  /\ alwaysBad \in [Checks -> SUBSET (Parts \cup {"paddle_models"})]

Looked(r) == Cardinality(DOMAIN r.found)
NextPart(r) == Looks(r.route)[Looked(r) + 1]

Needed(s, part) == part # "redis" /\ (part \in Workers => s.workers /\ (part = "torch" => s.context > 0))

FindingFits(s, part, status, bad, always) ==
  /\ status = "healthy" => part \notin always
  /\ status = "unhealthy" => part \in bad /\ Needed(s, part)
  /\ status = "degraded" => part = "redis"
  /\ status = "disabled" => ~Needed(s, part)

(* A check has looked at the first parts of its list, and at each of them    *)
(* once; it probes a worker that it has to probe.                            *)
CheckFits(s, r, bad, always) ==
  /\ IsFiniteSet(DOMAIN r.found) /\ Looked(r) \in 0 .. Len(Looks(r.route))
  /\ DOMAIN r.found = {Looks(r.route)[i] : i \in 1 .. Looked(r)}
  /\ \A part \in DOMAIN r.found : FindingFits(s, part, r.found[part], bad, always)
  /\ r.pc = "new" => r.found = << >>
  /\ r.pc = "probing" =>
       /\ Looked(r) < Len(Looks(r.route)) /\ NextPart(r) \in Workers
       /\ Needed(s, NextPart(r)) /\ (NextPart(r) = "torch" => s.manifests)

Watched == \A c \in Checks : Asking(c) => Bad \subseteq everBad[c] /\ alwaysBad[c] \subseteq Bad

ReadinessInv ==
  /\ ReadinessTypes /\ Watched /\ AnswersAreHonest
  /\ \A c \in Checks : CheckFits(settings, check[c], everBad[c], alwaysBad[c])
  /\ \A c \in Checks : loop = c => check[c].pc = "probing"

(* A list of looks names five or six parts, none of them twice.              *)
LEMMA LooksAt ==
  ASSUME NEW route \in Routes
  PROVE  /\ Len(Looks(route)) \in Nat
         /\ \A i \in 1 .. Len(Looks(route)) : Looks(route)[i] \in Parts
         /\ \A i, j \in 1 .. Len(Looks(route)) : Looks(route)[i] = Looks(route)[j] => i = j
         /\ {Looks(route)[i] : i \in 1 .. Len(Looks(route))} =
              {"postgres", "migrations", "config", "torch", "paddle"}
                \cup CASE route = "dashboard" -> {"filter_table"} [] route = "readyz" -> {} [] OTHER -> {"redis"}
<1>1. CASE route = "dashboard"
  <2>1. Looks(route) = <<"postgres", "migrations", "config", "torch", "paddle", "filter_table">>
    BY <1>1 DEF Looks
  <2> QED
    BY <1>1, <2>1 DEF Parts, Surroundings
<1>2. CASE route = "readyz"
  <2>1. Looks(route) = <<"postgres", "migrations", "config", "torch", "paddle">>
    BY <1>2 DEF Looks
  <2> QED
    BY <1>2, <2>1 DEF Parts, Surroundings
<1>3. CASE route \in {"healthz", "status"}
  <2>1. Looks(route) = <<"postgres", "migrations", "config", "torch", "paddle", "redis">>
    BY <1>3 DEF Looks
  <2> QED
    BY <1>3, <2>1 DEF Parts, Surroundings
<1> QED
  BY <1>1, <1>2, <1>3 DEF Routes

LEMMA NeededIsRequired ==
  \A part : (Required(part) <=> Needed(settings, part)) /\ (part \in Workers => (WorkerRequired(part) <=> Needed(settings, part)))
BY DEF Required, WorkerRequired, Needed, Workers

(* A check that looks on writes down what it finds of the next part.         *)
Found(r, status) ==
  [r EXCEPT !.pc = "looking",
            !.found = [part \in DOMAIN r.found \cup {NextPart(r)} |-> IF part = NextPart(r) THEN status ELSE r.found[part]]]

LEMMA FoundFits ==
  ASSUME NEW s, NEW r \in CheckRecord, NEW bad, NEW always, NEW status \in FindResults,
         CheckFits(s, r, bad, always), Looked(r) < Len(Looks(r.route)),
         FindingFits(s, NextPart(r), status, bad, always)
  PROVE  Found(r, status) \in CheckRecord /\ CheckFits(s, Found(r, status), bad, always)
<1> DEFINE D == DOMAIN r.found
           n == Looked(r)
           part == NextPart(r)
           found == [p \in D \cup {part} |-> IF p = part THEN status ELSE r.found[p]]
           l == Looks(r.route)
<1>1. r.route \in Routes /\ r.code \in {None, 200, 503} /\ D \subseteq Parts /\ r.found \in [D -> FindResults]
  BY DEF CheckRecord
<1>2. n \in Nat /\ n + 1 \in 1 .. Len(l) /\ IsFiniteSet(D) /\ D = {l[i] : i \in 1 .. n}
  BY <1>1, LooksAt DEF CheckFits
<1>3. part = l[n + 1] /\ part \in Parts
  BY <1>1, <1>2, LooksAt DEF NextPart
<1>4. part \notin D
  <2>1. \A i \in 1 .. n : l[i] # l[n + 1]
    BY <1>1, <1>2, LooksAt
  <2> QED
    BY <1>2, <1>3, <2>1
<1>5. IsFiniteSet(D \cup {part}) /\ Cardinality(D \cup {part}) = n + 1
  BY <1>2, <1>4, FS_AddElement DEF Looked
<1>6. D \cup {part} = {l[i] : i \in 1 .. n + 1}
  BY <1>2, <1>3
<1>7. found \in [D \cup {part} -> FindResults] /\ D \cup {part} \in SUBSET Parts
  BY <1>1, <1>3
<1>8. Found(r, status) = [route |-> r.route, pc |-> "looking", found |-> found, code |-> r.code]
  <2>1. r = [route |-> r.route, pc |-> r.pc, found |-> r.found, code |-> r.code]
    BY DEF CheckRecord
  <2> HIDE DEF found
  <2>2. Found(r, status) = [r EXCEPT !.pc = "looking", !.found = found]
    BY DEF Found, found
  <2> QED
    BY <2>1, <2>2
<1>9. Found(r, status) \in CheckRecord
  <2> HIDE DEF found
  <2>1. found \in UNION {[X -> FindResults] : X \in SUBSET Parts}
    BY <1>7
  <2> QED
    BY <1>1, <1>8, <2>1 DEF CheckRecord
<1>10. \A p \in D \cup {part} : FindingFits(s, p, found[p], bad, always)
  BY <1>4 DEF CheckFits
<1>11. DOMAIN found = D \cup {part}
  OBVIOUS
<1> HIDE DEF found, l, n, D, part
<1> DEFINE q == Found(r, status)
<1>12. q.route = r.route /\ q.pc = "looking" /\ q.found = found
  BY <1>8
<1> HIDE DEF q
<1>13. Looked(q) = n + 1 /\ DOMAIN q.found = D \cup {part}
  BY <1>5, <1>11, <1>12 DEF Looked
<1>14. CheckFits(s, q, bad, always)
  <2>1. IsFiniteSet(DOMAIN q.found) /\ Looked(q) \in 0 .. Len(Looks(q.route))
    BY <1>1, <1>2, <1>5, <1>12, <1>13, LooksAt DEF l
  <2>2. DOMAIN q.found = {Looks(q.route)[i] : i \in 1 .. Looked(q)}
    BY <1>6, <1>12, <1>13 DEF l
  <2>3. \A p \in DOMAIN q.found : FindingFits(s, p, q.found[p], bad, always)
    BY <1>10, <1>12, <1>13
  <2> QED
    BY <1>12, <2>1, <2>2, <2>3 DEF CheckFits
<1> QED
  BY <1>9, <1>14 DEF q

(* What was found stays true as the histories go on.                         *)
LEMMA FitsLater ==
  ASSUME NEW s, NEW r, NEW bad, NEW always, NEW bad2, NEW always2,
         CheckFits(s, r, bad, always), bad \subseteq bad2, always2 \subseteq always
  PROVE  CheckFits(s, r, bad2, always2)
<1>1. \A part \in DOMAIN r.found : FindingFits(s, part, r.found[part], bad2, always2)
  BY DEF CheckFits, FindingFits
<1> QED
  BY <1>1 DEF CheckFits

(* A check that has looked at all parts answers what is true of them.        *)
LEMMA AnswerIsHonest ==
  ASSUME NEW c \in Checks, ReadinessTypes, CheckFits(settings, check[c], everBad[c], alwaysBad[c]), ~MoreToLook(c)
  PROVE  IF Unavailable(check[c].route, check[c].found) THEN everBad[c] \cap AnswersFor(check[c].route) # {}
         ELSE alwaysBad[c] \cap AnswersFor(check[c].route) = {}
<1> DEFINE route == check[c].route
           found == check[c].found
           asked == {"postgres", "migrations", "config", "torch", "paddle"}
                      \cup CASE route = "dashboard" -> {"filter_table"} [] route = "readyz" -> {} [] OTHER -> {"redis"}
           needed == {part \in Parts : Required(part)} \ {"filter_table"}
           reported == DOMAIN found \ {"filter_table"}
<1>1. check[c] \in CheckRecord /\ route \in Routes
  BY DEF ReadinessTypes, CheckRecord
<1>2. \A part \in DOMAIN found : found[part] \in FindResults
  BY <1>1 DEF CheckRecord
<1>3. DOMAIN found = asked
  <2>1. Looked(check[c]) = Len(Looks(route))
    BY <1>1, LooksAt DEF CheckFits, MoreToLook, Looked
  <2> QED
    BY <1>1, <2>1, LooksAt DEF CheckFits
<1>4. ASSUME NEW part \in DOMAIN found, found[part] = "unhealthy" PROVE part \in everBad[c] /\ Required(part)
  BY <1>4, NeededIsRequired DEF CheckFits, FindingFits
<1>5. ASSUME NEW part \in DOMAIN found, found[part] # "unhealthy", Required(part) PROVE part \notin alwaysBad[c]
  BY <1>2, <1>5, NeededIsRequired DEF CheckFits, FindingFits, FindResults, Needed
<1>6. ASSUME NEW part \in DOMAIN found, found[part] = "degraded" PROVE part = "redis"
  BY <1>6 DEF CheckFits, FindingFits
<1>7. needed \subseteq DOMAIN found /\ needed \subseteq Parts
  BY <1>3, NeededIsRequired DEF Parts, Surroundings, Needed
<1>8. \A part \in reported : part \in Parts
  BY <1>3 DEF Parts, Surroundings
<1>9. Required("postgres") /\ Required("migrations") /\ Required("filter_table")
  BY NeededIsRequired DEF Needed, Workers
<1> HIDE DEF found, asked
<1>10. CASE route = "dashboard"
  <2>1. AnswersFor(route) = {"postgres", "migrations", "filter_table"}
    BY <1>10 DEF AnswersFor
  <2>2. {"postgres", "migrations", "filter_table"} \subseteq DOMAIN found
    BY <1>3, <1>10 DEF asked
  <2>3. Unavailable(route, found) <=> \E part \in {"postgres", "migrations", "filter_table"} : found[part] = "unhealthy"
    BY <1>10 DEF Unavailable
  <2> QED
    BY <1>4, <1>5, <1>9, <2>1, <2>2, <2>3 DEF found
<1>11. CASE route # "dashboard"
  <2>1. AnswersFor(route) = needed
    BY <1>11 DEF AnswersFor, Parts
  <2>2. ASSUME \E part \in reported : found[part] = "unhealthy" PROVE everBad[c] \cap needed # {}
    BY <1>4, <1>8, <2>2
  <2>3. ASSUME \A part \in reported : Required(part) => found[part] # "unhealthy" PROVE alwaysBad[c] \cap needed = {}
    BY <1>5, <1>7, <2>3
  <2>4. CASE route = "readyz"
    <3>1. "redis" \notin DOMAIN found
      BY <1>3, <2>4 DEF asked
    <3>2. Unavailable(route, found) <=> \E part \in reported : found[part] \in {"unhealthy", "degraded"}
      BY <1>4, <2>4 DEF Unavailable, Aggregate
    <3> HIDE DEF needed
    <3> QED
      BY <1>6, <2>1, <2>2, <2>3, <3>1, <3>2 DEF found
  <2>5. CASE route # "readyz"
    <3>1. Unavailable(route, found) <=> \E part \in reported : Required(part) /\ found[part] = "unhealthy"
      BY <1>11, <2>5 DEF Unavailable, Aggregate
    <3> HIDE DEF needed
    <3> QED
      BY <2>1, <2>2, <2>3, <3>1 DEF found
  <2> QED
    BY <2>4, <2>5
<1> QED
  BY <1>10, <1>11

Honest(c) == check[c].pc = "answered" =>
  /\ check[c].code = 200 => alwaysBad[c] \cap AnswersFor(check[c].route) = {}
  /\ check[c].code = 503 => everBad[c] \cap AnswersFor(check[c].route) # {}

(* A check that the step leaves alone: its histories go on while it asks.    *)
LEMMA CheckKept ==
  ASSUME ReadinessInv, settings' = settings, NEW c \in Checks, check'[c] = check[c],
         IF Asking(c) THEN everBad[c] \subseteq everBad'[c] /\ alwaysBad'[c] \subseteq alwaysBad[c]
         ELSE everBad'[c] = everBad[c] /\ alwaysBad'[c] = alwaysBad[c]
  PROVE  CheckFits(settings', check'[c], everBad'[c], alwaysBad'[c]) /\ Honest(c)'
<1>1. CheckFits(settings, check[c], everBad[c], alwaysBad[c]) /\ Honest(c)
  BY DEF ReadinessInv, AnswersAreHonest, Honest
<1>2. CheckFits(settings', check'[c], everBad'[c], alwaysBad'[c])
  BY <1>1, FitsLater
<1>3. \A route : AnswersFor(route)' = AnswersFor(route)
  BY DEF AnswersFor, Required, WorkerRequired
<1>4. Honest(c)'
  BY <1>1, <1>3 DEF Honest, Asking
<1> QED
  BY <1>2, <1>4

LEMMA InvFromChecks ==
  ASSUME ReadinessTypes', Watched',
         \A c \in Checks : CheckFits(settings', check'[c], everBad'[c], alwaysBad'[c]) /\ Honest(c)',
         \A c \in Checks : loop' = c => check'[c].pc = "probing"
  PROVE  ReadinessInv'
BY DEF ReadinessInv, AnswersAreHonest, Honest

LEMMA PaddleIsNeverBad == "paddle" \notin Bad
BY DEF Bad, InOrder

LEMMA BadStays ==
  ASSUME settings' = settings, order' = order,
         (processes'[ProbeClient("torch")] = "warm") <=> (processes[ProbeClient("torch")] = "warm")
  PROVE  Bad' = Bad
<1>1. \A part : InOrder(part)' = InOrder(part)
  BY DEF InOrder, ProbeClient
<1> QED
  BY <1>1 DEF Bad

(* The histories after a step that may put parts out of order, or in order.  *)
LEMMA WatchedStep ==
  ASSUME ReadinessTypes, NEW failed, \A c \in Checks : failed[c] \subseteq Parts, WatchAnd(failed)
  PROVE  /\ everBad' \in [Checks -> SUBSET (Parts \cup {"paddle_models"})]
         /\ alwaysBad' \in [Checks -> SUBSET (Parts \cup {"paddle_models"})]
         /\ \A c \in Checks :
              IF Asking(c) THEN everBad'[c] = everBad[c] \cup Bad' \cup failed[c] /\ alwaysBad'[c] = alwaysBad[c] \cap Bad'
              ELSE everBad'[c] = everBad[c] /\ alwaysBad'[c] = alwaysBad[c]
<1>1. Bad' \subseteq Parts \cup {"paddle_models"}
  BY DEF Bad, InOrder, Parts, Surroundings
<1>2. everBad' = [c \in Checks |-> IF Asking(c) THEN everBad[c] \cup Bad' \cup failed[c] ELSE everBad[c]]
      /\ alwaysBad' = [c \in Checks |-> IF Asking(c) THEN alwaysBad[c] \cap Bad' ELSE alwaysBad[c]]
  BY DEF WatchAnd
<1> QED
  BY <1>1, <1>2 DEF ReadinessTypes

(* Surroundings, and workers of others: the checks stay as they are.         *)
LEMMA ChecksLeftAlone ==
  ASSUME ReadinessInv, settings' = settings, check' = check, Watch, order' \in [Surroundings -> BOOLEAN],
         processes' \in [Clients -> {"none", "running", "warm"}], loop' \in {loop, None}
  PROVE  ReadinessInv'
<1>1. ReadinessTypes
  BY DEF ReadinessInv
<1> DEFINE failed == [c \in Checks |-> {}]
<1>2. WatchAnd(failed) /\ \A c \in Checks : failed[c] \subseteq Parts
  BY DEF Watch
<1>3. /\ everBad' \in [Checks -> SUBSET (Parts \cup {"paddle_models"})]
      /\ alwaysBad' \in [Checks -> SUBSET (Parts \cup {"paddle_models"})]
      /\ \A c \in Checks :
           IF Asking(c) THEN everBad'[c] = everBad[c] \cup Bad' \cup failed[c] /\ alwaysBad'[c] = alwaysBad[c] \cap Bad'
           ELSE everBad'[c] = everBad[c] /\ alwaysBad'[c] = alwaysBad[c]
  BY <1>1, <1>2, WatchedStep
<1>4. ReadinessTypes'
  BY <1>1, <1>3 DEF ReadinessTypes
<1>5. Watched'
  BY <1>3 DEF Watched, Asking
<1>6. \A c \in Checks : CheckFits(settings', check'[c], everBad'[c], alwaysBad'[c]) /\ Honest(c)'
  BY <1>3, CheckKept
<1>7. \A c \in Checks : loop' = c => check'[c].pc = "probing"
  BY ReadinessAssumption DEF ReadinessInv
<1> QED
  BY <1>4, <1>5, <1>6, <1>7, InvFromChecks

(* Steps of one check or job after which the same parts are out of order.    *)
LEMMA OneCheckGoesOn ==
  ASSUME ReadinessInv, UNCHANGED <<settings, order>>, NEW c \in Checks, NEW r \in CheckRecord,
         check' = [check EXCEPT ![c] = r], Unwatched, Bad' = Bad,
         processes' \in [Clients -> {"none", "running", "warm"}],
         Asking(c), CheckFits(settings, r, everBad[c], alwaysBad[c]),
         r.pc = "answered" =>
           /\ r.code = 200 => alwaysBad[c] \cap AnswersFor(r.route) = {}
           /\ r.code = 503 => everBad[c] \cap AnswersFor(r.route) # {},
         loop = None \/ loop = c, loop' \in {None, c}, loop' = c => r.pc = "probing"
  PROVE  ReadinessInv'
<1>1. ReadinessTypes /\ everBad' = everBad /\ alwaysBad' = alwaysBad
  BY DEF ReadinessInv, Unwatched
<1>2. check' \in [Checks -> CheckRecord] /\ check'[c] = r /\ \A d \in Checks \ {c} : check'[d] = check[d]
  BY <1>1 DEF ReadinessTypes
<1>3. ReadinessTypes'
  BY <1>1, <1>2 DEF ReadinessTypes
<1>4. Watched'
  BY <1>1, <1>2 DEF ReadinessInv, Watched, Asking
<1>5. ASSUME NEW d \in Checks
      PROVE  CheckFits(settings', check'[d], everBad'[d], alwaysBad'[d]) /\ Honest(d)'
  <2>1. CASE d = c
    <3>1. AnswersFor(r.route)' = AnswersFor(r.route)
      BY DEF AnswersFor, Required, WorkerRequired
    <3> QED
      BY <1>1, <1>2, <2>1, <3>1 DEF Honest
  <2>2. CASE d # c
    BY <1>1, <1>2, <2>2, CheckKept
  <2> QED
    BY <2>1, <2>2
<1>6. \A d \in Checks : loop' = d => check'[d].pc = "probing"
  BY <1>2, ReadinessAssumption
<1> QED
  BY <1>3, <1>4, <1>5, <1>6, InvFromChecks

LEMMA FindsIsFound ==
  ASSUME NEW c \in Checks, NEW status, check \in [Checks -> CheckRecord], Finds(c, status)
  PROVE  check' = [check EXCEPT ![c] = Found(check[c], status)]
BY DEF Finds, Found, CheckRecord, Part, NextPart, Looked

(* What a check finds without changing anything but its own record.          *)
LEMMA FindingStep ==
  ASSUME ReadinessInv, UNCHANGED <<settings, order>>, NEW c \in Checks, NEW status \in FindResults,
         Asking(c), MoreToLook(c), Finds(c, status), Unwatched, Bad' = Bad,
         processes' \in [Clients -> {"none", "running", "warm"}],
         FindingFits(settings, Part(c), status, everBad[c], alwaysBad[c]),
         loop = None \/ loop = c, loop' = None
  PROVE  ReadinessInv'
<1>1. ReadinessTypes /\ check \in [Checks -> CheckRecord] /\ check[c] \in CheckRecord
      /\ CheckFits(settings, check[c], everBad[c], alwaysBad[c])
  BY DEF ReadinessInv, ReadinessTypes
<1>2. Looked(check[c]) < Len(Looks(check[c].route)) /\ NextPart(check[c]) = Part(c)
  BY DEF MoreToLook, Looked, NextPart, Part
<1> DEFINE r == Found(check[c], status)
<1>3. r \in CheckRecord /\ CheckFits(settings, r, everBad[c], alwaysBad[c])
  BY <1>1, <1>2, FoundFits
<1>4. r.pc = "looking"
  BY <1>1 DEF Found, CheckRecord
<1>5. check' = [check EXCEPT ![c] = r]
  BY <1>1, FindsIsFound
<1>6. loop' # c
  BY ReadinessAssumption
<1> HIDE DEF r
<1> QED
  BY <1>3, <1>4, <1>5, <1>6, OneCheckGoesOn

LEMMA StartedStays ==
  ASSUME ReadinessTypes, NEW k, settings' = settings, order' = order, processes' = [processes EXCEPT ![k] = Started(k)]
  PROVE  processes' \in [Clients -> {"none", "running", "warm"}] /\ Bad' = Bad
<1>1. processes' \in [Clients -> {"none", "running", "warm"}]
  BY DEF ReadinessTypes, Started
<1>2. ProbeClient("torch") \in Clients
  BY DEF ProbeClient, Clients
<1>3. (processes'[ProbeClient("torch")] = "warm") <=> (processes[ProbeClient("torch")] = "warm")
  BY <1>2 DEF ReadinessTypes, Started
<1> QED
  BY <1>1, <1>3, BadStays

LEMMA SurroundingsStep ==
  ASSUME ReadinessInv, (\E part \in Surroundings : Change(part)) \/ (\E k \in Clients : ProcessDies(k))
  PROVE  ReadinessInv'
<1>1. ReadinessTypes
  BY DEF ReadinessInv
<1>2. CASE \E part \in Surroundings : Change(part)
  <2>1. order' \in [Surroundings -> BOOLEAN]
    BY <1>1, <1>2 DEF Change, ReadinessTypes
  <2> QED
    BY <1>1, <1>2, <2>1, ChecksLeftAlone DEF Change, ReadinessTypes
<1>3. CASE \E k \in Clients : ProcessDies(k)
  BY <1>1, <1>3, ChecksLeftAlone DEF ProcessDies, ReadinessTypes
<1> QED
  BY <1>2, <1>3

LEMMA JobStep ==
  ASSUME ReadinessInv, NEW j \in Jobs, Use(j) \/ Used(j) \/ UseFails(j)
  PROVE  ReadinessInv'
<1>1. ReadinessTypes
  BY DEF ReadinessInv
<1>2. CASE Use(j)
  <2>1. /\ UNCHANGED <<settings, order, check>> /\ Unwatched /\ loop' = j
        /\ processes' = [processes EXCEPT ![JobClient(job[j].worker)] = Started(JobClient(job[j].worker))]
    BY <1>2 DEF Use
  <2>2. processes' \in [Clients -> {"none", "running", "warm"}] /\ Bad' = Bad
    BY <1>1, <2>1, StartedStays
  <2>3. everBad' = everBad /\ alwaysBad' = alwaysBad
    BY <2>1 DEF Unwatched
  <2>4. ReadinessTypes'
    BY <1>1, <2>1, <2>2, <2>3 DEF ReadinessTypes
  <2>5. Watched'
    BY <2>1, <2>2, <2>3 DEF ReadinessInv, Watched, Asking
  <2>6. \A c \in Checks : CheckFits(settings', check'[c], everBad'[c], alwaysBad'[c]) /\ Honest(c)'
    BY <2>1, <2>3, CheckKept
  <2>7. \A c \in Checks : loop' # c
    BY <2>1, ReadinessAssumption
  <2> QED
    BY <2>4, <2>5, <2>6, <2>7, InvFromChecks
<1>3. CASE Used(j)
  <2>1. processes' \in [Clients -> {"none", "running", "warm"}]
    BY <1>1, <1>3 DEF Used, ReadinessTypes
  <2> QED
    BY <1>1, <1>3, <2>1, ChecksLeftAlone DEF Used, ReadinessTypes
<1>4. CASE UseFails(j)
  <2>1. processes' \in [Clients -> {"none", "running", "warm"}]
    BY <1>1, <1>4 DEF UseFails, ReadinessTypes
  <2> QED
    BY <1>1, <1>4, <2>1, ChecksLeftAlone DEF UseFails, ReadinessTypes
<1> QED
  BY <1>2, <1>3, <1>4

LEMMA BeginStep == ASSUME ReadinessInv, NEW c \in Checks, Begin(c) PROVE ReadinessInv'
<1>1. ReadinessTypes /\ check[c] \in CheckRecord /\ CheckFits(settings, check[c], everBad[c], alwaysBad[c])
  BY DEF ReadinessInv, ReadinessTypes
<1> DEFINE r == [check[c] EXCEPT !.pc = "looking"]
<1>2. /\ UNCHANGED <<settings, order, processes, loop>> /\ check[c].pc = "new" /\ loop = None
      /\ check' = [check EXCEPT ![c] = r]
      /\ everBad' = [everBad EXCEPT ![c] = Bad] /\ alwaysBad' = [alwaysBad EXCEPT ![c] = Bad]
  BY <1>1 DEF Begin, ReadinessTypes
<1>3. r \in CheckRecord /\ r.pc = "looking" /\ r.found = << >> /\ r.route = check[c].route
  BY <1>1, <1>2 DEF CheckRecord, CheckFits
<1> HIDE DEF r
<1>4. \A part \in DOMAIN r.found : FALSE
  BY <1>3
<1>5. CheckFits(settings, r, Bad, Bad)
  BY <1>1, <1>2, <1>3, <1>4 DEF CheckFits, Looked
<1>6. Bad \subseteq Parts \cup {"paddle_models"} /\ Bad' = Bad
  BY <1>2, BadStays DEF Bad, InOrder, Parts, Surroundings
<1>7. check'[c] = r /\ \A d \in Checks \ {c} : check'[d] = check[d]
  BY <1>1, <1>2 DEF ReadinessTypes
<1>8. /\ everBad'[c] = Bad /\ alwaysBad'[c] = Bad
      /\ \A d \in Checks \ {c} : everBad'[d] = everBad[d] /\ alwaysBad'[d] = alwaysBad[d]
  BY <1>1, <1>2 DEF ReadinessTypes
<1>9. ReadinessTypes'
  <2>1. check' \in [Checks -> CheckRecord]
    BY <1>1, <1>2, <1>3 DEF ReadinessTypes
  <2>2. /\ everBad' \in [Checks -> SUBSET (Parts \cup {"paddle_models"})]
        /\ alwaysBad' \in [Checks -> SUBSET (Parts \cup {"paddle_models"})]
    BY <1>1, <1>2, <1>6 DEF ReadinessTypes
  <2> QED
    BY <1>1, <1>2, <2>1, <2>2 DEF ReadinessTypes
<1>10. Watched'
  BY <1>6, <1>7, <1>8 DEF ReadinessInv, Watched, Asking
<1>11. ASSUME NEW d \in Checks
       PROVE  CheckFits(settings', check'[d], everBad'[d], alwaysBad'[d]) /\ Honest(d)'
  <2>1. CASE d = c
    BY <1>2, <1>3, <1>5, <1>7, <1>8, <2>1 DEF Honest
  <2>2. CASE d # c
    BY <1>2, <1>7, <1>8, <2>2, CheckKept
  <2> QED
    BY <2>1, <2>2
<1>12. \A d \in Checks : loop' # d
  BY <1>2, ReadinessAssumption
<1> QED
  BY <1>9, <1>10, <1>11, <1>12, InvFromChecks

LEMMA LookStep == ASSUME ReadinessInv, NEW c \in Checks, Look(c) PROVE ReadinessInv'
<1> DEFINE status == IF Part(c) = "redis" /\ ~settings.redis THEN "disabled"
                     ELSE IF InOrder(Part(c)) THEN "healthy"
                     ELSE IF Part(c) = "redis" THEN "degraded"
                     ELSE "unhealthy"
<1>1. /\ loop = None /\ Asking(c) /\ MoreToLook(c) /\ Part(c) \notin Workers /\ Finds(c, status) /\ Unwatched
      /\ UNCHANGED <<settings, order, processes, loop>>
  BY DEF Look, Asking
<1>2. ReadinessTypes /\ Bad \subseteq everBad[c] /\ alwaysBad[c] \subseteq Bad
  BY <1>1 DEF ReadinessInv, Watched
<1>3. Part(c) \in Parts
  <2>1. check[c].route \in Routes
    BY <1>2 DEF ReadinessTypes, CheckRecord
  <2>2. Looked(check[c]) + 1 \in 1 .. Len(Looks(check[c].route))
    BY <1>1, <2>1, LooksAt DEF ReadinessInv, CheckFits, MoreToLook, Looked
  <2> QED
    BY <2>1, <2>2, LooksAt DEF Part, Looked
<1>4. InOrder(Part(c)) <=> Part(c) \notin Bad
  BY <1>3 DEF Bad, Parts, Surroundings
<1>5. FindingFits(settings, Part(c), status, everBad[c], alwaysBad[c])
  BY <1>1, <1>2, <1>4 DEF FindingFits, Needed
<1>6. Bad' = Bad
  BY <1>1, BadStays
<1>7. status \in FindResults
  BY DEF FindResults
<1> HIDE DEF status
<1> QED
  BY <1>1, <1>2, <1>5, <1>6, <1>7, FindingStep DEF ReadinessTypes

LEMMA SkipProbeStep == ASSUME ReadinessInv, NEW c \in Checks, SkipProbe(c) PROVE ReadinessInv'
<1> DEFINE status == IF WorkerRequired(Part(c)) THEN "unhealthy" ELSE "disabled"
<1>1. /\ loop = None /\ Asking(c) /\ MoreToLook(c) /\ Part(c) \in Workers /\ Finds(c, status) /\ Unwatched
      /\ ~WorkerRequired(Part(c)) \/ (Part(c) = "torch" /\ ~settings.manifests)
      /\ UNCHANGED <<settings, order, processes, loop>>
  BY DEF SkipProbe, Asking
<1>2. ReadinessTypes /\ Bad \subseteq everBad[c]
  BY <1>1 DEF ReadinessInv, Watched
<1>3. WorkerRequired(Part(c)) => Part(c) \in Bad
  BY <1>1 DEF Bad, InOrder, Surroundings
<1>4. FindingFits(settings, Part(c), status, everBad[c], alwaysBad[c])
  BY <1>1, <1>2, <1>3, NeededIsRequired DEF FindingFits
<1>5. Bad' = Bad
  BY <1>1, BadStays
<1>6. status \in FindResults
  BY DEF FindResults
<1> HIDE DEF status
<1> QED
  BY <1>1, <1>2, <1>4, <1>5, <1>6, FindingStep DEF ReadinessTypes

LEMMA ProbeStep == ASSUME ReadinessInv, NEW c \in Checks, Probe(c) PROVE ReadinessInv'
<1>1. ReadinessTypes /\ check[c] \in CheckRecord /\ CheckFits(settings, check[c], everBad[c], alwaysBad[c])
  BY DEF ReadinessInv, ReadinessTypes
<1> DEFINE r == [check[c] EXCEPT !.pc = "probing"]
           k == ProbeClient(Part(c))
<1>2. /\ loop = None /\ Asking(c) /\ MoreToLook(c) /\ Part(c) \in Workers /\ WorkerRequired(Part(c))
      /\ Part(c) = "torch" => settings.manifests
      /\ loop' = c /\ check' = [check EXCEPT ![c] = r] /\ processes' = [processes EXCEPT ![k] = Started(k)]
      /\ UNCHANGED <<settings, order>> /\ Unwatched
  BY DEF Probe, Asking
<1>3. processes' \in [Clients -> {"none", "running", "warm"}] /\ Bad' = Bad
  BY <1>1, <1>2, StartedStays
<1>4. r \in CheckRecord /\ r.pc = "probing" /\ r.found = check[c].found /\ r.route = check[c].route
  BY <1>1 DEF CheckRecord
<1>5. NextPart(r) = Part(c) /\ Looked(r) = Looked(check[c]) /\ Looked(r) < Len(Looks(r.route))
  BY <1>2, <1>4 DEF NextPart, Part, Looked, MoreToLook
<1> HIDE DEF r
<1>6. CheckFits(settings, r, everBad[c], alwaysBad[c])
  BY <1>1, <1>2, <1>4, <1>5, NeededIsRequired DEF CheckFits
<1> QED
  BY <1>2, <1>3, <1>4, <1>6, OneCheckGoesOn

(* The check whose probe is under way may look on.                           *)
LEMMA Probing ==
  ASSUME ReadinessInv, NEW c \in Checks, loop = c
  PROVE  /\ check[c].pc = "probing" /\ Asking(c) /\ MoreToLook(c) /\ Part(c) \in Workers
         /\ Needed(settings, Part(c)) /\ (Part(c) = "torch" => settings.manifests)
BY DEF ReadinessInv, CheckFits, Asking, MoreToLook, Looked, Part, NextPart

LEMMA WarmUpStep == ASSUME ReadinessInv, NEW c \in Checks, WarmUp(c) PROVE ReadinessInv'
<1> DEFINE k == ProbeClient("torch")
           status == IF processes'[k] = "warm" THEN "healthy" ELSE "unhealthy"
<1>1. /\ loop = c /\ Part(c) = "torch" /\ Finds(c, status) /\ loop' = None /\ Unwatched
      /\ processes' = [processes EXCEPT ![k] = IF order["torch"] THEN "warm" ELSE @]
      /\ UNCHANGED <<settings, order>>
  BY DEF WarmUp
<1>2. ReadinessTypes /\ k \in Clients
  BY DEF ReadinessInv, ProbeClient, Clients
<1>3. /\ Asking(c) /\ MoreToLook(c) /\ Needed(settings, Part(c)) /\ settings.manifests
      /\ Bad \subseteq everBad[c] /\ alwaysBad[c] \subseteq Bad
  BY <1>1, Probing DEF ReadinessInv, Watched
<1>4. processes' \in [Clients -> {"none", "running", "warm"}]
      /\ processes'[k] = (IF order["torch"] THEN "warm" ELSE processes[k])
  BY <1>1, <1>2 DEF ReadinessTypes
<1>5. InOrder("torch") <=> processes'[k] = "warm"
  BY <1>3, <1>4 DEF InOrder
<1>6. Bad' = Bad
  <2>1. InOrder("torch")' = InOrder("torch")
    BY <1>1, <1>4 DEF InOrder, ProbeClient
  <2>2. ASSUME NEW part, part # "torch" PROVE InOrder(part)' = InOrder(part)
    BY <1>1, <2>2 DEF InOrder
  <2> QED
    BY <1>1, <2>1, <2>2 DEF Bad
<1>7. InOrder(Part(c)) <=> Part(c) \notin Bad
  BY <1>1 DEF Bad, Surroundings
<1>8. FindingFits(settings, Part(c), status, everBad[c], alwaysBad[c])
  BY <1>1, <1>3, <1>5, <1>7 DEF FindingFits
<1>9. status \in FindResults
  BY DEF FindResults
<1> HIDE DEF status
<1> QED
  BY <1>1, <1>3, <1>4, <1>6, <1>8, <1>9, FindingStep

LEMMA SmokeStep == ASSUME ReadinessInv, NEW c \in Checks, Smoke(c) PROVE ReadinessInv'
<1>1. /\ loop = c /\ Part(c) = "paddle" /\ Finds(c, "healthy") /\ loop' = None /\ Unwatched
      /\ UNCHANGED <<settings, order, processes>>
  BY DEF Smoke
<1>2. ReadinessTypes /\ Asking(c) /\ MoreToLook(c) /\ alwaysBad[c] \subseteq Bad
  BY <1>1, Probing DEF ReadinessInv, Watched
<1>3. FindingFits(settings, Part(c), "healthy", everBad[c], alwaysBad[c])
  BY <1>1, <1>2, PaddleIsNeverBad DEF FindingFits
<1>4. Bad' = Bad
  BY <1>1, BadStays
<1> QED
  BY <1>1, <1>2, <1>3, <1>4, FindingStep DEF ReadinessTypes, FindResults

(* Stopping a process that was warm may put a part out of order for others.  *)
LEMMA ProbeFailsStep == ASSUME ReadinessInv, NEW c \in Checks, ProbeFails(c) PROVE ReadinessInv'
<1> DEFINE failed == [x \in Checks |-> IF x = c THEN {Part(c)} ELSE {}]
           r == Found(check[c], "unhealthy")
<1>1. /\ loop = c /\ Finds(c, "unhealthy") /\ loop' = None /\ WatchAnd(failed) /\ UNCHANGED <<settings, order>>
      /\ processes' = [processes EXCEPT ![ProbeClient(Part(c))] = "none"]
  BY DEF ProbeFails
<1>2. ReadinessTypes /\ check[c] \in CheckRecord /\ CheckFits(settings, check[c], everBad[c], alwaysBad[c])
  BY DEF ReadinessInv, ReadinessTypes
<1>3. Asking(c) /\ MoreToLook(c) /\ Part(c) \in Workers /\ Needed(settings, Part(c))
  BY <1>1, Probing
<1>4. \A x \in Checks : failed[x] \subseteq Parts
  BY <1>3 DEF Workers, Parts, Surroundings
<1>5. failed[c] = {Part(c)}
  OBVIOUS
<1> HIDE DEF failed
<1>6. /\ everBad' \in [Checks -> SUBSET (Parts \cup {"paddle_models"})]
      /\ alwaysBad' \in [Checks -> SUBSET (Parts \cup {"paddle_models"})]
      /\ \A x \in Checks :
           IF Asking(x) THEN everBad'[x] = everBad[x] \cup Bad' \cup failed[x] /\ alwaysBad'[x] = alwaysBad[x] \cap Bad'
           ELSE everBad'[x] = everBad[x] /\ alwaysBad'[x] = alwaysBad[x]
  BY <1>1, <1>2, <1>4, WatchedStep
<1>7. CheckFits(settings, check[c], everBad'[c], alwaysBad'[c])
  BY <1>2, <1>3, <1>6, FitsLater
<1>8. FindingFits(settings, NextPart(check[c]), "unhealthy", everBad'[c], alwaysBad'[c])
  BY <1>3, <1>5, <1>6 DEF FindingFits, Part, NextPart, Looked
<1>9. Looked(check[c]) < Len(Looks(check[c].route)) /\ "unhealthy" \in FindResults
  BY <1>3 DEF MoreToLook, Looked, FindResults
<1>10. r \in CheckRecord /\ CheckFits(settings, r, everBad'[c], alwaysBad'[c])
  BY <1>2, <1>7, <1>8, <1>9, FoundFits
<1>11. r.pc = "looking"
  BY <1>2 DEF Found, CheckRecord
<1>12. check' = [check EXCEPT ![c] = r]
  BY <1>1, <1>2, FindsIsFound DEF ReadinessTypes
<1> HIDE DEF r
<1>13. check' \in [Checks -> CheckRecord] /\ check'[c] = r /\ \A d \in Checks \ {c} : check'[d] = check[d]
  BY <1>2, <1>10, <1>12 DEF ReadinessTypes
<1>14. ReadinessTypes'
  BY <1>1, <1>2, <1>6, <1>13 DEF ReadinessTypes
<1>15. Watched'
  BY <1>3, <1>6, <1>13 DEF Watched, Asking
<1>16. ASSUME NEW d \in Checks
       PROVE  CheckFits(settings', check'[d], everBad'[d], alwaysBad'[d]) /\ Honest(d)'
  <2>1. CASE d = c
    BY <1>1, <1>10, <1>11, <1>13, <2>1 DEF Honest
  <2>2. CASE d # c
    BY <1>1, <1>6, <1>13, <2>2, CheckKept
  <2> QED
    BY <2>1, <2>2
<1>17. \A d \in Checks : loop' # d
  BY <1>1, ReadinessAssumption
<1> QED
  BY <1>14, <1>15, <1>16, <1>17, InvFromChecks

LEMMA AnswerStep == ASSUME ReadinessInv, NEW c \in Checks, Answer(c) PROVE ReadinessInv'
<1>1. ReadinessTypes /\ check[c] \in CheckRecord /\ CheckFits(settings, check[c], everBad[c], alwaysBad[c])
  BY DEF ReadinessInv, ReadinessTypes
<1> DEFINE code == IF Unavailable(check[c].route, check[c].found) THEN 503 ELSE 200
           r == [check[c] EXCEPT !.pc = "answered", !.code = code]
<1>2. /\ loop = None /\ Asking(c) /\ ~MoreToLook(c) /\ Unwatched /\ UNCHANGED <<settings, order, processes, loop>>
      /\ check' = [check EXCEPT ![c] = r]
  BY DEF Answer, Asking
<1>3. IF Unavailable(check[c].route, check[c].found) THEN everBad[c] \cap AnswersFor(check[c].route) # {}
      ELSE alwaysBad[c] \cap AnswersFor(check[c].route) = {}
  BY <1>1, <1>2, AnswerIsHonest
<1>4. /\ code = 200 => alwaysBad[c] \cap AnswersFor(check[c].route) = {}
      /\ code = 503 => everBad[c] \cap AnswersFor(check[c].route) # {}
      /\ code \in {200, 503}
  BY <1>3
<1> HIDE DEF code
<1>5. r \in CheckRecord /\ r.pc = "answered" /\ r.found = check[c].found /\ r.route = check[c].route /\ r.code = code
  BY <1>1, <1>4 DEF CheckRecord
<1> HIDE DEF r
<1>6. CheckFits(settings, r, everBad[c], alwaysBad[c])
  BY <1>1, <1>5 DEF CheckFits, Looked
<1>7. Bad' = Bad /\ loop' # c
  BY <1>2, BadStays, ReadinessAssumption
<1>8. /\ r.code = 200 => alwaysBad[c] \cap AnswersFor(r.route) = {}
      /\ r.code = 503 => everBad[c] \cap AnswersFor(r.route) # {}
  BY <1>4, <1>5
<1>9. processes' \in [Clients -> {"none", "running", "warm"}] /\ loop' = None /\ UNCHANGED <<settings, order>>
  BY <1>1, <1>2 DEF ReadinessTypes
<1> QED
  BY <1>2, <1>5, <1>6, <1>7, <1>8, <1>9, OneCheckGoesOn

LEMMA ReadinessInitFits == ReadinessInit => ReadinessInv
<1> SUFFICES ASSUME ReadinessInit PROVE ReadinessInv
  OBVIOUS
<1>1. \A c \in Checks : check[c].pc = "new" /\ check[c].found = << >> /\ check[c] \in CheckRecord
  <2>1. << >> \in UNION {[D -> FindResults] : D \in SUBSET Parts}
    <3>1. << >> \in [{} -> FindResults]
      OBVIOUS
    <3> QED
      BY <3>1
  <2> TAKE c \in Checks
  <2>2. PICK route \in Routes : check[c] = [route |-> route, pc |-> "new", found |-> << >>, code |-> None]
    BY DEF ReadinessInit
  <2> QED
    BY <2>1, <2>2 DEF CheckRecord
<1>2. check \in [Checks -> CheckRecord]
  BY <1>1 DEF ReadinessInit
<1>3. ReadinessTypes
  BY <1>2 DEF ReadinessInit, ReadinessTypes
<1>4. Watched /\ AnswersAreHonest
  BY <1>1 DEF Watched, Asking, AnswersAreHonest
<1>5. ASSUME NEW c \in Checks PROVE CheckFits(settings, check[c], everBad[c], alwaysBad[c])
  <2>1. DOMAIN check[c].found = {}
    BY <1>1
  <2>2. IsFiniteSet(DOMAIN check[c].found) /\ Looked(check[c]) = 0
    BY <2>1, FS_EmptySet DEF Looked
  <2>3. Len(Looks(check[c].route)) \in Nat
    BY <1>1, LooksAt DEF CheckRecord
  <2> QED
    BY <1>1, <2>1, <2>2, <2>3 DEF CheckFits
<1>6. \A c \in Checks : loop # c
  BY ReadinessAssumption DEF ReadinessInit
<1> QED
  BY <1>3, <1>4, <1>5, <1>6 DEF ReadinessInv

LEMMA ReadinessNextFits == ReadinessInv /\ [ReadinessNext]_readinessVars => ReadinessInv'
<1> SUFFICES ASSUME ReadinessInv, [ReadinessNext]_readinessVars PROVE ReadinessInv'
  OBVIOUS
<1>1. ASSUME NEW c \in Checks, CheckStep(c) PROVE ReadinessInv'
  BY <1>1, BeginStep, LookStep, SkipProbeStep, ProbeStep, AnswerStep DEF CheckStep
<1>2. ASSUME NEW x \in Checks \cup Jobs, Reply(x) PROVE ReadinessInv'
  BY <1>2, WarmUpStep, SmokeStep, ProbeFailsStep, JobStep DEF Reply
<1>3. CASE UNCHANGED readinessVars
  <2>1. UNCHANGED <<settings, order, processes, loop, check, everBad, alwaysBad>>
    BY <1>3 DEF readinessVars
  <2>2. Bad' = Bad
    BY <2>1, BadStays
  <2>3. ReadinessTypes' /\ Watched'
    BY <2>1, <2>2 DEF ReadinessInv, ReadinessTypes, Watched, Asking
  <2>4. \A c \in Checks : CheckFits(settings', check'[c], everBad'[c], alwaysBad'[c]) /\ Honest(c)'
    BY <2>1, CheckKept
  <2>5. \A c \in Checks : loop' = c => check'[c].pc = "probing"
    BY <2>1 DEF ReadinessInv
  <2> QED
    BY <2>3, <2>4, <2>5, InvFromChecks
<1> QED
  BY <1>1, <1>2, <1>3, SurroundingsStep, JobStep DEF ReadinessNext

(* Although parts fail and recover between the looks of a check, and other   *)
(* checks, analyses and images start and stop the workers meanwhile: 200     *)
(* means that no part the check answers for was out of order all the time,   *)
(* and 503 that some part was out of order at some time.                     *)
THEOREM ChecksAreHonest == ReadinessSpec => []AnswersAreHonest
<1>1. ReadinessInv => AnswersAreHonest
  BY DEF ReadinessInv
<1> QED
  BY <1>1, ReadinessInitFits, ReadinessNextFits, PTL DEF ReadinessSpec
===============================================================================
