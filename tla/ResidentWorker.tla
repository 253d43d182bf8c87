---------------------------- MODULE ResidentWorker ----------------------------
(***************************************************************************)
(* ResidentWorkerProcess (apps/api/app/runtime/resident_worker_process.py):*)
(* one long-lived subprocess that answers one JSON line per job.  Any      *)
(* number of threads call request(); a semaphore bounds them; a one-thread *)
(* executor performs the exchange under _lock; a caller that times out, or *)
(* whose future raised, restarts the worker, for which it needs the same   *)
(* _lock.  The future is not cancelled on a timeout, so the job of a       *)
(* caller that gave up still reaches the worker.                           *)
(*                                                                         *)
(* Each element of Requests is one call of request().  Whoever takes _lock *)
(* to restart or to close does so in one step (nothing under it can be     *)
(* observed by the others), so _lock is held across steps only by the      *)
(* executor thread.                                                        *)
(***************************************************************************)
EXTENDS Naturals, Sequences, FiniteSets

CONSTANTS Requests,     \* calls of request()
          MaxPending,   \* max_pending_requests
          NoJob         \* the executor thread has no job

ASSUME RequestsAssumption == IsFiniteSet(Requests) /\ NoJob \notin Requests
ASSUME PendingAssumption == MaxPending \in Nat \ {0}

VARIABLES
  phase,        \* where each caller is in request()
  outcome,      \* what each caller is going to be told
  answer,       \* whose reply its future holds
  slots,        \* value of _slots
  inFlight,     \* _in_flight_or_queued
  stats,        \* the *_total counters
  lastFailure,  \* _last_failure_code
  future,       \* state of the Future of each call
  queue,        \* work queue of the executor
  rpcJob,       \* job of the executor thread
  rpcStage,     \* where the executor thread is in _request_locked
  process,      \* _process: none, alive, or dead (it exited, poll() tells)
  stdin,        \* lines written and not read by the subprocess
  stdout,       \* lines answered and not read by the executor thread
  closing       \* progress of close()

callerVars == <<phase, outcome, answer>>
poolVars == <<queue, rpcJob, rpcStage, future>>
pipeVars == <<process, stdin, stdout>>
vars == <<phase, outcome, answer, slots, inFlight, stats, lastFailure, future,
          queue, rpcJob, rpcStage, process, stdin, stdout, closing>>

NoStats == [requests |-> 0, succeeded |-> 0, timeout |-> 0, failed |-> 0, restart |-> 0]

Init == /\ phase = [r \in Requests |-> "new"]
        /\ outcome = [r \in Requests |-> "none"]
        /\ answer = [r \in Requests |-> NoJob]
        /\ slots = MaxPending
        /\ inFlight = 0
        /\ stats = NoStats
        /\ lastFailure = "none"
        /\ future = [r \in Requests |-> "none"]
        /\ queue = <<>>
        /\ rpcJob = NoJob
        /\ rpcStage = "idle"
        /\ process = "none"
        /\ stdin = <<>>
        /\ stdout = <<>>
        /\ closing = "open"

Done(r) == future[r] \in {"line", "empty", "raised", "cancelled"}

(* _lock is held across steps only while the executor thread exchanges a line. *)
LockFree == rpcStage \notin {"started", "written"}

Count(field) == stats' = [stats EXCEPT ![field] = @ + 1]

Goto(r, p) == phase' = [phase EXCEPT ![r] = p]

-------------------------------------------------------------------------------
(* Stopping the subprocess: close its stdin, terminate, wait, kill. *)

(* _stop_locked; what was on its pipes is gone with it. *)
StopLocked == /\ process' = "none"
              /\ stdin' = <<>>
              /\ stdout' = <<>>
              /\ IF process = "none" THEN UNCHANGED stats ELSE Count("restart")

-------------------------------------------------------------------------------
(* The caller: request(). *)

(* _slots.acquire(blocking=False) succeeded. *)
Acquire(r) == /\ phase[r] = "new"
              /\ slots > 0
              /\ slots' = slots - 1
              /\ Goto(r, "acquired")
              /\ UNCHANGED <<outcome, answer, inFlight, stats, lastFailure, poolVars, pipeVars, closing>>

(* Mutant: a call is rejected with a slot to spare. *)
QueueFullEarly(r) == /\ phase[r] = "new"
                     /\ slots <= 1
                     /\ outcome' = [outcome EXCEPT ![r] = "rejected"]
                     /\ Count("failed")
                     /\ lastFailure' = "WORKER_QUEUE_FULL"
                     /\ Goto(r, "done")
                     /\ UNCHANGED <<answer, slots, inFlight, poolVars, pipeVars, closing>>

(* No slot: _record_failed("WORKER_QUEUE_FULL") and None. *)
QueueFull(r) == /\ phase[r] = "new"
                /\ slots = 0
                /\ outcome' = [outcome EXCEPT ![r] = "rejected"]
                /\ Count("failed")
                /\ lastFailure' = "WORKER_QUEUE_FULL"
                /\ Goto(r, "done")
                /\ UNCHANGED <<answer, slots, inFlight, poolVars, pipeVars, closing>>

RecordSubmitted(r) == /\ phase[r] = "acquired"
                      /\ inFlight' = inFlight + 1
                      /\ Count("requests")
                      /\ Goto(r, "recorded")
                      /\ UNCHANGED <<outcome, answer, slots, lastFailure, poolVars, pipeVars, closing>>

(* The future is in the executor's queue and the caller waits for it. *)
Submit(r) == /\ phase[r] = "recorded"
             /\ closing # "closed"
             /\ queue' = Append(queue, r)
             /\ future' = [future EXCEPT ![r] = "pending"]
             /\ Goto(r, "waiting")
             /\ UNCHANGED <<outcome, answer, slots, inFlight, stats, lastFailure, rpcJob, rpcStage, pipeVars, closing>>

(* submit() of an executor that was shut down raises. *)
SubmitRefused(r) == /\ phase[r] = "recorded"
                    /\ closing = "closed"
                    /\ outcome' = [outcome EXCEPT ![r] = "failed"]
                    /\ Count("failed")
                    /\ lastFailure' = "WORKER_REQUEST_FAILED"
                    /\ Goto(r, "restarting")
                    /\ UNCHANGED <<answer, slots, inFlight, poolVars, pipeVars, closing>>

(* future.result() returned a line: the caller keeps whatever line it holds. *)
GotLine(r) == /\ phase[r] = "waiting"
              /\ future[r] = "line"
              /\ outcome' = [outcome EXCEPT ![r] = "succeeded"]
              /\ Count("succeeded")
              /\ lastFailure' = "none"
              /\ Goto(r, "settled")
              /\ UNCHANGED <<answer, slots, inFlight, poolVars, pipeVars, closing>>

(* future.result() returned None. *)
GotNothing(r) == /\ phase[r] = "waiting"
                 /\ future[r] = "empty"
                 /\ outcome' = [outcome EXCEPT ![r] = "failed"]
                 /\ Count("failed")
                 /\ lastFailure' = "WORKER_NO_RESPONSE"
                 /\ Goto(r, "settled")
                 /\ UNCHANGED <<answer, slots, inFlight, poolVars, pipeVars, closing>>

(* future.result() raised: the worker could not be started, or close() cancelled it. *)
GotException(r) == /\ phase[r] = "waiting"
                   /\ future[r] \in {"raised", "cancelled"}
                   /\ outcome' = [outcome EXCEPT ![r] = "failed"]
                   /\ Count("failed")
                   /\ lastFailure' = "WORKER_REQUEST_FAILED"
                   /\ Goto(r, "restarting")
                   /\ UNCHANGED <<answer, slots, inFlight, poolVars, pipeVars, closing>>

(* future.result(timeout=...) raised TimeoutError: the future stays submitted. *)
TimedOut(r) == /\ phase[r] = "waiting"
               /\ ~Done(r)
               /\ outcome' = [outcome EXCEPT ![r] = "timeout"]
               /\ Count("timeout")
               /\ lastFailure' = "WORKER_TIMEOUT"
               /\ Goto(r, "restarting")
               /\ UNCHANGED <<answer, slots, inFlight, poolVars, pipeVars, closing>>

(* restart() inside the except clauses: it needs _lock. *)
Restart(r) == /\ phase[r] = "restarting"
              /\ LockFree
              /\ StopLocked
              /\ Goto(r, "settled")
              /\ UNCHANGED <<outcome, answer, slots, inFlight, lastFailure, poolVars, closing>>

(* The finally clause, first half. *)
RecordFinished(r) == /\ phase[r] = "settled"
                     /\ inFlight' = IF inFlight > 0 THEN inFlight - 1 ELSE 0
                     /\ Goto(r, "leaving")
                     /\ UNCHANGED <<outcome, answer, slots, stats, lastFailure, poolVars, pipeVars, closing>>

(* The finally clause, second half. *)
ReleaseSlot(r) == /\ phase[r] = "leaving"
                  /\ slots' = slots + 1
                  /\ Goto(r, "done")
                  /\ UNCHANGED <<outcome, answer, inFlight, stats, lastFailure, poolVars, pipeVars, closing>>

Caller(r) == \/ Acquire(r) \/ QueueFull(r) \/ RecordSubmitted(r)
             \/ Submit(r) \/ SubmitRefused(r)
             \/ GotLine(r) \/ GotNothing(r) \/ GotException(r) \/ TimedOut(r)
             \/ Restart(r) \/ RecordFinished(r) \/ ReleaseSlot(r)

-------------------------------------------------------------------------------
(* The executor thread: _request_locked. *)

(* The future of the job is resolved and _lock released. *)
Resolve(state, whose) == /\ future' = [future EXCEPT ![rpcJob] = state]
                         /\ answer' = [answer EXCEPT ![rpcJob] = whose]
                         /\ rpcJob' = NoJob
                         /\ rpcStage' = "idle"

TakeJob == /\ rpcStage = "idle"
           /\ queue # <<>>
           /\ rpcJob' = Head(queue)
           /\ queue' = Tail(queue)
           /\ future' = [future EXCEPT ![Head(queue)] = "running"]
           /\ rpcStage' = "taken"
           /\ UNCHANGED <<callerVars, slots, inFlight, stats, lastFailure, pipeVars, closing>>

(* _lock is taken and a live process kept, a dead one replaced (not counted as a restart). *)
EnsureStarted == /\ rpcStage = "taken"
                 /\ rpcStage' = "started"
                 /\ process' = "alive"
                 /\ IF process = "alive" THEN UNCHANGED <<stdin, stdout>>
                                         ELSE stdin' = <<>> /\ stdout' = <<>>
                 /\ UNCHANGED <<callerVars, slots, inFlight, stats, lastFailure, queue, rpcJob, future, closing>>

(* Popen raised: nothing is assigned to _process and the exception reaches the future. *)
StartFailed == /\ rpcStage = "taken"
               /\ process # "alive"
               /\ Resolve("raised", NoJob)
               /\ UNCHANGED <<phase, outcome, slots, inFlight, stats, lastFailure, queue, pipeVars, closing>>

WriteLine == /\ rpcStage = "started"
             /\ process = "alive"
             /\ stdin' = Append(stdin, rpcJob)
             /\ rpcStage' = "written"
             /\ UNCHANGED <<callerVars, slots, inFlight, stats, lastFailure, queue, rpcJob, future, process, stdout, closing>>

ReadLine == /\ rpcStage = "written"
            /\ stdout # <<>>
            /\ Resolve("line", Head(stdout))
            /\ stdout' = Tail(stdout)
            /\ UNCHANGED <<phase, outcome, slots, inFlight, stats, lastFailure, queue, process, stdin, closing>>

(* Mutant: the executor thread gives a slow worker up and keeps it. *)
BrokenPipeKeepsWorker == /\ rpcStage = "written"
                         /\ stdout = <<>>
                         /\ Resolve("empty", NoJob)
                         /\ UNCHANGED <<phase, outcome, slots, inFlight, stats, lastFailure, queue, pipeVars, closing>>

(* The process died: write raises or readline returns "", then _stop_locked and None. *)
BrokenPipe == /\ \/ rpcStage = "started"
                 \/ rpcStage = "written" /\ stdout = <<>>
              /\ process = "dead"
              /\ StopLocked
              /\ Resolve("empty", NoJob)
              /\ UNCHANGED <<phase, outcome, slots, inFlight, lastFailure, queue, closing>>

Executor == TakeJob \/ EnsureStarted \/ StartFailed \/ WriteLine \/ ReadLine \/ BrokenPipe

-------------------------------------------------------------------------------
(* The subprocess: serve() reads a line, handles it, prints exactly one line. *)

WorkerAnswers == /\ process = "alive"
                 /\ stdin # <<>>
                 /\ stdout' = Append(stdout, Head(stdin))
                 /\ stdin' = Tail(stdin)
                 /\ UNCHANGED <<callerVars, slots, inFlight, stats, lastFailure, poolVars, process, closing>>

(* It can die at any time, with an answered line still in its stdout. *)
WorkerDies == /\ process = "alive"
              /\ process' = "dead"
              /\ stdin' = <<>>
              /\ UNCHANGED <<callerVars, slots, inFlight, stats, lastFailure, poolVars, stdout, closing>>

-------------------------------------------------------------------------------
(* close(). *)

CloseStops == /\ closing = "open"
              /\ LockFree
              /\ StopLocked
              /\ closing' = "stopped"
              /\ UNCHANGED <<callerVars, slots, inFlight, lastFailure, poolVars>>

(* executor.shutdown(wait=False, cancel_futures=True): only jobs still queued are cancelled. *)
CloseShutsDown == /\ closing = "stopped"
                  /\ closing' = "closed"
                  /\ future' = [r \in Requests |-> IF future[r] = "pending" THEN "cancelled" ELSE future[r]]
                  /\ queue' = <<>>
                  /\ UNCHANGED <<callerVars, slots, inFlight, stats, lastFailure, rpcJob, rpcStage, pipeVars>>

Next == \/ \E r \in Requests : Caller(r)
        \/ Executor
        \/ WorkerAnswers \/ WorkerDies
        \/ CloseStops \/ CloseShutsDown

Spec == Init /\ [][Next]_vars

(* Some thread that can go on does so, and a timer that runs out fires.    *)
(* Nothing is assumed of the subprocess: it may hang.                      *)
FairThreads == WF_vars(Executor \/ \E r \in Requests : Caller(r))

FairSpec == Spec /\ FairThreads

-------------------------------------------------------------------------------
(* Properties. *)

TypeOK == /\ phase \in [Requests -> {"new", "acquired", "recorded", "waiting", "restarting", "settled", "leaving", "done"}]
          /\ outcome \in [Requests -> {"none", "rejected", "succeeded", "timeout", "failed"}]
          /\ answer \in [Requests -> Requests \union {NoJob}]
          /\ slots \in 0..MaxPending
          /\ inFlight \in Nat
          /\ stats \in [{"requests", "succeeded", "timeout", "failed", "restart"} -> Nat]
          /\ lastFailure \in {"none", "WORKER_QUEUE_FULL", "WORKER_TIMEOUT", "WORKER_NO_RESPONSE", "WORKER_REQUEST_FAILED"}
          /\ future \in [Requests -> {"none", "pending", "running", "line", "empty", "raised", "cancelled"}]
          /\ queue \in Seq(Requests)
          /\ rpcJob \in Requests \union {NoJob}
          /\ rpcStage \in {"idle", "taken", "started", "written"}
          /\ process \in {"none", "alive", "dead"}
          /\ stdin \in Seq(Requests)
          /\ stdout \in Seq(Requests)
          /\ closing \in {"open", "stopped", "closed"}

(* The calls that hold a slot, and those that _in_flight_or_queued counts. *)
Holding == {r \in Requests : phase[r] \notin {"new", "done"}}
Counted == {r \in Requests : phase[r] \in {"recorded", "waiting", "restarting", "settled"}}

(* A caller that is given a line is given the worker's reply to its own     *)
(* payload, although the job of a caller that timed out is still written to *)
(* the same pipe later and its reply read by nobody.                        *)
OwnAnswer == \A r \in Requests : outcome[r] = "succeeded" => answer[r] = r

(* The pipes never hold more than the one exchange of the executor thread,  *)
(* and nothing at all while _lock is free: a late reply cannot be left      *)
(* behind for the next job.                                                 *)
PipeInStep == stdin \o stdout = <<>> \/ (rpcStage = "written" /\ stdin \o stdout = <<rpcJob>>)

(* _in_flight_or_queued is exactly the number of calls between             *)
(* _record_submitted and _record_finished: its max(0, ...) never hides a    *)
(* miscount, and it never exceeds the slots in use.                         *)
InFlightExact == /\ inFlight = Cardinality(Counted)
                 /\ inFlight + slots <= MaxPending

(* The counters of a snapshot balance: every call that was counted as a     *)
(* request, or turned away, is in one outcome counter or still undecided.   *)
StatsBalance ==
  stats.requests + Cardinality({r \in Requests : outcome[r] = "rejected"})
    = stats.succeeded + stats.timeout + stats.failed
      + Cardinality({r \in Counted : outcome[r] = "none"})

(* What a call has done with its slot, seen from outside. *)
SlotStage == [r \in Requests |-> IF phase[r] = "new" \/ outcome[r] = "rejected" THEN "new"
                                 ELSE IF phase[r] = "done" THEN "released" ELSE "held"]

(* request() is a bounded boundary: it rejects only when MaxPending calls   *)
(* hold slots and gives every slot back exactly once, after the outcome.    *)
Admission == INSTANCE BoundedAdmission WITH
               Jobs <- Requests, Capacity <- MaxPending,
               free <- slots, outcome <- outcome, stage <- SlotStage

ImplementsAdmission == Admission!Spec

(* A call whose timeout expired returns a failure to its caller, also when  *)
(* the worker hangs.                                                        *)
TimeoutReturns == \A r \in Requests : outcome[r] = "timeout" ~> phase[r] = "done"
===============================================================================
