--------------------------- MODULE MlInferenceQueue ---------------------------
(***************************************************************************)
(* MlInferenceQueue (apps/api/app/runtime/ml_inference_queue.py): execute  *)
(* runs an operation on a thread pool and waits for it a bounded time.  A  *)
(* semaphore of max_workers + max_queue_size slots bounds the operations;  *)
(* the slot of a job is given back by a done callback of its future, run   *)
(* by the thread that finishes or cancels the future, or by the caller     *)
(* when the future was done before the callback was added.                 *)
(* ParserWorkerPool (runtime/parser_worker.py) is the same without the     *)
(* counters.                                                               *)
(*                                                                         *)
(* Each element of Jobs is one call of execute().  The pool threads and    *)
(* the futures are those of concurrent.futures: a cancelled job stays in   *)
(* the pool's work queue until a thread takes it out.                      *)
(***************************************************************************)
EXTENDS Naturals, Sequences, FiniteSets

CONSTANTS Jobs,        \* calls of execute()
          MaxWorkers,  \* threads of the pool
          MaxQueue     \* max_queue_size

ASSUME JobsAssumption == IsFiniteSet(Jobs)
ASSUME SizeAssumption == MaxWorkers \in Nat \ {0} /\ MaxQueue \in Nat \ {0}

VARIABLES
  phase,     \* where each caller is in execute()
  outcome,   \* status its caller is told
  future,    \* state of the future of each job
  callback,  \* progress of _release_capacity for each job
  free,      \* value of the semaphore _capacity
  reserved,  \* _reserved_count
  totals,    \* the *_total counters
  work,      \* work queue of the pool
  threads,   \* jobs that occupy a pool thread
  closed     \* shutdown() was called

vars == <<phase, outcome, future, callback, free, reserved, totals, work, threads, closed>>

CapacityLimit == MaxWorkers + MaxQueue

Init == /\ phase = [j \in Jobs |-> "new"]
        /\ outcome = [j \in Jobs |-> "none"]
        /\ future = [j \in Jobs |-> "none"]
        /\ callback = [j \in Jobs |-> "none"]
        /\ free = CapacityLimit
        /\ reserved = 0
        /\ totals = [submitted |-> 0, succeeded |-> 0, timeout |-> 0, failed |-> 0, limit |-> 0]
        /\ work = <<>>
        /\ threads = {}
        /\ closed = FALSE

FutureDone(j) == future[j] \in {"value", "error", "cancelled"}

Count(field) == totals' = [totals EXCEPT ![field] = @ + 1]

At(j, here, there) == phase[j] = here /\ phase' = [phase EXCEPT ![j] = there]

(* The callbacks of a future that becomes done are invoked, if there is one. *)
Invoked(c) == IF c = "armed" THEN "due" ELSE c

-------------------------------------------------------------------------------
(* The caller: execute(). *)

(* _capacity.acquire(blocking=False) *)
Acquire(j) == /\ At(j, "new", "acquired")
              /\ free > 0
              /\ free' = free - 1
              /\ UNCHANGED <<outcome, future, callback, reserved, totals, work, threads, closed>>

(* Mutant: a call is rejected with a slot to spare. *)
LimitExceededEarly(j) == /\ At(j, "new", "returned")
                         /\ free <= 1
                         /\ outcome' = [outcome EXCEPT ![j] = "rejected"]
                         /\ Count("limit")
                         /\ UNCHANGED <<future, callback, free, reserved, work, threads, closed>>

(* No slot: ML_INFERENCE_LIMIT_EXCEEDED. *)
LimitExceeded(j) == /\ At(j, "new", "returned")
                    /\ free = 0
                    /\ outcome' = [outcome EXCEPT ![j] = "rejected"]
                    /\ Count("limit")
                    /\ UNCHANGED <<future, callback, free, reserved, work, threads, closed>>

RecordSubmitted(j) == /\ At(j, "acquired", "recorded")
                      /\ reserved' = reserved + 1
                      /\ Count("submitted")
                      /\ UNCHANGED <<outcome, future, callback, free, work, threads, closed>>

(* executor.submit *)
Submit(j) == /\ At(j, "recorded", "submitted")
             /\ ~closed
             /\ future' = [future EXCEPT ![j] = "pending"]
             /\ work' = Append(work, j)
             /\ UNCHANGED <<outcome, callback, free, reserved, totals, threads, closed>>

(* Mutant: a refused job is dropped with its slot. *)
SubmitRefusedLeaks(j) == /\ At(j, "recorded", "refused")
                         /\ closed
                         /\ callback' = [callback EXCEPT ![j] = "done"]
                         /\ UNCHANGED <<outcome, future, free, reserved, totals, work, threads, closed>>

(* A pool that was shut down refuses: the caller releases the slot itself. *)
SubmitRefused(j) == /\ At(j, "recorded", "refused")
                    /\ closed
                    /\ callback' = [callback EXCEPT ![j] = "due"]
                    /\ UNCHANGED <<outcome, future, free, reserved, totals, work, threads, closed>>

RefusedFails(j) == /\ At(j, "refused", "returned")
                   /\ callback[j] = "done"
                   /\ outcome' = [outcome EXCEPT ![j] = "failed"]
                   /\ Count("failed")
                   /\ UNCHANGED <<future, callback, free, reserved, work, threads, closed>>

(* add_done_callback on a future that is not done yet. *)
AddCallback(j) == /\ At(j, "submitted", "waiting")
                  /\ ~FutureDone(j)
                  /\ callback' = [callback EXCEPT ![j] = "armed"]
                  /\ UNCHANGED <<outcome, future, free, reserved, totals, work, threads, closed>>

(* add_done_callback on a done future calls it at once, in the caller. *)
CallbackInline(j) == /\ At(j, "submitted", "inline")
                     /\ FutureDone(j)
                     /\ callback' = [callback EXCEPT ![j] = "due"]
                     /\ UNCHANGED <<outcome, future, free, reserved, totals, work, threads, closed>>

InlineDone(j) == /\ At(j, "inline", "waiting")
                 /\ callback[j] = "done"
                 /\ UNCHANGED <<outcome, future, callback, free, reserved, totals, work, threads, closed>>

GotValue(j) == /\ At(j, "waiting", "returned")
               /\ future[j] = "value"
               /\ outcome' = [outcome EXCEPT ![j] = "succeeded"]
               /\ Count("succeeded")
               /\ UNCHANGED <<future, callback, free, reserved, work, threads, closed>>

(* The operation raised, or shutdown() cancelled the future. *)
GotException(j) == /\ At(j, "waiting", "returned")
                   /\ future[j] \in {"error", "cancelled"}
                   /\ outcome' = [outcome EXCEPT ![j] = "failed"]
                   /\ Count("failed")
                   /\ UNCHANGED <<future, callback, free, reserved, work, threads, closed>>

(* Mutant: the wait for an operation that has started is not bounded. *)
TimerFiresQueued(j) == /\ At(j, "waiting", "expired")
                       /\ future[j] = "pending"
                       /\ UNCHANGED <<outcome, future, callback, free, reserved, totals, work, threads, closed>>

(* future.result(timeout=...) raises TimeoutError, its own or the           *)
(* operation's, ...                                                         *)
TimerFires(j) == /\ At(j, "waiting", "expired")
                 /\ ~FutureDone(j) \/ future[j] = "error"
                 /\ UNCHANGED <<outcome, future, callback, free, reserved, totals, work, threads, closed>>

(* ... and future.cancel() finds the job still queued: the caller runs the callback, *)
CancelPending(j) == /\ At(j, "expired", "cancelling")
                    /\ future[j] = "pending"
                    /\ future' = [future EXCEPT ![j] = "cancelled"]
                    /\ callback' = [callback EXCEPT ![j] = Invoked(@)]
                    /\ UNCHANGED <<outcome, free, reserved, totals, work, threads, closed>>

(* Mutant: the caller that gives up gives the slot back. *)
CancelTooLateReleases(j) == /\ At(j, "expired", "given up")
                            /\ future[j] # "pending"
                            /\ callback' = [callback EXCEPT ![j] = Invoked(@)]
                            /\ UNCHANGED <<outcome, future, free, reserved, totals, work, threads, closed>>

(* or running or done by now: it keeps its slot until it is done. *)
CancelTooLate(j) == /\ At(j, "expired", "given up")
                    /\ future[j] # "pending"
                    /\ UNCHANGED <<outcome, future, callback, free, reserved, totals, work, threads, closed>>

RecordTimeout(j) == /\ \/ At(j, "given up", "returned")
                       \/ At(j, "cancelling", "returned") /\ callback[j] = "done"
                    /\ outcome' = [outcome EXCEPT ![j] = "timeout"]
                    /\ Count("timeout")
                    /\ UNCHANGED <<future, callback, free, reserved, work, threads, closed>>

-------------------------------------------------------------------------------
(* _release_capacity, in whichever thread runs it. *)

ReleaseSlot(j) == /\ callback[j] = "due"
                  /\ callback' = [callback EXCEPT ![j] = "slot released"]
                  /\ free' = free + 1
                  /\ UNCHANGED <<phase, outcome, future, reserved, totals, work, threads, closed>>

(* The counter follows the semaphore; a pool thread is idle again after it. *)
UncountSlot(j) == /\ callback[j] = "slot released"
                  /\ callback' = [callback EXCEPT ![j] = "done"]
                  /\ reserved' = IF reserved > 0 THEN reserved - 1 ELSE 0
                  /\ threads' = threads \ {j}
                  /\ UNCHANGED <<phase, outcome, future, free, totals, work, closed>>

Call(j) == \/ Acquire(j) \/ LimitExceeded(j) \/ RecordSubmitted(j)
           \/ Submit(j) \/ SubmitRefused(j) \/ RefusedFails(j)
           \/ AddCallback(j) \/ CallbackInline(j) \/ InlineDone(j)
           \/ GotValue(j) \/ GotException(j)
           \/ TimerFires(j) \/ CancelPending(j) \/ CancelTooLate(j) \/ RecordTimeout(j)

Callback(j) == ReleaseSlot(j) \/ UncountSlot(j)

-------------------------------------------------------------------------------
(* The thread pool. *)

(* A thread takes the next job; one that was cancelled meanwhile is dropped. *)
Take == /\ work # <<>>
        /\ Cardinality(threads) < MaxWorkers
        /\ work' = Tail(work)
        /\ LET j == Head(work)
           IN IF future[j] = "cancelled"
              THEN UNCHANGED <<future, threads>>
              ELSE /\ future' = [future EXCEPT ![j] = "running"]
                   /\ threads' = threads \union {j}
        /\ UNCHANGED <<phase, outcome, callback, free, reserved, totals, closed>>

(* The operation returns or raises; the thread goes on to the callback. *)
Finish(j) == /\ future[j] = "running"
             /\ \E end \in {"value", "error"} : future' = [future EXCEPT ![j] = end]
             /\ callback' = [callback EXCEPT ![j] = Invoked(@)]
             /\ threads' = IF callback[j] = "armed" THEN threads ELSE threads \ {j}
             /\ UNCHANGED <<phase, outcome, free, reserved, totals, work, closed>>

(* shutdown(wait=True, cancel_futures=True): what was queued is cancelled. *)
Shutdown == /\ ~closed
            /\ closed' = TRUE
            /\ future' = [j \in Jobs |-> IF future[j] = "pending" THEN "cancelled" ELSE future[j]]
            /\ callback' = [j \in Jobs |-> IF future[j] = "pending" THEN Invoked(callback[j]) ELSE callback[j]]
            /\ work' = <<>>
            /\ UNCHANGED <<phase, outcome, free, reserved, totals, threads>>

Next == \/ \E j \in Jobs : Call(j) \/ Callback(j) \/ Finish(j)
        \/ Take
        \/ Shutdown

Spec == Init /\ [][Next]_vars

(* Some caller or pool thread that can go on does so, and timers fire; an   *)
(* operation may run for ever.  With finitely many calls this is all the    *)
(* fairness there is.                                                       *)
FairSpec == Spec /\ WF_vars(Take \/ \E j \in Jobs : Call(j) \/ Callback(j))

-------------------------------------------------------------------------------
(* Properties. *)

TypeOK ==
  /\ phase \in [Jobs -> {"new", "acquired", "recorded", "refused", "submitted", "inline", "waiting",
                         "expired", "cancelling", "given up", "returned"}]
  /\ outcome \in [Jobs -> {"none", "rejected", "succeeded", "timeout", "failed"}]
  /\ future \in [Jobs -> {"none", "pending", "running", "value", "error", "cancelled"}]
  /\ callback \in [Jobs -> {"none", "armed", "due", "slot released", "done"}]
  /\ free \in 0..CapacityLimit
  /\ reserved \in Nat
  /\ totals \in [{"submitted", "succeeded", "timeout", "failed", "limit"} -> Nat]
  /\ work \in Seq(Jobs)
  /\ threads \subseteq Jobs
  /\ closed \in BOOLEAN

(* Jobs that were admitted and whose slot was not given back, *)
HoldsSlot(j) == phase[j] # "new" /\ outcome[j] # "rejected" /\ callback[j] \in {"none", "armed", "due"}
(* and jobs the snapshot counts as in flight or queued. *)
IsCounted(j) == phase[j] \notin {"new", "acquired"} /\ outcome[j] # "rejected" /\ callback[j] # "done"

(* The operations in the pool, those included whose callers gave up and     *)
(* went away, are never more than the slots that are taken: what a timeout  *)
(* leaves running counts against the next calls.                            *)
OperationsBounded ==
  Cardinality({j \in Jobs : future[j] \in {"pending", "running"}}) + free <= CapacityLimit

(* in_flight_or_queued is exact between the two halves of a release, so     *)
(* max(0, ...) never hides a miscount.  It may exceed capacity, by at most  *)
(* the releases that are half done.                                         *)
ReservedExact ==
  /\ reserved = Cardinality({j \in Jobs : IsCounted(j)})
  /\ reserved <= CapacityLimit - free + Cardinality({j \in Jobs : callback[j] = "slot released"})

(* Every submission is in exactly one outcome total or still undecided.     *)
TotalsBalance ==
  totals.submitted = totals.succeeded + totals.timeout + totals.failed
    + Cardinality({j \in Jobs : phase[j] \notin {"new", "acquired"} /\ outcome[j] = "none"})

(* What a call has done with its slot, seen from outside. *)
SlotStage == [j \in Jobs |-> IF phase[j] = "new" \/ outcome[j] = "rejected" THEN "new"
                             ELSE IF HoldsSlot(j) THEN "held" ELSE "released"]

(* execute() is a bounded boundary: rejected only when all slots are taken, *)
(* one slot per job, given back exactly once whoever runs the callback.     *)
Admission == INSTANCE BoundedAdmission WITH Capacity <- CapacityLimit, stage <- SlotStage

ImplementsAdmission == Admission!Spec

(* execute() returns whatever the operations do: behind an operation that   *)
(* never ends the timer ends the wait, until no call is under way.          *)
EveryCallReturns == <>[](\A j \in Jobs : phase[j] \in {"new", "returned"})
===============================================================================
