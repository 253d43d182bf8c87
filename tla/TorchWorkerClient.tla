--------------------------- MODULE TorchWorkerClient ---------------------------
(***************************************************************************)
(* TorchWorkerClient.execute (apps/api/app/runtime/torch_worker_client.py) *)
(* around ResidentWorkerProcess.request, with the payload store of         *)
(* torch_worker_payload.py and the subprocess that reads a payload when it *)
(* handles the job (scripts/torch_context_worker.py).  PaddleWorkerClient  *)
(* has the same shape.  A call writes its payload to a file, asks the      *)
(* resident worker, reads the failure code of a request that returned None *)
(* from snapshot(), and deletes the payload in a finally clause.           *)
(*                                                                         *)
(* The failure code is shared by all calls, and snapshot() looks at        *)
(* _process twice without _lock: `self._process is not None and            *)
(* self._process.poll() is None`.                                          *)
(***************************************************************************)
EXTENDS ResidentWorker

VARIABLES
  step,      \* where each call is in execute()
  payload,   \* the payload file of each call
  reply,     \* what the worker printed for the job of each call
  result     \* error_code of the TorchWorkerResult, or ok, or raised

clientVars == <<step, payload, reply, result>>

allVars == <<vars, clientVars>>

ClientInit == /\ Init
              /\ step = [r \in Requests |-> "new"]
              /\ payload = [r \in Requests |-> "absent"]
              /\ reply = [r \in Requests |-> "none"]
              /\ result = [r \in Requests |-> "none"]

At(r, here, there) == step[r] = here /\ step' = [step EXCEPT ![r] = there]

Returns(r, code) == result' = [result EXCEPT ![r] = code]

(* _resident_failure_code *)
FailureCode(code) == CASE code = "WORKER_QUEUE_FULL" -> "QUEUE_FULL"
                       [] code = "WORKER_TIMEOUT" -> "TIMEOUT"
                       [] code = "WORKER_NO_RESPONSE" -> "NO_RESPONSE"
                       [] code = "WORKER_REQUEST_FAILED" -> "REQUEST_FAILED"
                       [] OTHER -> "UNAVAILABLE"

-------------------------------------------------------------------------------

(* payload_store.write: the raw text of one input goes to a file. *)
WritePayload(r) == /\ At(r, "new", "stored")
                   /\ payload' = [payload EXCEPT ![r] = "stored"]
                   /\ UNCHANGED <<vars, reply, result>>

(* write_text raised after it had created the file; no finally clause is active yet. *)
WriteRaises(r) == /\ At(r, "new", "done")
                  /\ payload' = [payload EXCEPT ![r] = "partial"]
                  /\ Returns(r, "raised")
                  /\ UNCHANGED <<vars, reply>>

(* A call without payload: readiness_probe. *)
NoPayload(r) == /\ At(r, "new", "stored")
                /\ UNCHANGED <<vars, payload, reply, result>>

(* Mutant: the early return forgets the payload. *)
InvalidKeepsPayload(r) == /\ At(r, "stored", "done")
                          /\ Returns(r, "INVALID")
                          /\ UNCHANGED <<vars, payload, reply>>

(* validate_worker_request found a forbidden field or task. *)
Invalid(r) == /\ At(r, "stored", "done")
              /\ payload' = [payload EXCEPT ![r] = IF @ = "stored" THEN "deleted" ELSE @]
              /\ Returns(r, "INVALID")
              /\ UNCHANGED <<vars, reply>>

(* resident.request(...) is entered, goes on, and returns None or a line. *)
Enter(r) == /\ At(r, "stored", "inside")
            /\ (Acquire(r) \/ QueueFull(r))
            /\ UNCHANGED <<payload, reply, result>>

Inside(r) == /\ step[r] = "inside"
             /\ Caller(r)
             /\ UNCHANGED clientVars

(* Mutant: a line that came after the timeout is taken all the same. *)
ParseLateLine(r) == /\ At(r, "inside", "cleanup")
                    /\ phase[r] = "done"
                    /\ answer[r] # NoJob
                    /\ Returns(r, reply[answer[r]])
                    /\ UNCHANGED <<vars, payload, reply>>

(* The line of a request that got one is parsed: it says ok, or it carries *)
(* an error code or is not JSON, which are both "not_ok".                   *)
ParseLine(r) == /\ At(r, "inside", "cleanup")
                /\ phase[r] = "done"
                /\ outcome[r] = "succeeded"
                /\ Returns(r, reply[answer[r]])
                /\ UNCHANGED <<vars, payload, reply>>

(* snapshot(), first look at _process: if it is not None, poll() is called on it next. *)
SnapshotLooks(r) == /\ step[r] = "inside"
                    /\ phase[r] = "done"
                    /\ outcome[r] # "succeeded"
                    /\ IF process # "none"
                       THEN /\ step' = [step EXCEPT ![r] = "polling"]
                            /\ UNCHANGED result
                       ELSE /\ step' = [step EXCEPT ![r] = "cleanup"]
                            /\ Returns(r, FailureCode(lastFailure))
                    /\ UNCHANGED <<vars, payload, reply>>

(* Second look, still without _lock: a restart in between makes it None.poll(). *)
SnapshotPolls(r) == /\ At(r, "polling", "cleanup")
                    /\ Returns(r, IF process = "none" THEN "raised" ELSE FailureCode(lastFailure))
                    /\ UNCHANGED <<vars, payload, reply>>

(* Mutant: the finally clause waits for a payload that a probe never has. *)
DeletePayloadOnly(r) == /\ At(r, "cleanup", "done")
                        /\ payload[r] = "stored"
                        /\ payload' = [payload EXCEPT ![r] = "deleted"]
                        /\ UNCHANGED <<vars, reply, result>>

(* finally: payload_store.delete *)
DeletePayload(r) == /\ At(r, "cleanup", "done")
                    /\ payload' = [payload EXCEPT ![r] = IF @ = "stored" THEN "deleted" ELSE @]
                    /\ UNCHANGED <<vars, reply, result>>

Call(r) == \/ WritePayload(r) \/ WriteRaises(r) \/ NoPayload(r) \/ Invalid(r)
           \/ Enter(r) \/ Inside(r)
           \/ ParseLine(r) \/ SnapshotLooks(r) \/ SnapshotPolls(r) \/ DeletePayload(r)

(* The subprocess reads the payload file of the job it handles; without it  *)
(* (its caller gave up and deleted it) it answers PAYLOAD_UNAVAILABLE.      *)
WorkerHandles == /\ WorkerAnswers
                 /\ \E content \in IF payload[Head(stdin)] = "deleted"
                                   THEN {"PAYLOAD_UNAVAILABLE"}
                                   ELSE {"ok", "not_ok"} :
                      reply' = [reply EXCEPT ![Head(stdin)] = content]
                 /\ UNCHANGED <<step, payload, result>>

Background == (Executor \/ WorkerDies \/ CloseStops \/ CloseShutsDown) /\ UNCHANGED clientVars

ClientNext == (\E r \in Requests : Call(r)) \/ WorkerHandles \/ Background

ClientSpec == ClientInit /\ [][ClientNext]_allVars

(* Threads run and timers fire; a worker that was given a line answers it or dies. *)
FairClientSpec == /\ ClientSpec
                  /\ WF_allVars((Executor /\ UNCHANGED clientVars) \/ \E r \in Requests : Call(r))
                  /\ WF_allVars(WorkerHandles \/ (WorkerDies /\ UNCHANGED clientVars))

-------------------------------------------------------------------------------
(* Properties. *)

(* Raw text never outlives its call: when execute() is over its payload     *)
(* file is gone, whatever the worker did.  Only a write that failed half    *)
(* way leaves a file behind, and that call is one that raised.              *)
PayloadGone == \A r \in Requests : step[r] = "done" =>
                 /\ payload[r] # "stored"
                 /\ payload[r] = "partial" => result[r] = "raised"

(* execute() reports ok only for a job the worker answered ok to this very  *)
(* call, in time: a rejected, timed out, crashed or cancelled request is    *)
(* never turned into a result.                                              *)
OkIsGenuine == \A r \in Requests : result[r] = "ok" =>
                 outcome[r] = "succeeded" /\ answer[r] = r /\ reply[r] = "ok"

(* Every call of execute() comes back, from a queue that was full, a worker *)
(* that died or would not start, and a client that is being closed: from    *)
(* some moment on no call is under way.                                     *)
EveryExecuteReturns == <>[](\A r \in Requests : step[r] \in {"new", "done"})
===============================================================================
