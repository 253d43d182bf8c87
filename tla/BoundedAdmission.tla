--------------------------- MODULE BoundedAdmission ---------------------------
(***************************************************************************)
(* What a bounded work boundary of the PromptGuard API promises to the     *)
(* requests that cross it, whatever threads, futures and subprocesses lie  *)
(* behind: a job is admitted only while one of Capacity slots is free and  *)
(* is otherwise rejected at once, every admitted job takes exactly one     *)
(* slot and gives back exactly one, and its caller is told exactly one     *)
(* outcome.  MlInferenceQueue and ResidentWorker are shown to implement    *)
(* this module.                                                            *)
(***************************************************************************)
EXTENDS Naturals, FiniteSets

CONSTANTS Jobs,      \* the calls made over the boundary
          Capacity   \* number of slots

VARIABLES free,      \* slots nobody holds
          stage,     \* what each job has done with its slot
          outcome    \* what its caller was told

vars == <<free, stage, outcome>>

Outcomes == {"succeeded", "timeout", "failed"}

Held == {j \in Jobs : stage[j] = "held"}

Init == /\ free = Capacity
        /\ stage = [j \in Jobs |-> "new"]
        /\ outcome = [j \in Jobs |-> "none"]

Admit(j) == /\ stage[j] = "new"
            /\ outcome[j] = "none"
            /\ free > 0
            /\ free' = free - 1
            /\ stage' = [stage EXCEPT ![j] = "held"]
            /\ UNCHANGED outcome

Reject(j) == /\ stage[j] = "new"
             /\ outcome[j] = "none"
             /\ free = 0
             /\ outcome' = [outcome EXCEPT ![j] = "rejected"]
             /\ UNCHANGED <<free, stage>>

Settle(j, o) == /\ stage[j] # "new"
                /\ outcome[j] = "none"
                /\ outcome' = [outcome EXCEPT ![j] = o]
                /\ UNCHANGED <<free, stage>>

Release(j) == /\ stage[j] = "held"
              /\ free' = free + 1
              /\ stage' = [stage EXCEPT ![j] = "released"]
              /\ UNCHANGED outcome

Next == \E j \in Jobs : \/ Admit(j)
                        \/ Reject(j)
                        \/ \E o \in Outcomes : Settle(j, o)
                        \/ Release(j)

Spec == Init /\ [][Next]_vars

-------------------------------------------------------------------------------

TypeOK == /\ free \in Nat
          /\ stage \in [Jobs -> {"new", "held", "released"}]
          /\ outcome \in [Jobs -> Outcomes \union {"none", "rejected"}]

(* The slots in use and the free ones always add up to the capacity. *)
SlotsConserved == free + Cardinality(Held) = Capacity

(* A job that was turned away never takes a slot, before or after. *)
RejectedTakesNoSlot == \A j \in Jobs : outcome[j] = "rejected" => stage[j] = "new"

===============================================================================
