----------------------------- MODULE SliceService -----------------------------
(***************************************************************************)
(* What the network orchestrator promises of its slices, without saying    *)
(* how: one operation at a time over all slices, every operation ends, and *)
(* a slice that sleeps wakes up in an operation on it only.  By itself a   *)
(* slice that is awake may lose its UEs and get them back, and one that    *)
(* was left half-way may find its rest.                                    *)
(***************************************************************************)
CONSTANT Slice

VARIABLES
    status,         \* [Slice -> Status]
    operation       \* the one under way, or Idle

vars == <<status, operation>>

Status == {"ACTIVE", "DORMANT", "DEGRADED"}
Idle == [kind |-> "none"]

Begin(kind, s) ==
    /\ operation = Idle
    /\ operation' = [kind |-> kind, slice |-> s]
    /\ UNCHANGED status

Work ==
    /\ operation # Idle
    /\ \E b \in Status : status' = [status EXCEPT ![operation.slice] = b]
    /\ UNCHANGED operation

End ==
    /\ operation # Idle
    /\ operation' = Idle
    /\ UNCHANGED status

Drift(s) ==
    /\ \/ status[s] = "ACTIVE" /\ status' = [status EXCEPT ![s] = "DEGRADED"]
       \/ status[s] = "DEGRADED" /\ \E b \in Status : status' = [status EXCEPT ![s] = b]
    /\ UNCHANGED operation

Init == status = [s \in Slice |-> "ACTIVE"] /\ operation = Idle

Next ==
    \/ \E s \in Slice, kind \in {"activate", "deactivate"} : Begin(kind, s)
    \/ Work \/ End
    \/ \E s \in Slice : Drift(s)

\* What may happen, and that every operation ends.
Safety == Init /\ [][Next]_vars
Spec == Safety /\ WF_vars(End)
=============================================================================
