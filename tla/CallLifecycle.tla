---------------------------- MODULE CallLifecycle ----------------------------
(***************************************************************************)
(* What the gateway promises about a tool call, whatever its handlers,     *)
(* workers and transactions do.  Calls come in groups: a call without      *)
(* idempotency key is a group of its own, the calls of one agent with one  *)
(* key form a group.  A group gets one record; the recorded call runs at   *)
(* most once at a time, and once its run is recorded, or it is refused, it *)
(* is closed for good.  A run whose transaction is lost leaves the group   *)
(* as it was.                                                              *)
(***************************************************************************)
CONSTANT Calls

VARIABLES group,    \* [Calls -> the group of the call], fixed
          status,   \* what is recorded about each call
          running   \* the calls whose upstream call is in flight

lifecycle == <<group, status, running>>

Free(c) == \A d \in Calls : group[d] = group[c] => status[d] = "none" /\ d \notin running

\* Nothing is recorded in the group, or c waits for a decision.
Open(c) == Free(c) \/ (status[c] = "pending" /\ c \notin running)

Record(c, outcome) == status' = [status EXCEPT ![c] = outcome]

LInit == /\ status = [c \in Calls |-> "none"]
         /\ running = {}

\* The policy wants an approval.
Postpone(c) == Free(c) /\ Record(c, "pending") /\ UNCHANGED <<group, running>>

\* Policy, administrator, expiry or a missing tool close the call unrun.
Refuse(c) == /\ Open(c)
             /\ \E outcome \in {"denied", "failed"} : Record(c, outcome)
             /\ UNCHANGED <<group, running>>

Begin(c) == Open(c) /\ running' = running \cup {c} /\ UNCHANGED <<group, status>>

Finish(c) == /\ c \in running
             /\ running' = running \ {c}
             /\ \E outcome \in {"succeeded", "failed"} : Record(c, outcome)
             /\ UNCHANGED group

\* The runs of S are lost with their transactions.
Lose(S) == S # {} /\ running' = running \ S /\ UNCHANGED <<group, status>>

LNext == \/ \E c \in Calls : Postpone(c) \/ Refuse(c) \/ Begin(c) \/ Finish(c)
         \/ \E S \in SUBSET running : Lose(S)

LSpec == LInit /\ [][LNext]_lifecycle
=============================================================================
