--------------------------- MODULE ApprovalService ---------------------------
(***************************************************************************)
(* application/services/approval_service.py under the two administrator    *)
(* routes: the review of one pending approval, by approve or by deny.      *)
(***************************************************************************)
EXTENDS ToolCallService

VARIABLE expired   \* the approvals whose expires_at has passed

\* _raise_for_non_pending
NonPendingError(status) ==
  CASE status = "denied"                              -> "approval_denied"
    [] status \in {"expired", "executed", "failed"}   -> "approval_already_processed"
    [] OTHER                                          -> "approval_not_pending"

\* approve_approval and deny_approval up to the conditional UPDATE: the row is
\* read, and the clock decides which transition will be attempted.
LoadApproval(r) ==
  /\ Resumes(r, "queued")
  /\ LET status == approvals[Subject(r)]
         verb   == review[r].verb
     IN  \/ status = "absent" /\ Raise(r, "approval_not_found")
         \/ status \notin {"absent", "pending"} /\ Raise(r, NonPendingError(status))
         \/ /\ status = "pending"
            /\ Goto(r, CASE Subject(r) \in expired -> "expire_pending"
                         [] verb = "approve"       -> "approve_pending"
                         [] verb = "deny"          -> "deny_pending")
            /\ UNCHANGED reply
  /\ UNCHANGED <<dbVars, registry, dispatched, expired>>

\* The conditional UPDATE pending -> next returns.
TransitionReturns(r, at) == pc[r] = at /\ ~UpdateBlocked(r, Subject(r))

\* It matched no row: another review has committed meanwhile.
LoseTransition(r) ==
  /\ \E at \in Reviewing : TransitionReturns(r, at)
  /\ ~TransitionWins(r, "pending")
  /\ Raise(r, "approval_not_pending")
  /\ UNCHANGED <<dbVars, registry, dispatched, expired>>

\* Mutant: the result of transition_status is not looked at.
ExpireApprovalUnchecked(r) ==
  /\ TransitionReturns(r, "expire_pending")
  /\ CommitAndAnswer(r, Writes("denied", FALSE, "expired", {"expired"}), "expired")
  /\ UNCHANGED <<registry, dispatched, expired>>

\* pending -> expired; _mark_tool_call_denied ends the call and its payload.
ExpireApproval(r) ==
  /\ TransitionReturns(r, "expire_pending")
  /\ TransitionWins(r, "pending")
  /\ CommitAndAnswer(r, Writes("denied", FALSE, "expired", {"expired"}), "expired")
  /\ UNCHANGED <<registry, dispatched, expired>>

\* Mutant: the call is denied whoever won the transition.
DenyApprovalUnchecked(r) ==
  /\ TransitionReturns(r, "deny_pending")
  /\ CommitAndAnswer(r, Writes("denied", FALSE, "absent", {"denied"}), "denied")
  /\ UNCHANGED <<registry, dispatched, expired>>

\* pending -> denied, likewise.
DenyApproval(r) ==
  /\ TransitionReturns(r, "deny_pending")
  /\ TransitionWins(r, "pending")
  /\ CommitAndAnswer(r, Writes("denied", FALSE, "denied", {"denied"}), "denied")
  /\ UNCHANGED <<registry, dispatched, expired>>

\* pending -> approved, then execute_approved_tool_call up to its await: with
\* the approval only flushed, the upstream call starts.
ApproveAndExecute(r) ==
  /\ TransitionReturns(r, "approve_pending")
  /\ TransitionWins(r, "pending")
  /\ CanExecute(r)
  /\ Write(r, [row |-> NoRow, approval |-> "approved", audit |-> {"approved"}])
  /\ Goto(r, "awaiting")
  /\ dispatched' = dispatched \cup {r}
  /\ UNCHANGED <<reply, registry, expired>>

\* pending -> approved -> failed: the tool went away, or there is no client.
ApproveAndFail(r) ==
  /\ TransitionReturns(r, "approve_pending")
  /\ TransitionWins(r, "pending")
  /\ ~CanExecute(r)
  /\ CommitAndAnswer(r, ExecutionFailed, "failed")
  /\ UNCHANGED <<registry, dispatched, expired>>
=============================================================================
