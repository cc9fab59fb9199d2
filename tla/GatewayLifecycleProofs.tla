------------------------ MODULE GatewayLifecycleProofs ------------------------
(***************************************************************************)
(* That Gateway implements CallLifecycle, and that what it answers and     *)
(* records stays true, for every value of the constants.                   *)
(***************************************************************************)
EXTENDS GatewayProofs

-----------------------------------------------------------------------------
\* The kinds of step a handler makes, by what they do to the committed rows, to
\* the upstream call and to the answer.

\* It moves on, or raises, without calling, committing or answering anything.
MovesOn(r) ==
  /\ UNCHANGED <<calls, approvals, audit, dispatched>>
  /\ pc[r] \notin {"awaiting", "unwinding", "done"}
  /\ \/ UNCHANGED reply
        /\ \E where \in PcValue \ {"awaiting", "unwinding", "done"} : Goto(r, where)
     \/ \E code \in ErrorCode : Raise(r, code)

\* It answers with the row recorded under its key.
Replays(r) ==
  /\ r \in CallReqs /\ pc[r] = "queued" /\ Goto(r, "done")
  /\ UNCHANGED <<calls, approvals, audit, dispatched>>
  /\ \E d \in FoundByKey(r) :
       /\ req[d].tool = req[r].tool /\ req[d].args = req[r].args
       /\ calls[d].status # "executing"
       /\ reply' = [reply EXCEPT ![r] = [code |-> calls[d].status, call |-> d]]

\* It calls the MCP server, for a free key or for the pending approval it has won.
CallsUpstream(r) ==
  /\ pc[r] \notin {"awaiting", "unwinding", "done"} /\ Goto(r, "awaiting")
  /\ dispatched' = dispatched \cup {r}
  /\ UNCHANGED <<calls, approvals, audit, reply>>
  /\ \/ r \in CallReqs   /\ CanCreate(r)
     \/ r \in ReviewReqs /\ approvals[Subject(r)] = "pending" /\ ~UpdateBlocked(r, Subject(r))

\* It records its call: refused or postponed, or with the outcome of its run.
RecordsCall(c) ==
  /\ c \in CallReqs /\ UNCHANGED dispatched
  /\ \/ /\ pc[c] \notin {"awaiting", "unwinding", "done"} /\ CanCreate(c)
        /\ \/ CommitAndAnswer(c, Writes("denied", FALSE, "absent", {"denied"}), "denied")
           \/ CommitAndAnswer(c, Writes("pending_approval", TRUE, "pending", {"pending_approval"}),
                              "pending_approval")
           \/ CommitAndAnswer(c, Writes("failed", FALSE, "absent", {"failed"}), "failed")
     \/ /\ pc[c] = "awaiting"
        /\ \E outcome \in {"succeeded", "failed"} :
             CommitAndAnswer(c, Writes(outcome, FALSE, "absent", {outcome}), outcome)

\* It closes the approval under review, unrun or with the outcome of the run.
ClosesApproval(r) ==
  /\ r \in ReviewReqs /\ UNCHANGED dispatched
  /\ approvals[Subject(r)] = "pending" /\ ~UpdateBlocked(r, Subject(r))
  /\ \/ /\ pc[r] \notin {"awaiting", "unwinding", "done"}
        /\ \/ CommitAndAnswer(r, Writes("denied", FALSE, "expired", {"expired"}), "expired")
           \/ CommitAndAnswer(r, Writes("denied", FALSE, "denied", {"denied"}), "denied")
           \/ CommitAndAnswer(r, ExecutionFailed, "failed")
     \/ /\ pc[r] = "awaiting"
        /\ \/ CommitAndAnswer(r, ExecutionFailed, "failed")
           \/ CommitAndAnswer(r, Writes("succeeded", FALSE, "executed", {"approved", "executed"}),
                              "executed")

\* Its upstream call ends in an exception nobody catches.
LosesRun(r) ==
  /\ pc[r] = "awaiting" /\ Raise(r, "internal_error")
  /\ UNCHANGED <<calls, approvals, audit, dispatched>>

\* The session of a handler that raised is closed, and the error answered.
AnswersError(r) ==
  /\ pc[r] = "unwinding" /\ Goto(r, "done")
  /\ UNCHANGED <<calls, approvals, audit, dispatched, reply>>

LEMMA HandlerKinds ==
  ASSUME IInv, NEW r \in Requests, Serve(r)
  PROVE  /\ UNCHANGED rigidVars
         /\ \/ MovesOn(r) \/ Replays(r) \/ CallsUpstream(r) \/ RecordsCall(r)
            \/ ClosesApproval(r) \/ LosesRun(r) \/ AnswersError(r)
<1>0. UNCHANGED rigidVars
  BY DEF Serve, Authenticate, CallTool, ReviewApproval
<1>1. SUFFICES \/ MovesOn(r) \/ Replays(r) \/ CallsUpstream(r) \/ RecordsCall(r)
               \/ ClosesApproval(r) \/ LosesRun(r) \/ AnswersError(r)
  BY <1>0
<1>2. HoldsLoop \cup {"queued"} \subseteq PcValue \ {"awaiting", "unwinding", "done"}
  BY DEF PcValue, InFlight, HoldsLoop, PolicyEffect, Reviewing
<1>3. ASSUME pc[r] \notin {"awaiting", "unwinding", "done"}, UNCHANGED <<dbVars, dispatched>>,
             \/ UNCHANGED reply /\ \E where \in HoldsLoop \cup {"queued"} : Goto(r, where)
             \/ \E code \in ErrorCode : Raise(r, code)
      PROVE  MovesOn(r)
  BY <1>2, <1>3 DEF MovesOn, dbVars
<1>4. CASE Authenticate(r)
  BY <1>3, <1>4 DEF Authenticate, ErrorCode
<1>5. CASE r \in CallReqs /\ LookupIdempotencyKey(r)
  <2>1. CASE Goto(r, "lookup_tool") /\ UNCHANGED reply
    BY <1>3, <1>5, <2>1 DEF LookupIdempotencyKey, Resumes, HoldsLoop
  <2>2. CASE Raise(r, "idempotency_conflict")
    BY <1>3, <1>5, <2>2 DEF LookupIdempotencyKey, Resumes, ErrorCode
  <2>3. CASE \E d \in FoundByKey(r) :
               /\ ~(\/ req[d].tool # req[r].tool \/ req[d].args # req[r].args
                    \/ calls[d].status = "executing")
               /\ Goto(r, "done")
               /\ reply' = [reply EXCEPT ![r] = [code |-> calls[d].status, call |-> d]]
    BY <1>5, <2>3 DEF LookupIdempotencyKey, Resumes, Replays, dbVars
  <2> QED
    BY <1>5, <2>1, <2>2, <2>3 DEF LookupIdempotencyKey
<1>6. CASE LookupTool(r)
  <2>0. pc[r] = "lookup_tool" /\ UNCHANGED dispatched
    BY <1>6 DEF LookupTool
  <2>1. ASSUME NEW code \in ErrorCode, Write(r, [txn[r] EXCEPT !.audit = {"failed"}]), Raise(r, code)
        PROVE  MovesOn(r)
    BY <2>0, <2>1 DEF Write, MovesOn
  <2>2. \A risk : Decisions(risk) \subseteq HoldsLoop
    BY DEF Decisions, PolicyEffect, HoldsLoop
  <2>3. CASE Raise(r, "internal_error") /\ UNCHANGED dbVars
    BY <1>3, <2>0, <2>3 DEF ErrorCode
  <2>4. CASE (\E risk : \E decision \in Decisions(risk) : Goto(r, decision)) /\ UNCHANGED <<dbVars, reply>>
    BY <1>3, <2>0, <2>2, <2>4
  <2> QED
    BY <1>6, <2>1, <2>3, <2>4 DEF LookupTool, ErrorCode
<1>7. CASE CreateToolCallFails(r)
  BY <1>3, <1>7 DEF CreateToolCallFails, PolicyEffect, ErrorCode
<1>8. CASE r \in CallReqs /\ (DenyCall(r) \/ RequestApproval(r) \/ FailWithoutClient(r))
  BY <1>8 DEF DenyCall, RequestApproval, FailWithoutClient, RecordsCall
<1>9. CASE r \in CallReqs /\ CallUpstream(r)
  BY <1>9 DEF CallUpstream, Write, CallsUpstream
<1>10. CASE r \in CallReqs /\ CompleteCall(r)
  BY <1>10 DEF CompleteCall, Resumes, RecordsCall
<1>11. CASE UpstreamRaises(r)
  BY <1>11 DEF UpstreamRaises, Resumes, LosesRun, dbVars
<1>12. CASE Unwind(r)
  BY <1>12 DEF Unwind, Resumes, Rollback, AnswersError
<1>13. CASE r \in ReviewReqs /\ LoadApproval(r)
  <2>1. \A status : NonPendingError(status) \in ErrorCode
    BY DEF NonPendingError, ErrorCode
  <2>2. review[r].verb \in {"approve", "deny"}
    BY <1>13 DEF IInv, TypeOK, DbTypeOK, ReviewRequest
  <2>3. CASE UNCHANGED reply /\ \E where \in Reviewing : Goto(r, where)
    BY <1>3, <1>13, <2>3 DEF LoadApproval, Resumes, HoldsLoop
  <2>4. CASE \E code \in ErrorCode : Raise(r, code)
    BY <1>3, <1>13, <2>4 DEF LoadApproval, Resumes
  <2>5. CASE approvals[Subject(r)] = "pending"
    <3>1. CASE Subject(r) \in expired
      BY <1>13, <2>3, <2>5, <3>1 DEF LoadApproval, Reviewing
    <3>2. CASE Subject(r) \notin expired
      BY <1>13, <2>2, <2>3, <2>5, <3>2 DEF LoadApproval, Reviewing
    <3> QED
      BY <3>1, <3>2
  <2>6. CASE approvals[Subject(r)] # "pending"
    BY <1>13, <2>1, <2>4, <2>6 DEF LoadApproval, ErrorCode
  <2> QED
    BY <2>5, <2>6
<1>14. CASE LoseTransition(r)
  BY <1>3, <1>14 DEF LoseTransition, TransitionReturns, Reviewing, ErrorCode
<1>15. ASSUME \E at \in Reviewing : TransitionReturns(r, at), TransitionWins(r, "pending")
       PROVE  /\ pc[r] \notin {"awaiting", "unwinding", "done"} /\ ~UpdateBlocked(r, Subject(r))
              /\ approvals[Subject(r)] = "pending"
  <2>1. pc[r] \in Reviewing /\ ~UpdateBlocked(r, Subject(r))
    BY <1>15 DEF TransitionReturns
  <2>2. pc[r] \notin {"awaiting", "unwinding", "done"}
    BY <2>1 DEF Reviewing
  <2>3. txn[r].approval = "absent"
    BY <2>2 DEF IInv, ApprovalWritesExclusive
  <2> QED
    BY <1>15, <2>1, <2>2, <2>3 DEF TransitionWins, VisibleApproval
<1>16. CASE r \in ReviewReqs /\ (ExpireApproval(r) \/ DenyApproval(r) \/ ApproveAndFail(r))
  BY <1>15, <1>16 DEF ExpireApproval, DenyApproval, ApproveAndFail, Reviewing, ClosesApproval
<1>17. CASE r \in ReviewReqs /\ ApproveAndExecute(r)
  BY <1>15, <1>17 DEF ApproveAndExecute, Reviewing, Write, CallsUpstream
<1>18. CASE r \in ReviewReqs /\ CompleteExecution(r)
  <2>1. pc[r] = "awaiting" /\ r \notin CallReqs
    BY <1>18, RequestsDisjoint DEF CompleteExecution, Resumes
  <2>2. txn[r].approval # "absent"
    BY <2>1 DEF IInv, AwaitingHasWritten
  <2>3. approvals[Subject(r)] = "pending" /\ ~UpdateBlocked(r, Subject(r))
    BY <2>2 DEF IInv, ApprovalWritesExclusive, UpdateBlocked
  <2> QED
    BY <1>18, <2>1, <2>3 DEF CompleteExecution, ClosesApproval
<1> QED
  BY <1>4, <1>5, <1>6, <1>7, <1>8, <1>9, <1>10, <1>11, <1>12, <1>13, <1>14, <1>16, <1>17, <1>18
     DEF Serve, CallTool, ReviewApproval

-----------------------------------------------------------------------------
\* The refinement mapping.

\* The calls some handler runs upstream, as the mapping sees them.
Running == {Subject(r) : r \in {s \in Requests : pc[s] = "awaiting"}}

\* Two handlers never await the MCP client on behalf of one call.
LEMMA OneRunner ==
  ASSUME IInv, NEW r \in Requests, NEW s \in Requests,
         pc[r] = "awaiting", pc[s] = "awaiting", Subject(r) = Subject(s)
  PROVE  r = s
<1>1. ASSUME NEW a \in CallReqs, NEW b \in ReviewReqs, pc[a] = "awaiting", pc[b] = "awaiting"
      PROVE  Subject(a) # Subject(b)
  <2>1. a \in Requests /\ b \in Requests /\ b \notin CallReqs /\ Subject(a) = a
    BY RequestsDisjoint DEF Requests, Subject
  <2>2. calls[a].status = "absent"
    BY <1>1, RowMeansDone
  <2>3. txn[b].approval # "absent"
    BY <1>1, <2>1 DEF IInv, AwaitingHasWritten
  <2>4. approvals[Subject(b)] = "pending"
    BY <2>1, <2>3 DEF IInv, ApprovalWritesExclusive
  <2> QED
    BY <2>1, <2>2, <2>4 DEF IInv, ApprovalMatchesToolCall, CoherentStates
<1>2. CASE r \in CallReqs /\ s \in CallReqs
  BY <1>2 DEF Subject
<1>3. CASE r \notin CallReqs /\ s \notin CallReqs
  BY <1>3 DEF IInv, AwaitingHasWritten, ApprovalWritesExclusive
<1> QED
  BY <1>1, <1>2, <1>3 DEF Requests

\* What a handler's move does to the running calls.
LEMMA RunningMoves ==
  ASSUME IInv, UNCHANGED rigidVars, NEW r \in Requests, NEW where, Goto(r, where)
  PROVE  /\ (pc[r] # "awaiting" /\ where # "awaiting") => Running' = Running
         /\ where = "awaiting" => Running' = Running \cup {Subject(r)}
         /\ (pc[r] = "awaiting" /\ where # "awaiting") =>
              Subject(r) \in Running /\ Running' = Running \ {Subject(r)}
<1>0. pc' = [pc EXCEPT ![r] = where] /\ pc \in [Requests -> PcValue]
  BY DEF Goto, IInv, TypeOK, ServiceTypeOK
<1>1. \A s : Subject(s)' = Subject(s)
  BY DEF Subject, rigidVars
<1>2. \A c : c \in Running <=> \E s \in Requests : pc[s] = "awaiting" /\ c = Subject(s)
  BY DEF Running
<1>3. \A c : c \in Running' <=> \E s \in Requests : pc'[s] = "awaiting" /\ c = Subject(s)
  BY <1>1 DEF Running
<1>4. /\ pc'[r] = where
      /\ \A s \in Requests \ {r} : pc'[s] = pc[s]
  BY <1>0
<1> HIDE DEF Running
<1>5. ASSUME pc[r] # "awaiting", where # "awaiting" PROVE Running' = Running
  BY <1>2, <1>3, <1>4, <1>5
<1>6. ASSUME where = "awaiting" PROVE Running' = Running \cup {Subject(r)}
  <2>1. \A c : c \in Running' <=> c \in Running \/ c = Subject(r)
    BY <1>2, <1>3, <1>4, <1>6
  <2> QED
    BY <2>1
<1>7. ASSUME pc[r] = "awaiting", where # "awaiting"
      PROVE  Subject(r) \in Running /\ Running' = Running \ {Subject(r)}
  <2>1. \A s \in Requests : pc[s] = "awaiting" /\ Subject(s) = Subject(r) => s = r
    BY <1>7, OneRunner
  <2>2. \A c : c \in Running' <=> c \in Running /\ c # Subject(r)
    BY <1>2, <1>3, <1>4, <1>7, <2>1
  <2>3. Subject(r) \in Running
    BY <1>2, <1>7
  <2> QED
    BY <2>2, <2>3
<1> QED
  BY <1>5, <1>6, <1>7

\* The records of the calls, and their groups, as the mapping sees them.
Recorded == [c \in CallReqs |-> RecordedStatus(c)]
Groups   == [c \in CallReqs |-> GroupOf(c)]

\* Calls in one group are one operation.
LEMMA GroupIsOperation ==
  ASSUME NEW c \in CallReqs, NEW d \in CallReqs, GroupOf(c) = GroupOf(d)
  PROVE  SameOperation(c, d)
BY DEF GroupOf, SameOperation

\* A call that can create its row finds its group free.
LEMMA FreeToCreate ==
  ASSUME IInv, NEW c \in CallReqs, pc[c] \notin {"awaiting", "done"}, CanCreate(c)
  PROVE  Lifecycle!Free(c)
<1> SUFFICES ASSUME NEW d \in CallReqs, GroupOf(d) = GroupOf(c)
             PROVE  RecordedStatus(d) = "none" /\ d \notin Running
  BY DEF Lifecycle!Free, Running
<1>1. d = c \/ SameKey(c, d)
  BY GroupIsOperation DEF SameOperation
<1>2. calls[d].status = "absent"
  BY <1>1, RowMeansDone DEF CanCreate, FoundByKey
<1>3. ASSUME NEW s \in Requests, pc[s] = "awaiting", Subject(s) = d PROVE FALSE
  <2>1. CASE s \in CallReqs
    <3>1. s = d /\ s # c
      BY <1>3, <2>1 DEF Subject
    <3>2. txn[s].row # NoRow
      BY <1>3, <2>1 DEF IInv, AwaitingHasWritten
    <3>3. InsertBlocked(c)
      BY <1>1, <1>3, <3>1, <3>2 DEF InsertBlocked
    <3> QED
      BY <3>3 DEF CanCreate
  <2>2. CASE s \notin CallReqs
    <3>1. txn[s].approval # "absent"
      BY <1>3, <2>2 DEF IInv, AwaitingHasWritten
    <3>2. approvals[d] = "pending"
      BY <1>3, <3>1 DEF IInv, ApprovalWritesExclusive
    <3> QED
      BY <1>2, <3>2 DEF IInv, ApprovalMatchesToolCall, CoherentStates
  <2> QED
    BY <2>1, <2>2
<1> QED
  BY <1>2, <1>3 DEF RecordedStatus, Running

\* An approval that can be closed belongs to a call that waits for a decision.
LEMMA WaitsForDecision ==
  ASSUME IInv, NEW r \in ReviewReqs,
         approvals[Subject(r)] = "pending", ~UpdateBlocked(r, Subject(r))
  PROVE  /\ Subject(r) \in CallReqs /\ RecordedStatus(Subject(r)) = "pending"
         /\ pc[r] # "awaiting" => Subject(r) \notin Running
<1>1. r \in Requests /\ Subject(r) \in CallReqs
  BY SubjectType DEF IInv, TypeOK, Requests
<1>2. calls[Subject(r)].status = "pending_approval"
  BY <1>1 DEF IInv, ApprovalMatchesToolCall, CoherentStates
<1>3. ASSUME NEW s \in Requests \ {r}, pc[s] = "awaiting", Subject(s) = Subject(r) PROVE FALSE
  <2>1. CASE s \in CallReqs
    <3>1. calls[s].status = "absent" /\ Subject(s) = s
      BY <1>3, <2>1, RowMeansDone DEF Subject
    <3> QED
      BY <1>2, <1>3, <3>1
  <2>2. CASE s \notin CallReqs
    BY <1>3, <2>2 DEF IInv, AwaitingHasWritten, UpdateBlocked
  <2> QED
    BY <2>1, <2>2
<1> QED
  BY <1>1, <1>2, <1>3 DEF RecordedStatus, Running

\* A commit that writes the row of a call records its status, and nothing else.
LEMMA CommitRecords ==
  ASSUME IInv, NEW r \in Requests, NEW writes, Commit(r, writes),
         writes.row.status # "absent"
  PROVE  Recorded' = [Recorded EXCEPT ![Subject(r)] =
                        IF writes.row.status = "pending_approval" THEN "pending"
                        ELSE writes.row.status]
<1>1. Subject(r) \in CallReqs /\ calls \in [CallReqs -> Row \cup {NoRow}]
  BY SubjectType DEF IInv, TypeOK, DbTypeOK
<1>2. calls' = [calls EXCEPT ![Subject(r)] = writes.row]
  BY DEF Commit, NoRow
<1> QED
  BY <1>1, <1>2 DEF Recorded, RecordedStatus

\* What an action of CallLifecycle does, as the mapping sees it, is its step.
LEMMA PostponeStep ==
  ASSUME NEW c \in CallReqs, Lifecycle!Free(c), UNCHANGED <<Groups, Running>>,
         Recorded' = [Recorded EXCEPT ![c] = "pending"]
  PROVE  Lifecycle!LNext
<1>1. Lifecycle!Postpone(c)
  BY DEF Lifecycle!Postpone, Lifecycle!Record, Running, Recorded, Groups
<1> QED
  BY <1>1 DEF Lifecycle!LNext

LEMMA RefuseStep ==
  ASSUME NEW c \in CallReqs, Lifecycle!Open(c), UNCHANGED <<Groups, Running>>,
         NEW outcome \in {"denied", "failed"},
         Recorded' = [Recorded EXCEPT ![c] = outcome]
  PROVE  Lifecycle!LNext
<1>1. Lifecycle!Refuse(c)
  BY DEF Lifecycle!Refuse, Lifecycle!Record, Running, Recorded, Groups
<1> QED
  BY <1>1 DEF Lifecycle!LNext

LEMMA BeginStep ==
  ASSUME NEW c \in CallReqs, Lifecycle!Open(c), UNCHANGED <<Groups, Recorded>>,
         Running' = Running \cup {c}
  PROVE  Lifecycle!LNext
<1>1. Lifecycle!Begin(c)
  BY DEF Lifecycle!Begin, Running, Recorded, Groups
<1> QED
  BY <1>1 DEF Lifecycle!LNext

LEMMA FinishStep ==
  ASSUME NEW c \in CallReqs, c \in Running, UNCHANGED Groups, Running' = Running \ {c},
         NEW outcome \in {"succeeded", "failed"},
         Recorded' = [Recorded EXCEPT ![c] = outcome]
  PROVE  Lifecycle!LNext
<1>1. Lifecycle!Finish(c)
  BY DEF Lifecycle!Finish, Lifecycle!Record, Running, Recorded, Groups
<1> QED
  BY <1>1 DEF Lifecycle!LNext

LEMMA LoseStep ==
  ASSUME NEW S \in SUBSET Running, S # {}, UNCHANGED <<Groups, Recorded>>,
         Running' = Running \ S
  PROVE  Lifecycle!LNext
<1>1. Lifecycle!Lose(S)
  BY DEF Lifecycle!Lose, Running, Recorded, Groups
<1> QED
  BY <1>1 DEF Lifecycle!LNext, Running

\* Every step of the gateway is a step of CallLifecycle, or leaves it alone.
LEMMA LifecycleStep ==
  IInv /\ [Next]_vars => [Lifecycle!LNext]_(Lifecycle!lifecycle)
<1> SUFFICES ASSUME IInv, [Next]_vars
             PROVE  Lifecycle!LNext \/ UNCHANGED <<Groups, Recorded, Running>>
  BY DEF Lifecycle!lifecycle, Groups, Recorded, Running
<1>1. ASSUME UNCHANGED rigidVars PROVE UNCHANGED Groups
  BY <1>1 DEF rigidVars, Groups, GroupOf, SameOperation, SameKey
<1>2. ASSUME UNCHANGED calls PROVE UNCHANGED Recorded
  BY <1>2 DEF Recorded, RecordedStatus
<1>3. ASSUME UNCHANGED <<rigidVars, calls, pc>> PROVE UNCHANGED <<Groups, Recorded, Running>>
  <2>1. UNCHANGED Running
    BY <1>3 DEF Running, Subject, rigidVars
  <2> QED
    BY <1>1, <1>2, <1>3, <2>1
<1>4. CASE UNCHANGED vars
  BY <1>3, <1>4 DEF vars, rigidVars, dbVars, serviceVars
<1>5. ASSUME NEW r \in Requests, Submit(r) PROVE UNCHANGED <<Groups, Recorded, Running>>
  <2>1. Goto(r, IF r \in CallReqs THEN "received" ELSE "queued") /\ UNCHANGED rigidVars
        /\ UNCHANGED calls /\ pc[r] # "awaiting"
    BY <1>5 DEF Submit, dbVars
  <2>2. UNCHANGED Running
    BY <2>1, RunningMoves
  <2> QED
    BY <1>1, <1>2, <2>1, <2>2
<1>6. ASSUME NEW r \in Requests, Serve(r)
      PROVE  Lifecycle!LNext \/ UNCHANGED <<Groups, Recorded, Running>>
  <2> DEFINE c == Subject(r)
  <2>0. UNCHANGED rigidVars /\ UNCHANGED Groups /\ c \in CallReqs
    BY <1>1, <1>6, HandlerKinds, SubjectType DEF IInv, TypeOK
  <2>1. ASSUME UNCHANGED calls, pc[r] # "awaiting", NEW where, where # "awaiting", Goto(r, where)
        PROVE  UNCHANGED <<Groups, Recorded, Running>>
    BY <1>2, <2>0, <2>1, RunningMoves
  <2>2. CASE MovesOn(r)
    BY <2>1, <2>2 DEF MovesOn, Raise
  <2>3. CASE Replays(r)
    BY <2>1, <2>3 DEF Replays
  <2>4. CASE AnswersError(r)
    BY <2>1, <2>4 DEF AnswersError
  <2>5. CASE CallsUpstream(r)
    <3>1. UNCHANGED Recorded /\ Running' = Running \cup {c}
      BY <1>2, <2>0, <2>5, RunningMoves DEF CallsUpstream
    <3>2. Lifecycle!Open(c)
      <4>1. CASE r \in CallReqs
        BY <2>5, <4>1, FreeToCreate, RequestsDisjoint DEF CallsUpstream, Subject, Lifecycle!Open
      <4>2. CASE r \in ReviewReqs
        BY <2>5, <4>2, WaitsForDecision, RequestsDisjoint
           DEF CallsUpstream, Lifecycle!Open, Running
      <4> QED
        BY <4>1, <4>2 DEF Requests
    <3> QED
      BY <2>0, <3>1, <3>2, BeginStep
  <2>6. CASE LosesRun(r)
    <3>1. UNCHANGED Recorded /\ c \in Running /\ Running' = Running \ {c}
      BY <1>2, <2>0, <2>6, RunningMoves DEF LosesRun, Raise
    <3> QED
      BY <2>0, <3>1, LoseStep
  <2>7. ASSUME NEW writes, NEW code, CommitAndAnswer(r, writes, code), writes.row.status # "absent"
        PROVE  /\ Recorded' = [Recorded EXCEPT ![c] = IF writes.row.status = "pending_approval"
                                                      THEN "pending" ELSE writes.row.status]
               /\ pc[r] # "awaiting" => Running' = Running
               /\ pc[r] = "awaiting" => c \in Running /\ Running' = Running \ {c}
    BY <2>0, <2>7, CommitRecords, RunningMoves DEF CommitAndAnswer
  <2>8. CASE RecordsCall(r)
    <3>1. CASE pc[r] # "awaiting"
      <4>1. r \in CallReqs /\ pc[r] \notin {"awaiting", "done"} /\ CanCreate(r) /\ c = r
        BY <2>8, <3>1 DEF RecordsCall, Subject
      <4>2. Lifecycle!Free(c)
        BY <4>1, FreeToCreate
      <4>3. Lifecycle!Open(c)
        BY <4>2 DEF Lifecycle!Open
      <4>4. CASE CommitAndAnswer(r, Writes("denied", FALSE, "absent", {"denied"}), "denied")
        BY <2>0, <2>7, <3>1, <4>3, <4>4, RefuseStep DEF Writes
      <4>5. CASE CommitAndAnswer(r, Writes("failed", FALSE, "absent", {"failed"}), "failed")
        BY <2>0, <2>7, <3>1, <4>3, <4>5, RefuseStep DEF Writes
      <4>6. CASE CommitAndAnswer(r, Writes("pending_approval", TRUE, "pending",
                                           {"pending_approval"}), "pending_approval")
        <5>1. Recorded' = [Recorded EXCEPT ![c] = "pending"] /\ UNCHANGED Running
          BY <2>7, <3>1, <4>6 DEF Writes
        <5> QED
          BY <2>0, <4>2, <5>1, PostponeStep
      <4> QED
        BY <2>8, <3>1, <4>4, <4>5, <4>6 DEF RecordsCall
    <3>2. CASE pc[r] = "awaiting"
      <4>1. PICK outcome \in {"succeeded", "failed"} :
              CommitAndAnswer(r, Writes(outcome, FALSE, "absent", {outcome}), outcome)
        BY <2>8, <3>2 DEF RecordsCall
      <4>2. /\ Recorded' = [Recorded EXCEPT ![c] = outcome]
            /\ c \in Running /\ Running' = Running \ {c}
        BY <2>7, <3>2, <4>1 DEF Writes
      <4> QED
        BY <2>0, <4>2, FinishStep
    <3> QED
      BY <3>1, <3>2
  <2>9. CASE ClosesApproval(r)
    <3>0. /\ RecordedStatus(c) = "pending"
          /\ pc[r] # "awaiting" => c \notin Running
      BY <2>9, WaitsForDecision DEF ClosesApproval
    <3>1. \E outcome \in {"denied", "failed", "succeeded"} :
            /\ Recorded' = [Recorded EXCEPT ![c] = outcome]
            /\ pc[r] # "awaiting" => outcome \in {"denied", "failed"} /\ Running' = Running
            /\ pc[r] = "awaiting" => /\ outcome \in {"failed", "succeeded"}
                                     /\ c \in Running /\ Running' = Running \ {c}
      <4>1. CASE CommitAndAnswer(r, ExecutionFailed, "failed")
        BY <2>7, <4>1 DEF ExecutionFailed, Writes
      <4>2. CASE pc[r] # "awaiting" /\
                 CommitAndAnswer(r, Writes("denied", FALSE, "expired", {"expired"}), "expired")
        BY <2>7, <4>2 DEF Writes
      <4>3. CASE pc[r] # "awaiting" /\
                 CommitAndAnswer(r, Writes("denied", FALSE, "denied", {"denied"}), "denied")
        BY <2>7, <4>3 DEF Writes
      <4>4. CASE pc[r] = "awaiting" /\
                 CommitAndAnswer(r, Writes("succeeded", FALSE, "executed", {"approved", "executed"}),
                                 "executed")
        BY <2>7, <4>4 DEF Writes
      <4> QED
        BY <2>9, <4>1, <4>2, <4>3, <4>4 DEF ClosesApproval
    <3>2. CASE pc[r] # "awaiting"
      <4>1. Lifecycle!Open(c)
        BY <2>0, <3>0, <3>2 DEF Lifecycle!Open, Running
      <4> QED
        BY <2>0, <3>1, <3>2, <4>1, RefuseStep
    <3>3. CASE pc[r] = "awaiting"
      BY <2>0, <3>1, <3>3, FinishStep
    <3> QED
      BY <3>2, <3>3
  <2> QED
    BY <1>6, <2>2, <2>3, <2>4, <2>5, <2>6, <2>8, <2>9, HandlerKinds
<1>7. ASSUME NEW t \in Tools, RefreshTools(t) \/ UpdateToolDefinition(t)
      PROVE  UNCHANGED <<Groups, Recorded, Running>>
  BY <1>3, <1>7 DEF RefreshTools, UpdateToolDefinition, dbVars
<1>8. ASSUME NEW c \in CallReqs, TimePasses(c) PROVE UNCHANGED <<Groups, Recorded, Running>>
  BY <1>3, <1>8 DEF TimePasses, dbVars, serviceVars
<1>9. ASSUME NEW w \in Workers, Crash(w)
      PROVE  Lifecycle!LNext \/ UNCHANGED <<Groups, Recorded, Running>>
  <2> DEFINE victims == {r \in Requests : WorkerOf[r] = w /\ pc[r] \in InFlight}
             lost    == {Subject(r) : r \in {s \in victims : pc[s] = "awaiting"}}
  <2>1. /\ UNCHANGED <<rigidVars, calls>>
        /\ pc' = [r \in Requests |-> IF r \in victims THEN "crashed" ELSE pc[r]]
    BY <1>9 DEF Crash, Rollback
  <2>2. UNCHANGED Groups /\ UNCHANGED Recorded
    BY <1>1, <1>2, <2>1
  <2>3. \A s : Subject(s)' = Subject(s)
    BY <2>1 DEF Subject, rigidVars
  <2>4. \A s \in Requests : pc'[s] = "awaiting" <=> s \notin victims /\ pc[s] = "awaiting"
    BY <2>1
  <2>5. Running' = Running \ lost
    <3>1. \A c : c \in Running <=> \E s \in Requests : pc[s] = "awaiting" /\ c = Subject(s)
      BY DEF Running
    <3>2. \A c : c \in Running' <=> \E s \in Requests : pc'[s] = "awaiting" /\ c = Subject(s)
      BY <2>3 DEF Running
    <3>3. \A c : c \in lost <=> \E s \in victims : pc[s] = "awaiting" /\ c = Subject(s)
      OBVIOUS
    <3>4. victims \subseteq Requests
      OBVIOUS
    <3>5. \A r, s \in Requests :
            pc[r] = "awaiting" /\ pc[s] = "awaiting" /\ Subject(r) = Subject(s) => r = s
      BY OneRunner
    <3> HIDE DEF victims, lost, Running
    <3>6. \A c : c \in Running' <=> c \in Running /\ c \notin lost
      BY <2>4, <3>1, <3>2, <3>3, <3>4, <3>5
    <3> QED
      BY <3>6
  <2>6. lost \subseteq Running
    BY DEF Running
  <2> HIDE DEF lost
  <2>7. CASE lost = {}
    BY <2>2, <2>5, <2>7
  <2>8. CASE lost # {}
    BY <2>2, <2>5, <2>6, <2>8, LoseStep
  <2> QED
    BY <2>7, <2>8
<1>10. CASE Quiescent
  BY <1>4, <1>10 DEF Quiescent
<1>11. ASSUME NEW r \in Requests, DatabaseFails(r) PROVE UNCHANGED <<Groups, Recorded, Running>>
  <2>1. /\ Goto(r, "unwinding") /\ UNCHANGED rigidVars /\ UNCHANGED calls
        /\ pc[r] \in HoldsLoop \cup {"queued", "received"}
    BY <1>11, DatabaseFailsRaises DEF Raise, dbVars
  <2>2. pc[r] # "awaiting"
    BY <2>1 DEF HoldsLoop, PolicyEffect, Reviewing
  <2>3. UNCHANGED Running
    BY <2>1, <2>2, RunningMoves
  <2> QED
    BY <1>1, <1>2, <2>1, <2>3
<1> QED
  BY <1>4, <1>5, <1>6, <1>7, <1>8, <1>9, <1>10, <1>11 DEF Next

\* The gateway implements what it promises about a tool call: whatever handlers,
\* reviews, crashes and rollbacks do, each group of calls with one key gets one
\* record, runs at most once at a time and is closed for good.
THEOREM GatewayImplementsLifecycle == Spec => ImplementsLifecycle
<1>1. Init => Lifecycle!LInit
  <2> SUFFICES ASSUME Init PROVE Lifecycle!LInit
    OBVIOUS
  <2>1. /\ \A c \in CallReqs : calls[c].status = "absent"
        /\ \A r \in Requests : pc[r] # "awaiting"
    BY DEF Init, DbInit, ServiceInit, NoRow
  <2> QED
    BY <2>1 DEF Lifecycle!LInit, RecordedStatus
<1> QED
  BY <1>1, LifecycleStep, Invariant, PTL DEF Spec, ImplementsLifecycle, Lifecycle!LSpec

-----------------------------------------------------------------------------
\* What the answers and the records rest on, beyond IInv.

\* A handler that is unwinding has its error ready; an administrator has been
\* told an error or how the approval was closed.
AnswersFitTheirRequest ==
  /\ \A r \in Requests : pc[r] = "unwinding" => reply[r].code \in ErrorCode /\ reply[r].call = NoCall
  /\ \A r \in ReviewReqs : pc[r] = "done" => reply[r].code \in ErrorCode \cup TerminalStatuses

AnswersInv == AnswersFitTheirRequest /\ AnswersStayTrue

\* Whoever awaits the MCP client, or has recorded a run, has called it; a review
\* records one way of closing its approval.
RunsAreDispatched ==
  \A r \in Requests :
    pc[r] = "awaiting" \/ audit[r] \cap {"succeeded", "executed"} # {} => r \in dispatched

ReviewAudits ==
  \A r \in ReviewReqs :
    audit[r] \in {{}, {"denied"}, {"expired"}, {"approved", "failed"}, {"approved", "executed"}}

RecordsInv == RunsAreDispatched /\ ReviewAudits

\* The body of AnswersStayTrue, for one request.
AnswerIsTrue(r) ==
  LET code == reply[r].code
      c    == reply[r].call
  IN  IF code \in ErrorCode
      THEN /\ c = NoCall
           /\ audit[r] # {} => code = "internal_error" /\ WorkerOf[r] \in Unreliable
      ELSE /\ c \in CallReqs
           /\ IF r \in ReviewReqs
              THEN c = Subject(r) /\ approvals[c] = code
              ELSE /\ c = r \/ (SameKey(r, c) /\ req[r] = req[c] /\ audit[r] = {})
                   /\ IF code = "pending_approval" THEN approvals[c] # "absent"
                      ELSE code \in FinalCallStatus /\ calls[c].status = code

\* The kinds of step write the session's own audit events at most, and an
\* approval never disappears.
LEMMA StepsOfOthers ==
  ASSUME IInv, NEW r \in Requests, Serve(r)
  PROVE  /\ \A s \in Requests \ {r} :
              pc'[s] = pc[s] /\ reply'[s] = reply[s] /\ audit'[s] = audit[s]
         /\ \A c \in CallReqs : approvals[c] # "absent" => approvals'[c] # "absent"
<1>0. /\ pc \in [Requests -> PcValue] /\ reply \in [Requests -> Reply]
      /\ audit \in [Requests -> SUBSET AuditStatus]
      /\ approvals \in [CallReqs -> ApprovalStatus \cup {"absent"}]
  BY DEF IInv, TypeOK, DbTypeOK, ServiceTypeOK
<1>1. ASSUME UNCHANGED <<approvals, audit>>, NEW where, Goto(r, where),
             UNCHANGED reply \/ \E answer : reply' = [reply EXCEPT ![r] = answer]
      PROVE  /\ \A s \in Requests \ {r} :
                  pc'[s] = pc[s] /\ reply'[s] = reply[s] /\ audit'[s] = audit[s]
             /\ \A c \in CallReqs : approvals[c] # "absent" => approvals'[c] # "absent"
  BY <1>0, <1>1 DEF Goto
<1>2. CASE MovesOn(r) \/ LosesRun(r)
  BY <1>1, <1>2 DEF MovesOn, LosesRun, Raise, Answer
<1>3. CASE Replays(r) \/ CallsUpstream(r) \/ AnswersError(r)
  BY <1>1, <1>3 DEF Replays, CallsUpstream, AnswersError
<1>4. ASSUME NEW writes, NEW code, CommitAndAnswer(r, writes, code)
      PROVE  /\ \A s \in Requests \ {r} :
                  pc'[s] = pc[s] /\ reply'[s] = reply[s] /\ audit'[s] = audit[s]
             /\ \A c \in CallReqs : approvals[c] # "absent" => approvals'[c] # "absent"
  BY <1>0, <1>4 DEF CommitAndAnswer, Commit, Goto, Answer
<1>5. CASE RecordsCall(r) \/ ClosesApproval(r)
  BY <1>4, <1>5 DEF RecordsCall, ClosesApproval
<1> QED
  BY <1>2, <1>3, <1>5, HandlerKinds

\* A true answer stays true while rows are only added or closed.
LEMMA AnswerKept ==
  ASSUME IInv, UNCHANGED rigidVars, FinishedKept,
         \A c \in CallReqs : approvals[c] # "absent" => approvals'[c] # "absent",
         NEW s \in Requests, reply'[s] = reply[s], audit'[s] = audit[s],
         s \in ReviewReqs => reply[s].code \in ErrorCode \cup TerminalStatuses,
         AnswerIsTrue(s)
  PROVE  AnswerIsTrue(s)'
<1>1. CASE reply[s].code \in ErrorCode
  BY <1>1 DEF AnswerIsTrue
<1>2. CASE reply[s].code \notin ErrorCode /\ s \in ReviewReqs
  BY <1>2 DEF AnswerIsTrue, FinishedKept, Subject, rigidVars
<1>3. CASE reply[s].code \notin ErrorCode /\ s \notin ReviewReqs
  BY <1>3 DEF AnswerIsTrue, FinishedKept, SameKey, rigidVars
<1> QED
  BY <1>1, <1>2, <1>3

\* The status of an answer is not mistaken for an error.
LEMMA StatusIsNoError ==
  (FinalCallStatus \cup TerminalStatuses \cup {"pending_approval"}) \cap ErrorCode = {}
BY DEF FinalCallStatus, TerminalStatuses, ErrorCode

\* The answer a handler gives is true when it is given.
LEMMA HandlerAnswers ==
  ASSUME IInv, AnswersInv, NEW r \in Requests, Serve(r)
  PROVE  /\ pc'[r] = "unwinding" => reply'[r].code \in ErrorCode /\ reply'[r].call = NoCall
         /\ pc'[r] = "done" => /\ AnswerIsTrue(r)'
                               /\ r \in ReviewReqs =>
                                    reply'[r].code \in ErrorCode \cup TerminalStatuses
<1> DEFINE Goal == /\ pc'[r] = "unwinding" => reply'[r].code \in ErrorCode /\ reply'[r].call = NoCall
                   /\ pc'[r] = "done" => /\ AnswerIsTrue(r)'
                                         /\ r \in ReviewReqs =>
                                              reply'[r].code \in ErrorCode \cup TerminalStatuses
<1> SUFFICES Goal
  OBVIOUS
<1>0. /\ pc \in [Requests -> PcValue] /\ reply \in [Requests -> Reply]
      /\ audit \in [Requests -> SUBSET AuditStatus]
      /\ approvals \in [CallReqs -> ApprovalStatus \cup {"absent"}]
      /\ calls \in [CallReqs -> Row \cup {NoRow}]
      /\ req \in [CallReqs -> CallRequest]
      /\ Subject(r) \in CallReqs
  BY SubjectType DEF IInv, TypeOK, DbTypeOK, ServiceTypeOK
<1>1. UNCHANGED rigidVars
  BY HandlerKinds
<1>a. ASSUME WorkerOf[r] \in Unreliable, Goto(r, "done"), Answer(r, "internal_error", NoCall)
      PROVE  Goal
  <2>1. pc'[r] = "done" /\ reply'[r].code = "internal_error" /\ reply'[r].call = NoCall
    BY <1>0, <1>a DEF Goto, Answer
  <2>2. "internal_error" \in ErrorCode
    BY DEF ErrorCode
  <2> QED
    BY <1>a, <2>1, <2>2 DEF AnswerIsTrue
<1>b. ASSUME NEW writes, NEW code, CommitAndAnswer(r, writes, code)
      PROVE  \/ Goal
             \/ Commit(r, writes) /\ Goto(r, "done") /\ Answer(r, code, Subject(r))
  BY <1>a, <1>b DEF CommitAndAnswer
<1>2. CASE MovesOn(r) \/ LosesRun(r)
  <2>1. ASSUME NEW code \in ErrorCode, Raise(r, code) PROVE Goal
    BY <1>0, <2>1 DEF Raise, Goto, Answer
  <2>2. ASSUME NEW where \in PcValue \ {"awaiting", "unwinding", "done"}, Goto(r, where) PROVE Goal
    BY <1>0, <2>2 DEF Goto
  <2> QED
    BY <1>2, <2>1, <2>2 DEF MovesOn, LosesRun, ErrorCode
<1>3. CASE CallsUpstream(r)
  BY <1>0, <1>3 DEF CallsUpstream, Goto
<1>4. CASE AnswersError(r)
  <2>1. /\ reply[r].code \in ErrorCode /\ reply[r].call = NoCall
        /\ pc[r] # "done"
    BY <1>4 DEF AnswersError, AnswersInv, AnswersFitTheirRequest
  <2>2. audit[r] = {}
    BY <2>1, UnfinishedUnaudited
  <2> QED
    BY <1>0, <1>4, <2>1, <2>2 DEF AnswersError, Goto, AnswerIsTrue
<1>5. CASE Replays(r)
  <2>1. PICK d \in FoundByKey(r) :
               /\ req[d].tool = req[r].tool /\ req[d].args = req[r].args
               /\ calls[d].status # "executing"
               /\ reply' = [reply EXCEPT ![r] = [code |-> calls[d].status, call |-> d]]
    BY <1>5 DEF Replays
  <2>2. d \in CallReqs /\ SameKey(r, d) /\ calls[d].status # "absent"
    BY DEF FoundByKey
  <2>3. r \in CallReqs /\ r \notin ReviewReqs /\ audit[r] = {} /\ UNCHANGED <<calls, approvals, audit>>
    BY <1>5, UnfinishedUnaudited, RequestsDisjoint DEF Replays
  <2>4. req[r] = req[d]
    BY <1>0, <2>1, <2>2, <2>3 DEF CallRequest, SameKey
  <2>5. \/ calls[d].status = "pending_approval" /\ approvals[d] # "absent"
        \/ calls[d].status \in FinalCallStatus /\ calls[d].status # "pending_approval"
    BY <2>1, <2>2 DEF IInv, ApprovalMatchesToolCall, CoherentStates, FinalCallStatus
  <2>6. calls[d].status \notin ErrorCode
    BY <2>5, StatusIsNoError
  <2>7. /\ pc'[r] = "done"
        /\ reply'[r].code = calls[d].status /\ reply'[r].call = d
    BY <1>0, <1>5, <2>1 DEF Replays, Goto
  <2>8. SameKey(r, d)' /\ req'[r] = req'[d]
    BY <1>1, <2>2, <2>4 DEF SameKey, rigidVars
  <2> QED
    BY <2>2, <2>3, <2>5, <2>6, <2>7, <2>8 DEF AnswerIsTrue
<1>6. CASE RecordsCall(r)
  <2>1. r \in CallReqs /\ r \notin ReviewReqs /\ Subject(r) = r
    BY <1>6, RequestsDisjoint DEF RecordsCall, Subject
  <2>2. \/ CommitAndAnswer(r, Writes("pending_approval", TRUE, "pending", {"pending_approval"}),
                           "pending_approval")
        \/ \E code \in FinalCallStatus :
             CommitAndAnswer(r, Writes(code, FALSE, "absent", {code}), code)
    BY <1>6 DEF RecordsCall, FinalCallStatus
  <2>3. CASE CommitAndAnswer(r, Writes("pending_approval", TRUE, "pending", {"pending_approval"}),
                             "pending_approval")
    <3> DEFINE writes == Writes("pending_approval", TRUE, "pending", {"pending_approval"})
    <3>1. CASE /\ Commit(r, writes) /\ Goto(r, "done")
               /\ Answer(r, "pending_approval", Subject(r))
      <4>1. /\ pc'[r] = "done" /\ reply'[r].code = "pending_approval" /\ reply'[r].call = r
            /\ approvals'[r] = "pending"
        BY <1>0, <2>1, <3>1 DEF Commit, Goto, Answer, Writes
      <4> QED
        BY <2>1, <4>1, StatusIsNoError DEF AnswerIsTrue
    <3> HIDE DEF Goal
    <3> QED
      BY <1>b, <2>3, <3>1
  <2>4. ASSUME NEW code \in FinalCallStatus,
               CommitAndAnswer(r, Writes(code, FALSE, "absent", {code}), code)
        PROVE  Goal
    <3> DEFINE writes == Writes(code, FALSE, "absent", {code})
    <3>1. CASE Commit(r, writes) /\ Goto(r, "done") /\ Answer(r, code, Subject(r))
      <4>1. /\ pc'[r] = "done" /\ reply'[r].code = code /\ reply'[r].call = r
            /\ calls'[r].status = code
        BY <1>0, <2>1, <3>1 DEF Commit, Goto, Answer, Writes, NoRow, FinalCallStatus
      <4>2. code # "pending_approval"
        BY DEF FinalCallStatus
      <4> QED
        BY <2>1, <4>1, <4>2, StatusIsNoError DEF AnswerIsTrue
    <3> HIDE DEF Goal
    <3> QED
      BY <1>b, <2>4, <3>1
  <2> QED
    BY <2>2, <2>3, <2>4
<1>7. CASE ClosesApproval(r)
  <2>1. r \in ReviewReqs
    BY <1>7 DEF ClosesApproval
  <2>2. Subject(r)' = Subject(r)
    BY <1>1 DEF Subject, rigidVars
  <2>3. ASSUME NEW code \in TerminalStatuses, NEW writes, writes.approval = code,
               CommitAndAnswer(r, writes, code)
        PROVE  Goal
    <3>1. CASE Commit(r, writes) /\ Goto(r, "done") /\ Answer(r, code, Subject(r))
      <4>1. /\ pc'[r] = "done" /\ reply'[r].code = code /\ reply'[r].call = Subject(r)
            /\ approvals'[Subject(r)] = code
        BY <1>0, <2>3, <3>1 DEF Commit, Goto, Answer, TerminalStatuses
      <4> QED
        BY <1>0, <2>1, <2>2, <4>1, StatusIsNoError DEF AnswerIsTrue
    <3> HIDE DEF Goal
    <3> QED
      BY <1>b, <2>3, <3>1
  <2> HIDE DEF Goal
  <2>4. CASE CommitAndAnswer(r, ExecutionFailed, "failed")
    BY <2>3, <2>4 DEF ExecutionFailed, Writes, TerminalStatuses
  <2>5. CASE CommitAndAnswer(r, Writes("denied", FALSE, "expired", {"expired"}), "expired")
    BY <2>3, <2>5 DEF Writes, TerminalStatuses
  <2>6. CASE CommitAndAnswer(r, Writes("denied", FALSE, "denied", {"denied"}), "denied")
    BY <2>3, <2>6 DEF Writes, TerminalStatuses
  <2>7. CASE CommitAndAnswer(r, Writes("succeeded", FALSE, "executed", {"approved", "executed"}),
                             "executed")
    BY <2>3, <2>7 DEF Writes, TerminalStatuses
  <2> QED
    BY <1>7, <2>4, <2>5, <2>6, <2>7 DEF ClosesApproval
<1> QED
  BY <1>2, <1>3, <1>4, <1>5, <1>6, <1>7, HandlerKinds

LEMMA AnswersStep == IInv /\ AnswersInv /\ [Next]_vars => AnswersInv'
<1> SUFFICES ASSUME IInv, AnswersInv, [Next]_vars PROVE AnswersInv'
  OBVIOUS
<1> DEFINE Fits(r) ==
      /\ pc[r] = "unwinding" => reply[r].code \in ErrorCode /\ reply[r].call = NoCall
      /\ pc[r] = "done" => /\ AnswerIsTrue(r)
                           /\ r \in ReviewReqs => reply[r].code \in ErrorCode \cup TerminalStatuses
<1>0. ReviewReqs \subseteq Requests
  BY DEF Requests
<1>1. \A r \in Requests : Fits(r)
  BY DEF AnswersInv, AnswersFitTheirRequest, AnswersStayTrue, AnswerIsTrue
<1>2. SUFFICES ASSUME NEW r \in Requests PROVE Fits(r)'
  BY <1>0 DEF AnswersInv, AnswersFitTheirRequest, AnswersStayTrue, AnswerIsTrue
<1>3. FinishedKept
  BY FinishedStep
<1>4. ASSUME UNCHANGED rigidVars, pc'[r] = pc[r], reply'[r] = reply[r], audit'[r] = audit[r],
             \A c \in CallReqs : approvals[c] # "absent" => approvals'[c] # "absent"
      PROVE  Fits(r)'
  BY <1>1, <1>3, <1>4, AnswerKept
<1>5. ASSUME UNCHANGED <<rigidVars, approvals, audit, pc, reply>> PROVE Fits(r)'
  BY <1>4, <1>5
<1>6. ASSUME pc'[r] \notin {"unwinding", "done"} PROVE Fits(r)'
  BY <1>6
<1>7. pc \in [Requests -> PcValue] /\ reply \in [Requests -> Reply]
  BY DEF IInv, TypeOK, ServiceTypeOK
<1>8. CASE UNCHANGED vars
  BY <1>5, <1>8 DEF vars, rigidVars, dbVars, serviceVars
<1>9. ASSUME NEW s \in Requests, Submit(s) PROVE Fits(r)'
  <2>1. CASE s = r
    <3>1. pc'[r] \in {"received", "queued"}
      BY <1>7, <1>9, <2>1 DEF Submit, Goto
    <3> QED
      BY <1>6, <3>1
  <2>2. CASE s # r
    BY <1>4, <1>7, <1>9, <2>2 DEF Submit, Goto, dbVars
  <2> QED
    BY <2>1, <2>2
<1>10. ASSUME NEW s \in Requests, Serve(s) PROVE Fits(r)'
  <2>1. CASE s = r
    BY <1>10, <2>1, HandlerAnswers
  <2>2. CASE s # r
    BY <1>4, <1>10, <2>2, HandlerKinds, StepsOfOthers
  <2> QED
    BY <2>1, <2>2
<1>11. ASSUME NEW t \in Tools, RefreshTools(t) \/ UpdateToolDefinition(t) PROVE Fits(r)'
  BY <1>5, <1>11 DEF RefreshTools, UpdateToolDefinition, dbVars
<1>12. ASSUME NEW c \in CallReqs, TimePasses(c) PROVE Fits(r)'
  BY <1>5, <1>12 DEF TimePasses, dbVars, serviceVars
<1>13. ASSUME NEW w \in Workers, Crash(w) PROVE Fits(r)'
  <2>1. \/ pc'[r] = "crashed"
        \/ pc'[r] = pc[r] /\ reply'[r] = reply[r]
    BY <1>13 DEF Crash
  <2>2. UNCHANGED <<rigidVars, approvals, audit>>
    BY <1>13 DEF Crash, Rollback
  <2> QED
    BY <1>4, <1>6, <2>1, <2>2
<1>14. CASE Quiescent
  BY <1>8, <1>14 DEF Quiescent
<1>15. ASSUME NEW s \in Requests, DatabaseFails(s) PROVE Fits(r)'
  <2>1. /\ Goto(s, "unwinding") /\ Answer(s, "internal_error", NoCall)
        /\ UNCHANGED <<rigidVars, approvals, audit>>
    BY <1>15, DatabaseFailsRaises DEF Raise, dbVars
  <2>2. CASE s = r
    BY <1>7, <2>1, <2>2 DEF Goto, Answer, ErrorCode
  <2>3. CASE s # r
    BY <1>4, <1>7, <2>1, <2>3 DEF Goto, Answer
  <2> QED
    BY <2>2, <2>3
<1> QED
  BY <1>8, <1>9, <1>10, <1>11, <1>12, <1>13, <1>14, <1>15 DEF Next

\* What a client or an administrator has been told stays true: a final status is
\* what the database holds from then on, a replay answers about a row of the same
\* request, and after an error answer nothing of the request is in the database,
\* but for an internal error of a worker that may lose its database at the COMMIT.
THEOREM AnswersAreKept == Spec => []AnswersStayTrue
<1>1. Init => AnswersInv
  BY DEF Init, ServiceInit, Requests, AnswersInv, AnswersFitTheirRequest, AnswersStayTrue
<1>2. AnswersInv => AnswersStayTrue
  BY DEF AnswersInv
<1> QED
  BY <1>1, <1>2, AnswersStep, Invariant, PTL DEF Spec

-----------------------------------------------------------------------------
LEMMA RecordsStep == IInv /\ RecordsInv /\ [Next]_vars => RecordsInv'
<1> SUFFICES ASSUME IInv, RecordsInv, [Next]_vars PROVE RecordsInv'
  OBVIOUS
<1>0. /\ pc \in [Requests -> PcValue] /\ audit \in [Requests -> SUBSET AuditStatus]
      /\ CallReqs \subseteq Requests /\ ReviewReqs \subseteq Requests
  BY DEF IInv, TypeOK, DbTypeOK, ServiceTypeOK, Requests
<1>1. ASSUME UNCHANGED audit, dispatched \subseteq dispatched',
             \A r \in Requests : pc'[r] = "awaiting" => pc[r] = "awaiting" \/ r \in dispatched'
      PROVE  RecordsInv'
  BY <1>1 DEF RecordsInv, RunsAreDispatched, ReviewAudits
<1>2. ASSUME UNCHANGED <<audit, dispatched, pc>> PROVE RecordsInv'
  BY <1>1, <1>2
<1>3. ASSUME UNCHANGED <<audit, dispatched>>, NEW r \in Requests, NEW where,
             where # "awaiting", Goto(r, where)
      PROVE  RecordsInv'
  BY <1>0, <1>1, <1>3 DEF Goto
<1>4. ASSUME UNCHANGED dispatched, NEW r \in Requests, NEW writes, NEW code,
             CommitAndAnswer(r, writes, code),
             writes.audit \cap {"succeeded", "executed"} # {} => pc[r] = "awaiting",
             r \in ReviewReqs => writes.audit \in {{"denied"}, {"expired"}, {"approved", "failed"},
                                                   {"approved", "executed"}}
      PROVE  RecordsInv'
  <2>1. /\ pc' = [pc EXCEPT ![r] = "done"]
        /\ audit' = [audit EXCEPT ![r] = writes.audit]
    BY <1>4 DEF CommitAndAnswer, Commit, Goto
  <2>2. RunsAreDispatched'
    BY <1>0, <1>4, <2>1 DEF RecordsInv, RunsAreDispatched
  <2>3. ReviewAudits'
    BY <1>0, <1>4, <2>1 DEF RecordsInv, ReviewAudits
  <2> QED
    BY <2>2, <2>3 DEF RecordsInv
<1> HIDE DEF RecordsInv
<1>5. CASE UNCHANGED vars
  BY <1>2, <1>5 DEF vars, dbVars, serviceVars
<1>6. ASSUME NEW r \in Requests, Submit(r) PROVE RecordsInv'
  BY <1>3, <1>6 DEF Submit, dbVars
<1>7. ASSUME NEW r \in Requests, Serve(r) PROVE RecordsInv'
  <2>1. CASE MovesOn(r) \/ LosesRun(r)
    BY <1>3, <2>1 DEF MovesOn, LosesRun, Raise
  <2>2. CASE Replays(r) \/ AnswersError(r)
    BY <1>3, <2>2 DEF Replays, AnswersError
  <2>3. CASE CallsUpstream(r)
    BY <1>0, <1>1, <2>3 DEF CallsUpstream, Goto
  <2>4. CASE RecordsCall(r)
    <3>1. r \notin ReviewReqs
      BY <2>4, RequestsDisjoint DEF RecordsCall
    <3>2. ASSUME NEW status, NEW payload, NEW approval,
                 CommitAndAnswer(r, Writes(status, payload, approval, {status}), status),
                 status \in {"succeeded", "executed"} => pc[r] = "awaiting"
          PROVE  RecordsInv'
      <4>1. Writes(status, payload, approval, {status}).audit = {status}
        BY DEF Writes
      <4> QED
        BY <1>4, <2>4, <3>1, <3>2, <4>1 DEF RecordsCall
    <3> QED
      BY <2>4, <3>2 DEF RecordsCall
  <2>5. CASE ClosesApproval(r)
    <3>1. CASE CommitAndAnswer(r, ExecutionFailed, "failed")
      BY <1>4, <2>5, <3>1 DEF ClosesApproval, ExecutionFailed, Writes
    <3>2. CASE CommitAndAnswer(r, Writes("denied", FALSE, "expired", {"expired"}), "expired")
      BY <1>4, <2>5, <3>2 DEF ClosesApproval, Writes
    <3>3. CASE CommitAndAnswer(r, Writes("denied", FALSE, "denied", {"denied"}), "denied")
      BY <1>4, <2>5, <3>3 DEF ClosesApproval, Writes
    <3>4. CASE /\ pc[r] = "awaiting"
               /\ CommitAndAnswer(r, Writes("succeeded", FALSE, "executed",
                                            {"approved", "executed"}), "executed")
      BY <1>4, <2>5, <3>4 DEF ClosesApproval, Writes
    <3> QED
      BY <2>5, <3>1, <3>2, <3>3, <3>4 DEF ClosesApproval
  <2> QED
    BY <1>7, <2>1, <2>2, <2>3, <2>4, <2>5, HandlerKinds
<1>8. ASSUME NEW t \in Tools, RefreshTools(t) \/ UpdateToolDefinition(t) PROVE RecordsInv'
  BY <1>2, <1>8 DEF RefreshTools, UpdateToolDefinition, dbVars
<1>9. ASSUME NEW c \in CallReqs, TimePasses(c) PROVE RecordsInv'
  BY <1>2, <1>9 DEF TimePasses, dbVars, serviceVars
<1>10. ASSUME NEW w \in Workers, Crash(w) PROVE RecordsInv'
  BY <1>1, <1>10 DEF Crash, Rollback
<1>11. CASE Quiescent
  BY <1>5, <1>11 DEF Quiescent
<1>12. ASSUME NEW r \in Requests, DatabaseFails(r) PROVE RecordsInv'
  <2>1. UNCHANGED <<audit, dispatched>> /\ Goto(r, "unwinding")
    BY <1>12, DatabaseFailsRaises DEF Raise, dbVars
  <2> QED
    BY <1>3, <2>1
<1> QED
  BY <1>5, <1>6, <1>7, <1>8, <1>9, <1>10, <1>11, <1>12 DEF Next

\* What the database says ran is what ran: a succeeded call was run by exactly
\* the request on record, and nobody ran a denied or pending one, but for the
\* review that is executing it now.
THEOREM RecordsAreHonest == Spec => []OutcomeIsHonest
<1>1. IInv /\ RecordsInv => OutcomeIsHonest
  <2> SUFFICES ASSUME IInv, RecordsInv, NEW c \in CallReqs
               PROVE  LET runs == {r \in Effective : SameOperation(Subject(r), c)}
                      IN  /\ calls[c].status = "succeeded" =>
                               \E r \in runs : /\ Subject(r) = c
                                               /\ audit[r] \cap {"succeeded", "executed"} # {}
                          /\ calls[c].status \in {"denied", "pending_approval"} =>
                               \A r \in runs : pc[r] = "awaiting" /\ r \in ReviewReqs
    BY DEF OutcomeIsHonest
  <2>0. /\ CallReqs \subseteq Requests /\ ReviewReqs \subseteq Requests
        /\ <<calls[c].status, approvals[c]>> \in CoherentStates
    BY DEF Requests, IInv, ApprovalMatchesToolCall
  <2>1. ASSUME calls[c].status = "succeeded"
        PROVE  \E r \in Effective : /\ Subject(r) = c
                                    /\ audit[r] \cap {"succeeded", "executed"} # {}
    <3>1. ASSUME NEW r \in Requests, audit[r] \cap {"succeeded", "executed"} # {}
          PROVE  r \in Effective
      BY <3>1 DEF RecordsInv, RunsAreDispatched, Effective, Lost
    <3>2. CASE approvals[c] = "absent"
      <4>1. audit[c] = {"succeeded"}
        BY <2>1, <3>2 DEF IInv, AuditOfCalls
      <4>2. Subject(c) = c
        BY DEF Subject
      <4> QED
        BY <2>0, <3>1, <4>1, <4>2
    <3>3. CASE approvals[c] = "executed"
      <4>1. PICK r \in ReviewReqs : Subject(r) = c /\ audit[r] # {}
        BY <3>3 DEF IInv, AuditOfReviews, TerminalStatuses
      <4>2. "executed" \in audit[r]
        BY <3>3, <4>1 DEF IInv, AuditOfReviews
      <4> QED
        BY <2>0, <3>1, <4>1, <4>2
    <3> QED
      BY <2>0, <2>1, <3>2, <3>3 DEF CoherentStates
  <2>2. ASSUME calls[c].status \in {"denied", "pending_approval"},
               NEW r \in Effective, SameOperation(Subject(r), c)
        PROVE  pc[r] = "awaiting" /\ r \in ReviewReqs
    <3>0. r \in Requests /\ r \in dispatched /\ (pc[r] = "awaiting" \/ audit[r] # {})
      BY EffectiveRequest DEF Effective, Lost
    <3>1. Subject(r) = c
      <4>1. ASSUME Subject(r) # c PROVE FALSE
        <5>1. SameKey(Subject(r), c) /\ Subject(r) \in CallReqs
          BY <2>2, <4>1, EffectiveRequest DEF SameOperation
        <5>2. calls[Subject(r)].status = "absent"
          BY <2>2, <4>1, <5>1 DEF IInv, KeysUnique
        <5>3. Subject(r) = r /\ txn[r].row # NoRow
          BY <5>2, EffectiveRequest
        <5> QED
          BY <2>2, <3>0, <4>1, <5>1, <5>3 DEF IInv, RowWritesExclusive
      <4> QED
        BY <4>1
    <3>2. CASE r \in CallReqs
      <4>1. r = c /\ approvals[c] = "absent"
        BY <2>2, <3>1, <3>2, EffectiveRequest, RequestsDisjoint
      <4>2. audit[r] = {"denied"}
        BY <2>0, <2>2, <4>1 DEF CoherentStates, IInv, AuditOfCalls
      <4> QED
        BY <3>0, <4>2 DEF IInv, DispatchedOutcome
    <3>3. CASE r \notin CallReqs /\ audit[r] # {}
      <4>1. r \in ReviewReqs
        BY <3>0, <3>3 DEF Requests
      <4>2. approvals[c] \in TerminalStatuses \cap audit[r]
        BY <3>1, <3>3, <4>1 DEF IInv, AuditOfReviews
      <4>3. approvals[c] \in {"denied", "expired"}
        BY <2>0, <2>2, <4>2 DEF CoherentStates, TerminalStatuses
      <4>4. audit[r] \in {{"denied"}, {"expired"}}
        BY <4>1, <4>2, <4>3 DEF RecordsInv, ReviewAudits
      <4> QED
        BY <3>0, <3>3, <4>4 DEF IInv, DispatchedOutcome
    <3> QED
      BY <3>0, <3>2, <3>3 DEF Requests
  <2> QED
    BY <2>1, <2>2 DEF SameOperation
<1>2. Init => RecordsInv
  BY DEF Init, DbInit, ServiceInit, Requests, RecordsInv, RunsAreDispatched, ReviewAudits
<1> QED
  BY <1>1, <1>2, RecordsStep, Invariant, PTL DEF Spec
=============================================================================
