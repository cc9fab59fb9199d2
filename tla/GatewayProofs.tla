---------------------------- MODULE GatewayProofs ----------------------------
(***************************************************************************)
(* Theorems about Gateway for every set of requests, agents, keys, tools   *)
(* and workers, with crashes of any workers.                               *)
(***************************************************************************)
EXTENDS Gateway, TLAPS

\* The rows a request writes are those of a call.
LEMMA SubjectType ==
  ASSUME DbTypeOK, NEW r \in Requests
  PROVE  Subject(r) \in CallReqs
BY DEF DbTypeOK, Requests, Subject, ReviewRequest

\* What the handlers write has the type of a session's writes.
LEMMA WritesType ==
  ASSUME NEW status \in ToolCallStatus, NEW payload \in BOOLEAN,
         NEW approval \in ApprovalStatus \cup {"absent"}, NEW events \in SUBSET AuditStatus
  PROVE  Writes(status, payload, approval, events) \in Txn
BY DEF Writes, Txn, Row

\* Each way to end or continue a transaction keeps the tables well typed.
LEMMA CommitType ==
  ASSUME DbTypeOK, UNCHANGED rigidVars,
         NEW r \in Requests, NEW writes \in Txn, Commit(r, writes)
  PROVE  DbTypeOK'
<1>1. Subject(r) \in CallReqs
  BY SubjectType
<1>2. /\ writes.row \in Row \cup {NoRow}
      /\ writes.approval \in ApprovalStatus \cup {"absent"}
      /\ writes.audit \in SUBSET AuditStatus
  BY DEF Txn
<1>3. EmptyTxn \in Txn
  BY DEF EmptyTxn, Txn
<1>4. calls' \in [CallReqs -> Row \cup {NoRow}]
  BY <1>1, <1>2 DEF Commit, DbTypeOK
<1>5. approvals' \in [CallReqs -> ApprovalStatus \cup {"absent"}]
  BY <1>1, <1>2 DEF Commit, DbTypeOK
<1>6. /\ audit' \in [Requests -> SUBSET AuditStatus]
      /\ txn' \in [Requests -> Txn]
  BY <1>2, <1>3 DEF Commit, DbTypeOK
<1> QED
  BY <1>4, <1>5, <1>6 DEF DbTypeOK, rigidVars

\* A flushed write.
LEMMA WriteType ==
  ASSUME DbTypeOK, UNCHANGED rigidVars,
         NEW r \in Requests, NEW writes \in Txn, Write(r, writes)
  PROVE  DbTypeOK'
BY DEF Write, DbTypeOK, rigidVars

\* A rollback.
LEMMA RollbackType ==
  ASSUME DbTypeOK, UNCHANGED rigidVars, NEW R, Rollback(R)
  PROVE  DbTypeOK'
<1>1. EmptyTxn \in Txn
  BY DEF EmptyTxn, Txn
<1> QED
  BY <1>1 DEF Rollback, DbTypeOK, rigidVars

\* A request moves on, and answers.
LEMMA GotoType ==
  ASSUME ServiceTypeOK, NEW r \in Requests, NEW where \in PcValue, Goto(r, where)
  PROVE  pc' \in [Requests -> PcValue]
BY DEF Goto, ServiceTypeOK

LEMMA AnswerType ==
  ASSUME ServiceTypeOK, NEW r \in Requests,
         NEW code \in ToolCallStatus \cup ApprovalStatus \cup ErrorCode,
         NEW call \in CallReqs \cup {NoCall}, Answer(r, code, call)
  PROVE  reply' \in [Requests -> Reply]
BY DEF Answer, ServiceTypeOK, Reply

\* It raises.
LEMMA RaiseType ==
  ASSUME ServiceTypeOK, NEW r \in Requests, NEW code \in ErrorCode, Raise(r, code)
  PROVE  pc' \in [Requests -> PcValue] /\ reply' \in [Requests -> Reply]
<1>1. Goto(r, "unwinding") /\ Answer(r, code, NoCall)
  BY DEF Raise
<1>2. "unwinding" \in PcValue
  BY DEF PcValue, InFlight
<1> QED
  BY <1>1, <1>2, GotoType, AnswerType

\* It commits and answers about the call whose rows it writes.
LEMMA CommitAndAnswerType ==
  ASSUME DbTypeOK, ServiceTypeOK, UNCHANGED rigidVars,
         NEW r \in Requests, NEW writes \in Txn,
         NEW code \in ToolCallStatus \cup ApprovalStatus, CommitAndAnswer(r, writes, code)
  PROVE  DbTypeOK' /\ pc' \in [Requests -> PcValue] /\ reply' \in [Requests -> Reply]
<1>1. /\ Commit(r, writes) /\ Goto(r, "done")
      /\ Answer(r, code, Subject(r)) \/ Answer(r, "internal_error", NoCall)
  BY DEF CommitAndAnswer
<1>2. "done" \in PcValue /\ "internal_error" \in ErrorCode
  BY DEF PcValue, ErrorCode
<1>3. Subject(r) \in CallReqs
  BY SubjectType
<1>4. DbTypeOK' /\ pc' \in [Requests -> PcValue]
  BY <1>1, <1>2, CommitType, GotoType
<1>5. reply' \in [Requests -> Reply]
  BY <1>1, <1>2, <1>3, AnswerType
<1> QED
  BY <1>4, <1>5

\* The database fails a handler: an exception, from a place before the upstream
\* call, that touches nothing else.
LEMMA DatabaseFailsRaises ==
  ASSUME NEW r \in Requests, DatabaseFails(r)
  PROVE  /\ pc[r] \in HoldsLoop \cup {"queued", "received"}
         /\ Raise(r, "internal_error")
         /\ UNCHANGED <<rigidVars, dbVars, registry, dispatched, expired>>
BY DEF DatabaseFails, Resumes

-----------------------------------------------------------------------------
\* Every step of the gateway keeps TypeOK.
LEMMA TypeStep == TypeOK /\ [Next]_vars => TypeOK'
<1> SUFFICES ASSUME TypeOK, [Next]_vars PROVE TypeOK'
  OBVIOUS
<1>0. DbTypeOK /\ ServiceTypeOK /\ expired \subseteq CallReqs
  BY DEF TypeOK
<1>1. CASE UNCHANGED vars
  BY <1>0, <1>1 DEF vars, dbVars, serviceVars, TypeOK, DbTypeOK, ServiceTypeOK
<1>2. ASSUME NEW r \in Requests, Submit(r) PROVE TypeOK'
  <2>1. (IF r \in CallReqs THEN "received" ELSE "queued") \in PcValue
    BY DEF PcValue, InFlight
  <2>2. pc' \in [Requests -> PcValue]
    BY <1>0, <1>2, <2>1, GotoType DEF Submit
  <2> QED
    BY <1>0, <1>2, <2>2 DEF Submit, rigidVars, dbVars, TypeOK, DbTypeOK, ServiceTypeOK
<1>3. ASSUME NEW t \in Tools, UpdateToolDefinition(t) PROVE TypeOK'
  <2>1. PICK status \in EntityStatus, risk \in AssignedRisks \cup {registry[t].risk} :
          registry' = [registry EXCEPT ![t] = [status |-> status, risk |-> risk]]
    BY <1>3 DEF UpdateToolDefinition
  <2>2. registry' \in [Tools -> ToolRow]
    <3>1. registry[t].risk \in RiskLevel
      BY <1>0 DEF ServiceTypeOK, ToolRow
    <3> QED
      BY <1>0, <2>1, <3>1, AssignedRisksType DEF ServiceTypeOK, ToolRow
  <2> QED
    BY <1>0, <1>3, <2>2 DEF UpdateToolDefinition, rigidVars, dbVars, TypeOK, DbTypeOK, ServiceTypeOK
<1>8. ASSUME NEW t \in Tools, RefreshTools(t) PROVE TypeOK'
  <2>1. [status |-> "disabled", risk |-> "critical"] \in ToolRow
    BY DEF ToolRow, EntityStatus, RiskLevel
  <2>2. registry' \in [Tools -> ToolRow]
    BY <1>0, <1>8, <2>1 DEF RefreshTools, ServiceTypeOK
  <2> QED
    BY <1>0, <1>8, <2>2 DEF RefreshTools, rigidVars, dbVars, TypeOK, DbTypeOK, ServiceTypeOK
<1>4. ASSUME NEW c \in CallReqs, TimePasses(c) PROVE TypeOK'
  BY <1>0, <1>4 DEF TimePasses, rigidVars, dbVars, serviceVars, TypeOK, DbTypeOK, ServiceTypeOK
<1>5. ASSUME NEW w \in Workers, Crash(w) PROVE TypeOK'
  <2> DEFINE victims == {r \in Requests : WorkerOf[r] = w /\ pc[r] \in InFlight}
  <2>1. Rollback(victims) /\ UNCHANGED rigidVars
    BY <1>5 DEF Crash
  <2>2. DbTypeOK'
    BY <1>0, <2>1, RollbackType
  <2>3. "crashed" \in PcValue /\ NoReply \in Reply
    BY DEF PcValue, NoReply, Reply
  <2>4. /\ pc' \in [Requests -> PcValue]
        /\ reply' \in [Requests -> Reply]
    BY <1>0, <1>5, <2>3 DEF Crash, ServiceTypeOK
  <2> QED
    BY <1>0, <1>5, <2>2, <2>4 DEF Crash, TypeOK, ServiceTypeOK
<1>6. ASSUME NEW r \in Requests, Serve(r) PROVE TypeOK'
  <2>0. UNCHANGED rigidVars /\ expired' = expired
    BY <1>6 DEF Serve, Authenticate, CallTool, ReviewApproval, LoadApproval, LoseTransition,
                ExpireApproval, DenyApproval, ApproveAndExecute, ApproveAndFail
  <2>a. SUFFICES DbTypeOK' /\ ServiceTypeOK'
    BY <1>0, <2>0 DEF TypeOK
  <2>b. ASSUME UNCHANGED dbVars PROVE DbTypeOK'
    BY <1>0, <2>0, <2>b DEF dbVars, rigidVars, DbTypeOK
  <2>c. ASSUME NEW code \in ErrorCode, Raise(r, code), UNCHANGED <<dbVars, registry, dispatched>>
        PROVE  DbTypeOK' /\ ServiceTypeOK'
    BY <1>0, <2>b, <2>c, RaiseType DEF ServiceTypeOK
  <2>d. ASSUME NEW writes \in Txn, NEW code \in ToolCallStatus \cup ApprovalStatus,
               CommitAndAnswer(r, writes, code), UNCHANGED <<registry, dispatched>>
        PROVE  DbTypeOK' /\ ServiceTypeOK'
    BY <1>0, <2>0, <2>d, CommitAndAnswerType DEF ServiceTypeOK
  <2>e. ASSUME NEW writes \in Txn, Write(r, writes), Goto(r, "awaiting"),
               dispatched' = dispatched \cup {r}, UNCHANGED <<reply, registry>>
        PROVE  DbTypeOK' /\ ServiceTypeOK'
    <3>1. DbTypeOK'
      BY <1>0, <2>0, <2>e, WriteType
    <3>2. "awaiting" \in PcValue
      BY DEF PcValue, InFlight
    <3>3. pc' \in [Requests -> PcValue]
      BY <1>0, <2>e, <3>2, GotoType
    <3> QED
      BY <1>0, <2>e, <3>1, <3>3 DEF ServiceTypeOK
  <2>f. ExecutionFailed \in Txn
    BY WritesType DEF ExecutionFailed, ToolCallStatus, ApprovalStatus, AuditStatus
  <2>1. CASE Authenticate(r)
    <3>1. CASE Goto(r, "queued") /\ UNCHANGED reply
      <4>1. "queued" \in PcValue
        BY DEF PcValue, InFlight
      <4>2. pc' \in [Requests -> PcValue]
        BY <1>0, <3>1, <4>1, GotoType
      <4> QED
        BY <1>0, <2>1, <2>b, <3>1, <4>2 DEF Authenticate, ServiceTypeOK
    <3>2. CASE Raise(r, "agent_disabled")
      BY <2>1, <2>c, <3>2 DEF Authenticate, ErrorCode
    <3> QED
      BY <2>1, <3>1, <3>2 DEF Authenticate
  <2>2. CASE LookupIdempotencyKey(r)
    <3>1. CASE Goto(r, "lookup_tool") /\ UNCHANGED reply
      <4>1. "lookup_tool" \in PcValue
        BY DEF PcValue, InFlight, HoldsLoop
      <4>2. pc' \in [Requests -> PcValue]
        BY <1>0, <3>1, <4>1, GotoType
      <4> QED
        BY <1>0, <2>2, <2>b, <3>1, <4>2 DEF LookupIdempotencyKey, ServiceTypeOK
    <3>2. CASE Raise(r, "idempotency_conflict")
      BY <2>2, <2>c, <3>2 DEF LookupIdempotencyKey, ErrorCode
    <3>3. ASSUME NEW d \in FoundByKey(r), Goto(r, "done"),
                 reply' = [reply EXCEPT ![r] = [code |-> calls[d].status, call |-> d]]
          PROVE  DbTypeOK' /\ ServiceTypeOK'
      <4>1. "done" \in PcValue
        BY DEF PcValue
      <4>2. pc' \in [Requests -> PcValue]
        BY <1>0, <3>3, <4>1, GotoType
      <4>3. d \in CallReqs /\ calls[d].status \in ToolCallStatus
        BY <1>0 DEF FoundByKey, DbTypeOK, Row, NoRow
      <4>4. reply' \in [Requests -> Reply]
        BY <1>0, <3>3, <4>3 DEF ServiceTypeOK, Reply
      <4> QED
        BY <1>0, <2>2, <2>b, <4>2, <4>4 DEF LookupIdempotencyKey, ServiceTypeOK
    <3> QED
      BY <2>2, <3>1, <3>2, <3>3 DEF LookupIdempotencyKey
  <2>3. CASE LookupTool(r)
    <3>1. ASSUME NEW code \in ErrorCode, Write(r, [txn[r] EXCEPT !.audit = {"failed"}]),
                 Raise(r, code)
          PROVE  DbTypeOK' /\ ServiceTypeOK'
      <4>1. [txn[r] EXCEPT !.audit = {"failed"}] \in Txn
        BY <1>0 DEF DbTypeOK, Txn, AuditStatus
      <4>2. DbTypeOK'
        BY <1>0, <2>0, <3>1, <4>1, WriteType
      <4> QED
        BY <1>0, <2>3, <3>1, <4>2, RaiseType DEF LookupTool, ServiceTypeOK
    <3>2. ASSUME NEW decision \in PolicyEffect, Goto(r, decision), UNCHANGED <<dbVars, reply>>
          PROVE  DbTypeOK' /\ ServiceTypeOK'
      <4>1. decision \in PcValue
        BY DEF PcValue, InFlight, HoldsLoop
      <4>2. pc' \in [Requests -> PcValue]
        BY <1>0, <3>2, <4>1, GotoType
      <4> QED
        BY <1>0, <2>3, <2>b, <3>2, <4>2 DEF LookupTool, ServiceTypeOK
    <3>3. \A risk : Decisions(risk) \subseteq PolicyEffect
      BY DEF Decisions, PolicyEffect
    <3>4. CASE Raise(r, "internal_error") /\ UNCHANGED dbVars
      BY <2>3, <2>c, <3>4 DEF LookupTool, ErrorCode
    <3> QED
      BY <2>3, <3>1, <3>2, <3>3, <3>4 DEF LookupTool, ErrorCode
  <2>4. CASE CreateToolCallFails(r)
    BY <2>4, <2>c DEF CreateToolCallFails, ErrorCode
  <2>5. CASE DenyCall(r)
    BY <2>5, <2>d, WritesType DEF DenyCall, ToolCallStatus, ApprovalStatus, AuditStatus
  <2>6. CASE RequestApproval(r)
    BY <2>6, <2>d, WritesType DEF RequestApproval, ToolCallStatus, ApprovalStatus, AuditStatus
  <2>7. CASE FailWithoutClient(r)
    BY <2>7, <2>d, WritesType DEF FailWithoutClient, ToolCallStatus, ApprovalStatus, AuditStatus
  <2>8. CASE CallUpstream(r)
    BY <2>8, <2>e, WritesType DEF CallUpstream, ToolCallStatus
  <2>9. CASE CompleteCall(r)
    <3>1. PICK outcome \in {"succeeded", "failed"} :
            CommitAndAnswer(r, Writes(outcome, FALSE, "absent", {outcome}), outcome)
      BY <2>9 DEF CompleteCall
    <3>2. Writes(outcome, FALSE, "absent", {outcome}) \in Txn /\ outcome \in ToolCallStatus
      BY WritesType DEF ToolCallStatus, AuditStatus
    <3> QED
      BY <2>9, <2>d, <3>1, <3>2 DEF CompleteCall
  <2>10. CASE UpstreamRaises(r)
    BY <2>10, <2>c DEF UpstreamRaises, ErrorCode
  <2>11. CASE Unwind(r)
    <3>1. DbTypeOK'
      BY <1>0, <2>0, <2>11, RollbackType DEF Unwind
    <3>2. "done" \in PcValue
      BY DEF PcValue
    <3>3. pc' \in [Requests -> PcValue]
      BY <1>0, <2>11, <3>2, GotoType DEF Unwind
    <3> QED
      BY <1>0, <2>11, <3>1, <3>3 DEF Unwind, ServiceTypeOK
  <2>12. CASE r \in ReviewReqs /\ LoadApproval(r)
    <3>1. \A status : NonPendingError(status) \in ErrorCode
      BY DEF NonPendingError, ErrorCode
    <3>2. ASSUME NEW where \in Reviewing, Goto(r, where), UNCHANGED reply
          PROVE  DbTypeOK' /\ ServiceTypeOK'
      <4>1. where \in PcValue
        BY DEF PcValue, InFlight, HoldsLoop
      <4>2. pc' \in [Requests -> PcValue]
        BY <1>0, <3>2, <4>1, GotoType
      <4> QED
        BY <1>0, <2>12, <2>b, <3>2, <4>2 DEF LoadApproval, ServiceTypeOK
    <3>4. review[r].verb \in {"approve", "deny"}
      BY <1>0, <2>12 DEF DbTypeOK, ReviewRequest
    <3> DEFINE status == approvals[Subject(r)]
    <3>5. \/ Raise(r, "approval_not_found")
          \/ Raise(r, NonPendingError(status))
          \/ UNCHANGED reply /\ \E where \in Reviewing : Goto(r, where)
      <4>1. CASE status = "pending" /\ Subject(r) \in expired
        BY <2>12, <4>1 DEF LoadApproval, Reviewing
      <4>2. CASE status = "pending" /\ Subject(r) \notin expired
        BY <2>12, <3>4, <4>2 DEF LoadApproval, Reviewing
      <4>3. CASE status # "pending"
        BY <2>12, <4>3 DEF LoadApproval
      <4> QED
        BY <4>1, <4>2, <4>3
    <3>6. UNCHANGED <<dbVars, registry, dispatched>>
      BY <2>12 DEF LoadApproval
    <3>7. "approval_not_found" \in ErrorCode
      BY DEF ErrorCode
    <3> QED
      BY <2>c, <3>1, <3>2, <3>5, <3>6, <3>7
  <2>13. CASE LoseTransition(r)
    BY <2>13, <2>c DEF LoseTransition, ErrorCode
  <2>14. CASE ExpireApproval(r)
    BY <2>14, <2>d, WritesType DEF ExpireApproval, ToolCallStatus, ApprovalStatus, AuditStatus
  <2>15. CASE DenyApproval(r)
    BY <2>15, <2>d, WritesType DEF DenyApproval, ToolCallStatus, ApprovalStatus, AuditStatus
  <2>16. CASE ApproveAndExecute(r)
    <3>1. [row |-> NoRow, approval |-> "approved", audit |-> {"approved"}] \in Txn
      BY DEF Txn, ApprovalStatus, AuditStatus
    <3> QED
      BY <2>16, <2>e, <3>1 DEF ApproveAndExecute
  <2>17. CASE ApproveAndFail(r)
    BY <2>17, <2>d, <2>f DEF ApproveAndFail, ApprovalStatus
  <2>18. CASE CompleteExecution(r)
    <3>1. Writes("succeeded", FALSE, "executed", {"approved", "executed"}) \in Txn
      BY WritesType DEF ToolCallStatus, ApprovalStatus, AuditStatus
    <3> QED
      BY <2>18, <2>d, <2>f, <3>1 DEF CompleteExecution, ApprovalStatus
  <2> QED
    BY <1>6, <2>1, <2>2, <2>3, <2>4, <2>5, <2>6, <2>7, <2>8, <2>9, <2>10, <2>11, <2>12,
       <2>13, <2>14, <2>15, <2>16, <2>17, <2>18 DEF Serve, CallTool, ReviewApproval
<1>7. CASE Quiescent
  BY <1>1, <1>7 DEF Quiescent
<1>9. ASSUME NEW r \in Requests, DatabaseFails(r) PROVE TypeOK'
  <2>1. Raise(r, "internal_error") /\ UNCHANGED <<rigidVars, dbVars, registry, dispatched, expired>>
    BY <1>9, DatabaseFailsRaises
  <2>2. pc' \in [Requests -> PcValue] /\ reply' \in [Requests -> Reply]
    BY <1>0, <2>1, RaiseType DEF ErrorCode
  <2> QED
    BY <1>0, <2>1, <2>2 DEF rigidVars, dbVars, TypeOK, DbTypeOK, ServiceTypeOK
<1> QED
  BY <1>1, <1>2, <1>3, <1>4, <1>5, <1>6, <1>7, <1>8, <1>9 DEF Next

\* Every variable keeps its type in every run (the tables hold statuses of their
\* own enumeration only, a handler is at one of its points).
THEOREM TypeCorrect == Spec => []TypeOK
<1>1. Init => TypeOK
  BY DEF Init, DbInit, ServiceInit, TypeOK, DbTypeOK, ServiceTypeOK, EmptyTxn, Txn,
         NoReply, Reply, PcValue
<1> QED
  BY <1>1, TypeStep, PTL DEF Spec

-----------------------------------------------------------------------------
\* The inductive invariant, one lemma for each kind of step a handler makes.

\* A call has a row only when its request is over.
LEMMA RowMeansDone ==
  ASSUME IInv, NEW c \in CallReqs, pc[c] # "done"
  PROVE  calls[c].status = "absent" /\ approvals[c] = "absent" /\ audit[c] = {}
<1>1. c \in Requests
  BY DEF Requests
<1>2. audit[c] = {}
  BY <1>1 DEF IInv, AuditOfReviews
<1>3. calls[c].status = "absent"
  BY <1>2 DEF IInv, AuditOfCalls
<1> QED
  BY <1>2, <1>3 DEF IInv, ApprovalMatchesToolCall, CoherentStates

\* A review that has not ended has no audit event.
LEMMA UnfinishedUnaudited ==
  ASSUME IInv, NEW r \in Requests, pc[r] # "done"
  PROVE  audit[r] = {}
BY DEF IInv, AuditOfReviews

\* A handler moves without touching rows; after its upstream call has started it
\* can only unwind.
LEMMA QuietStep ==
  ASSUME IInv, TypeOK', UNCHANGED rigidVars,
         UNCHANGED <<calls, approvals, audit, dispatched>>,
         NEW r \in Requests, NEW where \in PcValue \ {"awaiting"}, Goto(r, where),
         pc[r] # "done",
         pc[r] \in {"awaiting", "unwinding", "crashed"} => where = "unwinding",
         \A s \in Requests : /\ txn'[s].row = txn[s].row
                             /\ txn'[s].approval = txn[s].approval
  PROVE  IInv'
<1> USE DEF IInv
<1>0. /\ pc \in [Requests -> PcValue]
      /\ pc' = [pc EXCEPT ![r] = where]
      /\ \A s \in Requests : s # r => pc'[s] = pc[s]
      /\ pc'[r] = where
  BY DEF TypeOK, ServiceTypeOK, Goto
<1>1. \A s \in Requests : Subject(s)' = Subject(s)
  BY DEF Subject, rigidVars
<1>2. CallReqs \subseteq Requests /\ ReviewReqs \subseteq Requests
  BY DEF Requests
<1>3. KeysUnique'
  BY DEF KeysUnique, SameKey, rigidVars
<1>4. RowWritesExclusive'
  BY <1>0, <1>2 DEF RowWritesExclusive, SameKey, rigidVars
<1>5. ApprovalWritesExclusive'
  BY <1>0, <1>1 DEF ApprovalWritesExclusive
<1>6. AwaitingHasWritten'
  BY <1>0 DEF AwaitingHasWritten
<1>7. ApprovalMatchesToolCall' /\ AuditOfCalls'
  BY DEF ApprovalMatchesToolCall, AuditOfCalls
<1>8. AuditOfReviews'
  BY <1>0, <1>1, <1>2 DEF AuditOfReviews
<1>9. DispatchedOutcome'
  BY <1>0 DEF DispatchedOutcome, TypeOK, ServiceTypeOK
<1> QED
  BY <1>3, <1>4, <1>5, <1>6, <1>7, <1>8, <1>9

\* The sessions of some requests are rolled back, and their handlers end.
LEMMA RollbackStep ==
  ASSUME IInv, TypeOK', UNCHANGED rigidVars, dispatched' = dispatched,
         NEW R \in SUBSET Requests, NEW end \in {"done", "crashed"}, Rollback(R),
         \A r \in R : pc[r] \in InFlight,
         pc' = [r \in Requests |-> IF r \in R THEN end ELSE pc[r]]
  PROVE  IInv'
<1> USE DEF IInv
<1>0. /\ \A s \in Requests :
           \/ s \notin R /\ pc'[s] = pc[s] /\ txn'[s] = txn[s]
           \/ s \in R /\ pc'[s] = end /\ txn'[s] = EmptyTxn
      /\ calls' = calls /\ approvals' = approvals /\ audit' = audit
      /\ EmptyTxn.row = NoRow /\ EmptyTxn.approval = "absent"
  <2>1. EmptyTxn.row = NoRow /\ EmptyTxn.approval = "absent"
    BY DEF EmptyTxn
  <2>2. txn' = [s \in Requests |-> IF s \in R THEN EmptyTxn ELSE txn[s]]
    BY DEF Rollback
  <2>3. calls' = calls /\ approvals' = approvals /\ audit' = audit
    BY DEF Rollback
  <2>4. ASSUME NEW s \in Requests
        PROVE  \/ s \notin R /\ pc'[s] = pc[s] /\ txn'[s] = txn[s]
               \/ s \in R /\ pc'[s] = end /\ txn'[s] = EmptyTxn
    <3>1. CASE s \in R
      BY <2>2, <3>1
    <3>2. CASE s \notin R
      BY <2>2, <3>2
    <3> QED
      BY <3>1, <3>2
  <2> QED
    BY <2>1, <2>3, <2>4
<1>1. \A s \in Requests : Subject(s)' = Subject(s)
  BY DEF Subject, rigidVars
<1>2. CallReqs \subseteq Requests /\ ReviewReqs \subseteq Requests
  BY DEF Requests
<1>3. KeysUnique'
  BY <1>0 DEF KeysUnique, SameKey, rigidVars
<1>4. RowWritesExclusive'
  BY <1>0, <1>2 DEF RowWritesExclusive, SameKey, rigidVars
<1>5. ApprovalWritesExclusive'
  BY <1>0, <1>1 DEF ApprovalWritesExclusive
<1>6. AwaitingHasWritten'
  BY <1>0 DEF AwaitingHasWritten
<1>7. ApprovalMatchesToolCall' /\ AuditOfCalls'
  BY <1>0 DEF ApprovalMatchesToolCall, AuditOfCalls
<1>8. AuditOfReviews'
  <2>1. \A r \in R : audit[r] = {}
    BY UnfinishedUnaudited DEF InFlight, HoldsLoop, PolicyEffect, Reviewing
  <2> QED
    BY <1>0, <1>1, <1>2, <2>1 DEF AuditOfReviews
<1>9. DispatchedOutcome'
  BY <1>0 DEF DispatchedOutcome, TypeOK, ServiceTypeOK
<1> QED
  BY <1>3, <1>4, <1>5, <1>6, <1>7, <1>8, <1>9

\* A call commits its row: nobody else has its key, committed or not.
LEMMA RecordCallStep ==
  ASSUME IInv, TypeOK', UNCHANGED rigidVars, dispatched' = dispatched,
         NEW c \in CallReqs, pc[c] # "done",
         NEW status, NEW payload \in BOOLEAN, NEW approval,
         \/ status \in {"denied", "succeeded", "failed"} /\ approval = "absent" /\ ~payload
         \/ status = "pending_approval" /\ approval = "pending" /\ payload,
         c \in dispatched => status \in {"succeeded", "failed"},
         \A d \in CallReqs \ {c} :
           SameKey(c, d) => calls[d].status = "absent" /\ txn[d].row = NoRow,
         CommitAndAnswer(c, Writes(status, payload, approval, {status}), status)
  PROVE  IInv'
<1> USE DEF IInv
<1> DEFINE row == [status |-> status, payload |-> payload]
<1>0. /\ calls[c].status = "absent" /\ approvals[c] = "absent" /\ audit[c] = {}
      /\ c \in Requests
      /\ CallReqs \subseteq Requests /\ ReviewReqs \subseteq Requests
      /\ CallReqs \cap ReviewReqs = {}
      /\ Subject(c) = c
  BY RowMeansDone, RequestsDisjoint DEF Requests, Subject
<1>1. /\ calls' = [calls EXCEPT ![c] = row]
      /\ approvals' = [approvals EXCEPT ![c] = approval]
      /\ audit' = [audit EXCEPT ![c] = {status}]
      /\ txn' = [txn EXCEPT ![c] = EmptyTxn]
      /\ pc' = [pc EXCEPT ![c] = "done"]
  <2>1. Commit(c, Writes(status, payload, approval, {status})) /\ Goto(c, "done")
    BY DEF CommitAndAnswer
  <2>2. row # NoRow
    BY DEF NoRow, ToolCallStatus
  <2>3. approvals = [approvals EXCEPT ![c] = "absent"]
    BY <1>0 DEF TypeOK, DbTypeOK
  <2> QED
    BY <1>0, <2>1, <2>2, <2>3 DEF Commit, Writes, Goto
<1>2. /\ \A d \in CallReqs : d # c => calls'[d] = calls[d] /\ approvals'[d] = approvals[d]
      /\ \A s \in Requests : s # c => /\ audit'[s] = audit[s]
                                      /\ txn'[s] = txn[s]
                                      /\ pc'[s] = pc[s]
      /\ calls'[c] = row /\ approvals'[c] = approval
      /\ audit'[c] = {status} /\ pc'[c] = "done"
      /\ txn'[c].row = NoRow /\ txn'[c].approval = "absent"
  BY <1>0, <1>1 DEF TypeOK, DbTypeOK, ServiceTypeOK, EmptyTxn
<1>3. \A s \in Requests : Subject(s)' = Subject(s) /\ Subject(s) \in CallReqs
  BY SubjectType DEF TypeOK, Subject, rigidVars
<1>4. KeysUnique'
  BY <1>0, <1>2 DEF KeysUnique, SameKey, rigidVars
<1>5. RowWritesExclusive'
  BY <1>0, <1>2 DEF RowWritesExclusive, SameKey, rigidVars
<1>6. ApprovalWritesExclusive'
  BY <1>0, <1>2, <1>3 DEF ApprovalWritesExclusive
<1>7. AwaitingHasWritten'
  BY <1>0, <1>2 DEF AwaitingHasWritten
<1>8. ApprovalMatchesToolCall'
  BY <1>0, <1>2 DEF ApprovalMatchesToolCall, CoherentStates
<1>9. AuditOfCalls'
  <2> SUFFICES ASSUME NEW d \in CallReqs
               PROVE  audit'[d] = CASE calls'[d].status = "absent" -> {}
                                    [] approvals'[d] # "absent"    -> {"pending_approval"}
                                    [] OTHER                       -> {calls'[d].status}
    BY DEF AuditOfCalls
  <2>1. CASE d = c
    <3>1. calls'[c].status = status /\ status # "absent"
      BY <1>2
    <3> QED
      BY <1>2, <2>1, <3>1
  <2>2. CASE d # c
    BY <1>0, <1>2, <2>2 DEF AuditOfCalls
  <2> QED
    BY <2>1, <2>2
<1>10. AuditOfReviews'
  BY <1>0, <1>2, <1>3 DEF AuditOfReviews, TerminalStatuses
<1>11. DispatchedOutcome'
  BY <1>0, <1>2 DEF DispatchedOutcome, TypeOK, ServiceTypeOK
<1> QED
  BY <1>4, <1>5, <1>6, <1>7, <1>8, <1>9, <1>10, <1>11

\* A review commits the end of its approval, which was pending for all others.
LEMMA CloseApprovalStep ==
  ASSUME IInv, TypeOK', UNCHANGED rigidVars, dispatched' = dispatched,
         NEW r \in ReviewReqs, pc[r] # "done",
         NEW status, NEW outcome, NEW events \in SUBSET AuditStatus,
         <<status, outcome>> \in {<<"denied", "denied">>, <<"denied", "expired">>,
                                  <<"succeeded", "executed">>, <<"failed", "failed">>},
         outcome \in events,
         r \in dispatched => outcome \in {"executed", "failed"},
         approvals[Subject(r)] = "pending",
         ~UpdateBlocked(r, Subject(r)),
         CommitAndAnswer(r, Writes(status, FALSE, outcome, events), outcome)
  PROVE  IInv'
<1> USE DEF IInv
<1> DEFINE c   == Subject(r)
           row == [status |-> status, payload |-> FALSE]
<1>0. /\ r \in Requests /\ r \notin CallReqs /\ c \in CallReqs
      /\ CallReqs \subseteq Requests /\ ReviewReqs \subseteq Requests
      /\ CallReqs \cap ReviewReqs = {}
  BY SubjectType, RequestsDisjoint DEF Requests, TypeOK
<1>a. calls[c].status = "pending_approval" /\ calls[c].payload
  BY <1>0 DEF ApprovalMatchesToolCall, CoherentStates
<1>1. /\ calls' = [calls EXCEPT ![c] = row]
      /\ approvals' = [approvals EXCEPT ![c] = outcome]
      /\ audit' = [audit EXCEPT ![r] = events]
      /\ txn' = [txn EXCEPT ![r] = EmptyTxn]
      /\ pc' = [pc EXCEPT ![r] = "done"]
  <2>1. Commit(r, Writes(status, FALSE, outcome, events)) /\ Goto(r, "done")
    BY DEF CommitAndAnswer
  <2>2. row # NoRow /\ outcome # "absent"
    BY DEF NoRow
  <2> QED
    BY <2>1, <2>2 DEF Commit, Writes, Goto
<1>2. /\ \A d \in CallReqs : d # c => calls'[d] = calls[d] /\ approvals'[d] = approvals[d]
      /\ \A s \in Requests : s # r => /\ audit'[s] = audit[s]
                                      /\ txn'[s] = txn[s]
                                      /\ pc'[s] = pc[s]
      /\ calls'[c] = row /\ approvals'[c] = outcome
      /\ audit'[r] = events /\ pc'[r] = "done"
      /\ txn'[r].row = NoRow /\ txn'[r].approval = "absent"
  BY <1>0, <1>1 DEF TypeOK, DbTypeOK, ServiceTypeOK, EmptyTxn
<1>3. \A s \in Requests : Subject(s)' = Subject(s) /\ Subject(s) \in CallReqs
  BY SubjectType DEF TypeOK, Subject, rigidVars
<1>b. \A s \in Requests \ {r} : Subject(s) = c => txn[s].approval = "absent"
  BY DEF UpdateBlocked
<1>c. row.status # "absent"
  OBVIOUS
<1>4. KeysUnique'
  BY <1>0, <1>a, <1>2 DEF KeysUnique, SameKey, rigidVars
<1>5. RowWritesExclusive'
  BY <1>0, <1>a, <1>2 DEF RowWritesExclusive, SameKey, rigidVars
<1>6. ApprovalWritesExclusive'
  BY <1>0, <1>2, <1>3, <1>b DEF ApprovalWritesExclusive
<1>7. AwaitingHasWritten'
  BY <1>0, <1>2 DEF AwaitingHasWritten
<1>8. ApprovalMatchesToolCall'
  BY <1>0, <1>2 DEF ApprovalMatchesToolCall, CoherentStates
<1>9. AuditOfCalls'
  <2>1. audit[c] = {"pending_approval"}
    BY <1>0, <1>a DEF AuditOfCalls
  <2> SUFFICES ASSUME NEW d \in CallReqs
               PROVE  audit'[d] = CASE calls'[d].status = "absent" -> {}
                                    [] approvals'[d] # "absent"    -> {"pending_approval"}
                                    [] OTHER                       -> {calls'[d].status}
    BY DEF AuditOfCalls
  <2>2. CASE d = c
    <3>1. calls'[c].status # "absent" /\ approvals'[c] # "absent"
      BY <1>2, <1>c
    <3>2. audit'[c] = audit[c]
      BY <1>0, <1>2
    <3> QED
      BY <2>1, <2>2, <3>1, <3>2
  <2>3. CASE d # c
    BY <1>0, <1>2, <2>3 DEF AuditOfCalls
  <2> QED
    BY <2>2, <2>3
<1>10. AuditOfReviews'
  <2>1. \A s \in ReviewReqs : Subject(s) = c => audit[s] = {}
    BY <1>0 DEF AuditOfReviews, TerminalStatuses
  <2>2. outcome \in TerminalStatuses
    BY DEF TerminalStatuses
  <2> QED
    BY <1>0, <1>2, <1>3, <2>1, <2>2 DEF AuditOfReviews
<1>11. DispatchedOutcome'
  BY <1>0, <1>2 DEF DispatchedOutcome, TypeOK, ServiceTypeOK
<1> QED
  BY <1>4, <1>5, <1>6, <1>7, <1>8, <1>9, <1>10, <1>11

\* A call takes its key with an EXECUTING row and starts its upstream call.
LEMMA CallUpstreamStep ==
  ASSUME IInv, TypeOK', UNCHANGED rigidVars, NEW c \in CallReqs, CallUpstream(c)
  PROVE  IInv'
<1> USE DEF IInv
<1>0. /\ calls[c].status = "absent" /\ approvals[c] = "absent" /\ audit[c] = {}
      /\ c \in Requests /\ c \notin ReviewReqs
      /\ CallReqs \subseteq Requests /\ ReviewReqs \subseteq Requests
      /\ \A d \in CallReqs : Subject(d) = d
  BY RowMeansDone, RequestsDisjoint DEF Requests, Subject, CallUpstream
<1>1. /\ \A s \in Requests : s # c => txn'[s] = txn[s] /\ pc'[s] = pc[s]
      /\ txn'[c].row = [status |-> "executing", payload |-> FALSE]
      /\ txn'[c].approval = "absent"
      /\ pc'[c] = "awaiting"
      /\ calls' = calls /\ approvals' = approvals /\ audit' = audit
      /\ dispatched' = dispatched \cup {c}
  BY <1>0 DEF CallUpstream, Write, Writes, Goto, TypeOK, DbTypeOK, ServiceTypeOK
<1>2. \A d \in CallReqs \ {c} :
        SameKey(c, d) => calls[d].status = "absent" /\ txn[d].row = NoRow
  BY <1>0 DEF CallUpstream, CanCreate, FoundByKey, InsertBlocked
<1>3. \A s \in Requests : Subject(s)' = Subject(s)
  BY DEF Subject, rigidVars
<1>a. pc[c] # "awaiting" /\ pc[c] # "unwinding"
  BY DEF CallUpstream
<1>b. txn'[c].row # NoRow /\ txn'[c].row.status = "executing"
  BY <1>1 DEF NoRow
<1>4. KeysUnique'
  BY <1>1 DEF KeysUnique, SameKey, rigidVars
<1>5. RowWritesExclusive'
  BY <1>0, <1>1, <1>b, <1>2 DEF RowWritesExclusive, SameKey, rigidVars
<1>6. ApprovalWritesExclusive'
  BY <1>0, <1>1, <1>3 DEF ApprovalWritesExclusive
<1>7. AwaitingHasWritten'
  BY <1>0, <1>1, <1>b DEF AwaitingHasWritten
<1>8. ApprovalMatchesToolCall' /\ AuditOfCalls'
  BY <1>1 DEF ApprovalMatchesToolCall, AuditOfCalls
<1>9. AuditOfReviews'
  BY <1>0, <1>1, <1>3 DEF AuditOfReviews
<1>10. DispatchedOutcome'
  BY <1>0, <1>1 DEF DispatchedOutcome, TypeOK, ServiceTypeOK
<1> QED
  BY <1>4, <1>5, <1>6, <1>7, <1>8, <1>9, <1>10

\* A review wins the transition of its approval and starts the upstream call.
LEMMA ApproveStep ==
  ASSUME IInv, TypeOK', UNCHANGED rigidVars, NEW r \in ReviewReqs, ApproveAndExecute(r)
  PROVE  IInv'
<1> USE DEF IInv
<1> DEFINE c == Subject(r)
<1>0. /\ r \in Requests /\ r \notin CallReqs /\ c \in CallReqs
      /\ CallReqs \subseteq Requests /\ ReviewReqs \subseteq Requests
  BY SubjectType, RequestsDisjoint DEF Requests, TypeOK
<1>1. pc[r] = "approve_pending" /\ audit[r] = {}
  BY <1>0, UnfinishedUnaudited DEF ApproveAndExecute, TransitionReturns
<1>2. txn[r].approval = "absent" /\ approvals[c] = "pending"
  BY <1>0, <1>1 DEF ApprovalWritesExclusive, ApproveAndExecute, TransitionWins, VisibleApproval
<1>3. \A s \in Requests \ {r} : Subject(s) = c => txn[s].approval = "absent"
  BY DEF ApproveAndExecute, TransitionReturns, UpdateBlocked
<1>4. /\ \A s \in Requests : s # r => txn'[s] = txn[s] /\ pc'[s] = pc[s]
      /\ txn'[r].row = NoRow /\ txn'[r].approval = "approved"
      /\ pc'[r] = "awaiting"
      /\ calls' = calls /\ approvals' = approvals /\ audit' = audit
      /\ dispatched' = dispatched \cup {r}
  BY <1>0 DEF ApproveAndExecute, Write, Goto, TypeOK, DbTypeOK, ServiceTypeOK
<1>5. \A s \in Requests : Subject(s)' = Subject(s)
  BY DEF Subject, rigidVars
<1>6. KeysUnique'
  BY <1>4 DEF KeysUnique, SameKey, rigidVars
<1>7. RowWritesExclusive'
  BY <1>0, <1>1, <1>4 DEF RowWritesExclusive, SameKey, rigidVars
<1>8. ApprovalWritesExclusive'
  BY <1>0, <1>2, <1>3, <1>4, <1>5 DEF ApprovalWritesExclusive
<1>9. AwaitingHasWritten'
  BY <1>0, <1>4 DEF AwaitingHasWritten
<1>10. ApprovalMatchesToolCall' /\ AuditOfCalls'
  BY <1>4 DEF ApprovalMatchesToolCall, AuditOfCalls
<1>11. AuditOfReviews'
  BY <1>0, <1>1, <1>4, <1>5 DEF AuditOfReviews
<1>12. DispatchedOutcome'
  BY <1>0, <1>1, <1>4 DEF DispatchedOutcome, TypeOK, ServiceTypeOK
<1> QED
  BY <1>6, <1>7, <1>8, <1>9, <1>10, <1>11, <1>12

\* Every step of the gateway keeps the inductive invariant.
LEMMA InvStep == IInv /\ [Next]_vars => IInv'
<1> SUFFICES ASSUME IInv, [Next]_vars PROVE IInv'
  OBVIOUS
<1>0. TypeOK /\ TypeOK' /\ DbTypeOK /\ ServiceTypeOK
  BY TypeStep DEF IInv, TypeOK
<1>a. ASSUME UNCHANGED <<rigidVars, dbVars, pc, dispatched>> PROVE IInv'
  <2> USE DEF IInv
  <2>1. /\ calls' = calls /\ approvals' = approvals /\ audit' = audit /\ txn' = txn
        /\ pc' = pc /\ dispatched' = dispatched /\ req' = req /\ review' = review
    BY <1>a DEF rigidVars, dbVars
  <2>2. \A s \in Requests : Subject(s)' = Subject(s)
    BY <2>1 DEF Subject
  <2>3. CallReqs \subseteq Requests /\ ReviewReqs \subseteq Requests
    BY DEF Requests
  <2>4. KeysUnique' /\ RowWritesExclusive'
    BY <2>1 DEF KeysUnique, RowWritesExclusive, SameKey
  <2>5. ApprovalWritesExclusive'
    BY <2>1, <2>2 DEF ApprovalWritesExclusive
  <2>6. AwaitingHasWritten' /\ DispatchedOutcome'
    BY <2>1 DEF AwaitingHasWritten, DispatchedOutcome
  <2>7. ApprovalMatchesToolCall' /\ AuditOfCalls'
    BY <2>1 DEF ApprovalMatchesToolCall, AuditOfCalls
  <2>8. AuditOfReviews'
    BY <2>1, <2>2, <2>3 DEF AuditOfReviews
  <2> QED
    BY <1>0, <2>4, <2>5, <2>6, <2>7, <2>8
<1>b. \A r \in Requests : \A where : Goto(r, where) => pc' = [pc EXCEPT ![r] = where]
  BY DEF Goto
<1>c. ASSUME NEW r \in Requests, NEW where \in PcValue \ {"awaiting"}, Goto(r, where),
             pc[r] # "done",
             pc[r] \in {"awaiting", "unwinding", "crashed"} => where = "unwinding",
             UNCHANGED <<rigidVars, dbVars, dispatched>>
      PROVE  IInv'
  <2>1. /\ UNCHANGED rigidVars
        /\ UNCHANGED <<calls, approvals, audit, dispatched>>
        /\ \A s \in Requests : txn'[s].row = txn[s].row /\ txn'[s].approval = txn[s].approval
    BY <1>c DEF dbVars
  <2> QED
    BY <1>0, <1>c, <2>1, QuietStep
<1>d. ASSUME NEW r \in Requests, NEW code, Raise(r, code), pc[r] \in HoldsLoop \cup {"queued", "received", "awaiting"},
             UNCHANGED <<rigidVars, dbVars, dispatched>>
      PROVE  IInv'
  <2>1. Goto(r, "unwinding") /\ pc[r] # "done"
    BY <1>d DEF Raise, HoldsLoop, PolicyEffect, Reviewing
  <2>2. "unwinding" \in PcValue \ {"awaiting"}
    BY DEF PcValue, InFlight
  <2> QED
    BY <1>c, <1>d, <2>1, <2>2
<1>1. CASE UNCHANGED vars
  BY <1>1, <1>a DEF vars, serviceVars, rigidVars
<1>2. ASSUME NEW r \in Requests, Submit(r) PROVE IInv'
  <2>1. (IF r \in CallReqs THEN "received" ELSE "queued") \in PcValue \ {"awaiting"}
    BY DEF PcValue, InFlight
  <2>2. /\ Goto(r, IF r \in CallReqs THEN "received" ELSE "queued")
        /\ pc[r] = "idle" /\ UNCHANGED <<rigidVars, dbVars, dispatched>>
    BY <1>2 DEF Submit
  <2> QED
    BY <1>c, <2>1, <2>2
<1>3. ASSUME NEW t \in Tools, RefreshTools(t) \/ UpdateToolDefinition(t) PROVE IInv'
  BY <1>3, <1>a DEF RefreshTools, UpdateToolDefinition
<1>4. ASSUME NEW c \in CallReqs, TimePasses(c) PROVE IInv'
  BY <1>4, <1>a DEF TimePasses, serviceVars
<1>5. ASSUME NEW w \in Workers, Crash(w) PROVE IInv'
  <2> DEFINE victims == {r \in Requests : WorkerOf[r] = w /\ pc[r] \in InFlight}
  <2>1. /\ Rollback(victims) /\ UNCHANGED rigidVars /\ dispatched' = dispatched
        /\ pc' = [r \in Requests |-> IF r \in victims THEN "crashed" ELSE pc[r]]
    BY <1>5 DEF Crash
  <2>2. victims \in SUBSET Requests /\ \A r \in victims : pc[r] \in InFlight
    OBVIOUS
  <2> HIDE DEF victims
  <2> QED
    BY <1>0, <2>1, <2>2, RollbackStep
<1>6. ASSUME NEW r \in Requests, Serve(r) PROVE IInv'
  <2>0. UNCHANGED rigidVars
    BY <1>6 DEF Serve, Authenticate, CallTool, ReviewApproval
  <2>1. CASE Authenticate(r)
    <3>1. UNCHANGED <<rigidVars, dbVars, dispatched>> /\ pc[r] = "received"
      BY <2>1 DEF Authenticate
    <3>2. CASE Goto(r, "queued")
      <4>1. "queued" \in PcValue \ {"awaiting"}
        BY DEF PcValue, InFlight
      <4> QED
        BY <1>c, <3>1, <3>2, <4>1
    <3>3. CASE Raise(r, "agent_disabled")
      BY <1>d, <3>1, <3>3
    <3> QED
      BY <2>1, <3>2, <3>3 DEF Authenticate
  <2>2. CASE LookupIdempotencyKey(r)
    <3>1. UNCHANGED <<rigidVars, dbVars, dispatched>> /\ pc[r] = "queued"
      BY <2>0, <2>2 DEF LookupIdempotencyKey, Resumes
    <3>2. ASSUME NEW where \in {"lookup_tool", "done"}, Goto(r, where) PROVE IInv'
      <4>1. where \in PcValue \ {"awaiting"}
        BY DEF PcValue, InFlight, HoldsLoop
      <4> QED
        BY <1>c, <3>1, <3>2, <4>1
    <3>3. CASE Raise(r, "idempotency_conflict")
      BY <1>d, <3>1, <3>3
    <3> QED
      BY <2>2, <3>2, <3>3 DEF LookupIdempotencyKey
  <2>3. CASE LookupTool(r)
    <3>1. UNCHANGED <<rigidVars, dispatched>> /\ pc[r] = "lookup_tool"
      BY <2>0, <2>3 DEF LookupTool
    <3>2. ASSUME NEW code, Write(r, [txn[r] EXCEPT !.audit = {"failed"}]), Raise(r, code)
          PROVE  IInv'
      <4>1. \A s \in Requests : txn'[s].row = txn[s].row /\ txn'[s].approval = txn[s].approval
        BY <1>0, <3>2 DEF Write, DbTypeOK, Txn
      <4>2. UNCHANGED <<calls, approvals, audit>> /\ Goto(r, "unwinding")
        BY <3>2 DEF Write, Raise
      <4>3. "unwinding" \in PcValue \ {"awaiting"}
        BY DEF PcValue, InFlight
      <4> QED
        BY <1>0, <3>1, <4>1, <4>2, <4>3, QuietStep
    <3>3. ASSUME NEW decision \in PolicyEffect, Goto(r, decision), UNCHANGED dbVars PROVE IInv'
      <4>1. decision \in PcValue \ {"awaiting"}
        BY DEF PcValue, InFlight, HoldsLoop, PolicyEffect
      <4> QED
        BY <1>c, <3>1, <3>3, <4>1
    <3>4. CASE Raise(r, "internal_error") /\ UNCHANGED dbVars
      BY <1>d, <3>1, <3>4 DEF HoldsLoop
    <3>5. \A risk : Decisions(risk) \subseteq PolicyEffect
      BY DEF Decisions, PolicyEffect
    <3> QED
      BY <2>3, <3>2, <3>3, <3>4, <3>5 DEF LookupTool
  <2>4. CASE CreateToolCallFails(r)
    BY <1>d, <2>0, <2>4 DEF CreateToolCallFails, HoldsLoop
  <2>a. ASSUME r \in CallReqs, pc[r] \in PolicyEffect, CanCreate(r)
        PROVE  /\ r \notin dispatched /\ pc[r] # "done"
               /\ \A d \in CallReqs \ {r} :
                    SameKey(r, d) => calls[d].status = "absent" /\ txn[d].row = NoRow
    <3>1. \A d \in CallReqs \ {r} : SameKey(r, d) => calls[d].status = "absent" /\ txn[d].row = NoRow
      BY <2>a DEF CanCreate, FoundByKey, InsertBlocked, Subject, Requests
    <3>2. r \notin dispatched /\ pc[r] # "done"
      BY <2>a DEF IInv, DispatchedOutcome, PolicyEffect
    <3> QED
      BY <3>1, <3>2
  <2>5. CASE r \in CallReqs /\ DenyCall(r)
    <3>1. /\ pc[r] \in PolicyEffect /\ CanCreate(r) /\ dispatched' = dispatched
          /\ CommitAndAnswer(r, Writes("denied", FALSE, "absent", {"denied"}), "denied")
      BY <2>5 DEF DenyCall, PolicyEffect
    <3> QED
      BY <1>0, <2>0, <2>5, <2>a, <3>1, RecordCallStep
  <2>6. CASE r \in CallReqs /\ RequestApproval(r)
    <3>1. /\ pc[r] \in PolicyEffect /\ CanCreate(r) /\ dispatched' = dispatched
          /\ CommitAndAnswer(r, Writes("pending_approval", TRUE, "pending", {"pending_approval"}),
                             "pending_approval")
      BY <2>6 DEF RequestApproval, PolicyEffect
    <3> QED
      BY <1>0, <2>0, <2>6, <2>a, <3>1, RecordCallStep
  <2>7. CASE r \in CallReqs /\ FailWithoutClient(r)
    <3>1. /\ pc[r] \in PolicyEffect /\ CanCreate(r) /\ dispatched' = dispatched
          /\ CommitAndAnswer(r, Writes("failed", FALSE, "absent", {"failed"}), "failed")
      BY <2>7 DEF FailWithoutClient, PolicyEffect
    <3> QED
      BY <1>0, <2>0, <2>7, <2>a, <3>1, RecordCallStep
  <2>8. CASE r \in CallReqs /\ CallUpstream(r)
    BY <1>0, <2>0, <2>8, CallUpstreamStep
  <2>9. CASE r \in CallReqs /\ CompleteCall(r)
    <3>1. PICK outcome \in {"succeeded", "failed"} :
            CommitAndAnswer(r, Writes(outcome, FALSE, "absent", {outcome}), outcome)
      BY <2>9 DEF CompleteCall
    <3>2. pc[r] = "awaiting" /\ txn[r].row # NoRow
      BY <2>9 DEF CompleteCall, Resumes, IInv, AwaitingHasWritten
    <3>3. \A d \in CallReqs \ {r} : SameKey(r, d) => calls[d].status = "absent" /\ txn[d].row = NoRow
      BY <3>2 DEF IInv, RowWritesExclusive
    <3>4. dispatched' = dispatched
      BY <2>9 DEF CompleteCall
    <3> QED
      BY <1>0, <2>0, <2>9, <3>1, <3>2, <3>3, <3>4, RecordCallStep
  <2>10. CASE UpstreamRaises(r)
    BY <1>d, <2>0, <2>10 DEF UpstreamRaises, Resumes
  <2>11. CASE Unwind(r)
    <3>1. /\ Rollback({r}) /\ pc[r] = "unwinding" /\ dispatched' = dispatched
          /\ pc' = [s \in Requests |-> IF s \in {r} THEN "done" ELSE pc[s]]
      BY <1>0, <2>11 DEF Unwind, Resumes, Goto, ServiceTypeOK
    <3>2. \A s \in {r} : pc[s] \in InFlight
      BY <3>1 DEF InFlight
    <3> QED
      BY <1>0, <2>0, <3>1, <3>2, RollbackStep
  <2>12. CASE r \in ReviewReqs /\ LoadApproval(r)
    <3>1. UNCHANGED <<rigidVars, dbVars, dispatched>> /\ pc[r] = "queued"
      BY <2>0, <2>12 DEF LoadApproval, Resumes
    <3>2. ASSUME NEW where \in Reviewing, Goto(r, where) PROVE IInv'
      <4>1. where \in PcValue \ {"awaiting"}
        BY DEF PcValue, InFlight, HoldsLoop, Reviewing
      <4> QED
        BY <1>c, <3>1, <3>2, <4>1
    <3>3. review[r].verb \in {"approve", "deny"}
      BY <1>0, <2>12 DEF DbTypeOK, ReviewRequest
    <3>4. \/ \E code : Raise(r, code)
          \/ \E where \in Reviewing : Goto(r, where)
      <4>1. CASE approvals[Subject(r)] = "pending" /\ Subject(r) \in expired
        BY <2>12, <4>1 DEF LoadApproval, Reviewing
      <4>2. CASE approvals[Subject(r)] = "pending" /\ Subject(r) \notin expired
        BY <2>12, <3>3, <4>2 DEF LoadApproval, Reviewing
      <4>3. CASE approvals[Subject(r)] # "pending"
        BY <2>12, <4>3 DEF LoadApproval
      <4> QED
        BY <4>1, <4>2, <4>3
    <3> QED
      BY <1>d, <3>1, <3>2, <3>4
  <2>13. CASE LoseTransition(r)
    <3>1. /\ UNCHANGED <<rigidVars, dbVars, dispatched>> /\ pc[r] \in HoldsLoop
          /\ Raise(r, "approval_not_pending")
      BY <2>0, <2>13 DEF LoseTransition, TransitionReturns, HoldsLoop
    <3> QED
      BY <1>d, <3>1
  <2>b. ASSUME r \in ReviewReqs, pc[r] \in Reviewing, TransitionWins(r, "pending"),
               ~UpdateBlocked(r, Subject(r)),
               NEW status, NEW outcome, NEW events \in SUBSET AuditStatus,
               <<status, outcome>> \in {<<"denied", "denied">>, <<"denied", "expired">>,
                                        <<"failed", "failed">>},
               outcome \in events,
               CommitAndAnswer(r, Writes(status, FALSE, outcome, events), outcome),
               dispatched' = dispatched
        PROVE  IInv'
    <3>1. r \notin dispatched /\ pc[r] # "done"
      BY <2>b DEF IInv, DispatchedOutcome, Reviewing
    <3>2. approvals[Subject(r)] = "pending"
      BY <2>b DEF IInv, ApprovalWritesExclusive, TransitionWins, VisibleApproval, Reviewing
    <3> QED
      BY <1>0, <2>0, <2>b, <3>1, <3>2, CloseApprovalStep
  <2>14. CASE r \in ReviewReqs /\ ExpireApproval(r)
    BY <2>b, <2>14 DEF ExpireApproval, TransitionReturns, Reviewing, AuditStatus
  <2>15. CASE r \in ReviewReqs /\ DenyApproval(r)
    BY <2>b, <2>15 DEF DenyApproval, TransitionReturns, Reviewing, AuditStatus
  <2>16. CASE r \in ReviewReqs /\ ApproveAndExecute(r)
    BY <1>0, <2>0, <2>16, ApproveStep
  <2>17. CASE r \in ReviewReqs /\ ApproveAndFail(r)
    BY <2>b, <2>17 DEF ApproveAndFail, ExecutionFailed, TransitionReturns, Reviewing, AuditStatus
  <2>18. CASE r \in ReviewReqs /\ CompleteExecution(r)
    <3>1. /\ pc[r] = "awaiting" /\ r \notin CallReqs /\ dispatched' = dispatched
          /\ \A s \in Requests : Subject(s) \in CallReqs
      BY <1>0, <2>18, RequestsDisjoint, SubjectType DEF CompleteExecution, Resumes
    <3>2. txn[r].approval # "absent" /\ approvals[Subject(r)] = "pending"
      BY <3>1 DEF IInv, AwaitingHasWritten, ApprovalWritesExclusive
    <3>3. ~UpdateBlocked(r, Subject(r))
      BY <3>2 DEF IInv, ApprovalWritesExclusive, UpdateBlocked
    <3>4. ASSUME NEW status, NEW outcome, NEW events \in SUBSET AuditStatus,
                 <<status, outcome>> \in {<<"succeeded", "executed">>, <<"failed", "failed">>},
                 outcome \in events,
                 CommitAndAnswer(r, Writes(status, FALSE, outcome, events), outcome)
          PROVE  IInv'
      BY <1>0, <2>0, <2>18, <3>1, <3>2, <3>3, <3>4, CloseApprovalStep
    <3> QED
      BY <2>18, <3>4 DEF CompleteExecution, ExecutionFailed, AuditStatus
  <2> QED
    BY <1>6, <2>1, <2>2, <2>3, <2>4, <2>5, <2>6, <2>7, <2>8, <2>9, <2>10, <2>11, <2>12,
       <2>13, <2>14, <2>15, <2>16, <2>17, <2>18 DEF Serve, CallTool, ReviewApproval
<1>7. CASE Quiescent
  BY <1>1, <1>7 DEF Quiescent
<1>8. ASSUME NEW r \in Requests, DatabaseFails(r) PROVE IInv'
  BY <1>8, <1>d, DatabaseFailsRaises
<1> QED
  BY <1>1, <1>2, <1>3, <1>4, <1>5, <1>6, <1>7, <1>8 DEF Next

\* The inductive invariant holds when the gateway starts with empty tables.
LEMMA InvInit == Init => IInv
<1> SUFFICES ASSUME Init PROVE IInv
  OBVIOUS
<1>1. TypeOK
  BY DEF Init, DbInit, ServiceInit, TypeOK, DbTypeOK, ServiceTypeOK, EmptyTxn, Txn,
         NoReply, Reply, PcValue
<1>2. /\ \A c \in CallReqs : calls[c] = NoRow /\ approvals[c] = "absent"
      /\ \A r \in Requests : audit[r] = {} /\ txn[r] = EmptyTxn /\ pc[r] = "idle"
      /\ dispatched = {}
      /\ CallReqs \subseteq Requests /\ ReviewReqs \subseteq Requests
  BY DEF Init, DbInit, ServiceInit, Requests
<1>3. EmptyTxn.row = NoRow /\ EmptyTxn.approval = "absent"
      /\ NoRow.status = "absent" /\ NoRow.payload = FALSE
  BY DEF EmptyTxn, NoRow
<1> QED
  BY <1>1, <1>2, <1>3 DEF IInv, KeysUnique, RowWritesExclusive, ApprovalWritesExclusive,
     AwaitingHasWritten, ApprovalMatchesToolCall, CoherentStates, AuditOfCalls,
     AuditOfReviews, TerminalStatuses, DispatchedOutcome

\* The inductive invariant holds in every run.
THEOREM Invariant == Spec => []IInv
BY InvInit, InvStep, PTL DEF Spec

-----------------------------------------------------------------------------
\* The safety properties, from the inductive invariant.

\* At every moment the committed call and its approval tell the same story, and
\* the payload is kept exactly while the approval is pending: every handler
\* commits both rows in one transaction.
THEOREM CallsMatchApprovals == Spec => []ApprovalMatchesToolCall
<1>1. IInv => ApprovalMatchesToolCall
  BY DEF IInv
<1> QED
  BY <1>1, Invariant, PTL

\* While an upstream call is in flight, its transaction alone may run it.
THEOREM InFlightAuthorised == Spec => []InFlightIsAuthorised
<1>1. IInv => InFlightIsAuthorised
  <2> SUFFICES ASSUME IInv, NEW r \in dispatched, pc[r] = "awaiting"
               PROVE  IF r \in CallReqs
                      THEN /\ txn[r].row.status = "executing"
                           /\ FoundByKey(r) \ {r} = {}
                           /\ \A d \in CallReqs \ {r} : SameKey(r, d) => txn[d].row = NoRow
                      ELSE /\ txn[r].approval = "approved"
                           /\ approvals[Subject(r)] = "pending"
                           /\ calls[Subject(r)] = [status |-> "pending_approval", payload |-> TRUE]
                           /\ ~UpdateBlocked(r, Subject(r))
    BY DEF InFlightIsAuthorised
  <2>1. r \in Requests
    BY DEF IInv, TypeOK, ServiceTypeOK
  <2>2. CASE r \in CallReqs
    <3>1. txn[r].row # NoRow
      BY <2>1, <2>2 DEF IInv, AwaitingHasWritten
    <3> QED
      BY <2>1, <2>2, <3>1 DEF IInv, RowWritesExclusive, FoundByKey
  <2>3. CASE r \notin CallReqs
    <3>1. txn[r].approval # "absent"
      BY <2>1, <2>3 DEF IInv, AwaitingHasWritten
    <3>2. /\ txn[r].approval = "approved" /\ approvals[Subject(r)] = "pending"
          /\ ~UpdateBlocked(r, Subject(r))
      BY <2>1, <3>1 DEF IInv, ApprovalWritesExclusive, UpdateBlocked
    <3>3. Subject(r) \in CallReqs
      BY <2>1, SubjectType DEF IInv, TypeOK
    <3>4. /\ calls[Subject(r)].status = "pending_approval" /\ calls[Subject(r)].payload
      BY <3>2, <3>3 DEF IInv, ApprovalMatchesToolCall, CoherentStates
    <3>5. calls[Subject(r)] \in Row
      BY <3>3, <3>4 DEF IInv, TypeOK, DbTypeOK, NoRow
    <3> QED
      BY <2>3, <3>2, <3>4, <3>5 DEF Row
  <2> QED
    BY <2>2, <2>3
<1> QED
  BY <1>1, Invariant, PTL

\* The audit trail explains the rows: how a call was created, and which single
\* review closed an approval with which outcome.
THEOREM AuditIsComplete == Spec => []AuditExplainsState
<1>1. IInv => AuditExplainsState
  <2> SUFFICES ASSUME IInv, NEW c \in CallReqs
               PROVE  LET reviews == {r \in ReviewReqs : Subject(r) = c /\ audit[r] # {}}
                      IN  IF approvals[c] \in TerminalStatuses
                          THEN \E r \in reviews : reviews = {r} /\ approvals[c] \in audit[r]
                          ELSE reviews = {}
    BY DEF AuditExplainsState, IInv, AuditOfCalls
  <2> DEFINE reviews == {r \in ReviewReqs : Subject(r) = c /\ audit[r] # {}}
  <2>1. \A r \in reviews : approvals[c] \in TerminalStatuses /\ approvals[c] \in audit[r]
    BY DEF IInv, AuditOfReviews
  <2>2. \A r, s \in reviews : r = s
    BY DEF IInv, AuditOfReviews
  <2>3. approvals[c] \in TerminalStatuses => \E r \in reviews : TRUE
    BY DEF IInv, AuditOfReviews
  <2> HIDE DEF reviews
  <2>4. CASE approvals[c] \in TerminalStatuses
    <3>1. PICK r \in reviews : TRUE
      BY <2>3, <2>4
    <3>2. reviews = {r}
      BY <2>2, <3>1
    <3> QED
      BY <2>1, <2>4, <3>2 DEF reviews
  <2>5. CASE approvals[c] \notin TerminalStatuses
    BY <2>1, <2>5 DEF reviews
  <2> QED
    BY <2>4, <2>5
<1> QED
  BY <1>1, Invariant, PTL

\* What a request that has effectively called the MCP server says of the rows it
\* answers for: it is the row's creator or its one review, before or after its
\* commit.
LEMMA EffectiveRequest ==
  ASSUME IInv, NEW r \in Effective
  PROVE  /\ r \in Requests /\ Subject(r) \in CallReqs
         /\ \/ /\ r \in CallReqs /\ Subject(r) = r
               /\ txn[r].row # NoRow /\ calls[r].status = "absent"
            \/ /\ r \in CallReqs /\ Subject(r) = r
               /\ calls[r].status # "absent" /\ approvals[r] = "absent"
            \/ /\ r \in ReviewReqs /\ txn[r].approval # "absent"
               /\ calls[Subject(r)].status # "absent" /\ approvals[Subject(r)] = "pending"
            \/ /\ r \in ReviewReqs /\ audit[r] # {}
               /\ calls[Subject(r)].status # "absent"
               /\ approvals[Subject(r)] \in TerminalStatuses
<1>0. /\ r \in dispatched /\ r \in Requests /\ Subject(r) \in CallReqs
      /\ pc[r] = "awaiting" \/ audit[r] # {}
  BY SubjectType DEF Effective, Lost, IInv, TypeOK, ServiceTypeOK
<1>1. CASE r \in CallReqs /\ pc[r] = "awaiting"
  <2>1. txn[r].row # NoRow
    BY <1>0, <1>1 DEF IInv, AwaitingHasWritten
  <2> QED
    BY <1>0, <1>1, <2>1 DEF IInv, RowWritesExclusive, Subject
<1>2. CASE r \in CallReqs /\ audit[r] # {}
  <2>1. audit[r] \cap {"succeeded", "failed", "executed"} # {}
    BY <1>0, <1>2 DEF IInv, DispatchedOutcome
  <2>2. calls[r].status # "absent"
    <3>1. CASE calls[r].status = "absent"
      <4>1. r \in CallReqs /\ AuditOfCalls
        BY <1>2 DEF IInv
      <4>2. audit[r] = CASE calls[r].status = "absent" -> {}
                         [] approvals[r] # "absent"    -> {"pending_approval"}
                         [] OTHER                      -> {calls[r].status}
        BY <4>1 DEF AuditOfCalls
      <4>a. approvals[r] = "absent"
        BY <3>1, <4>1 DEF IInv, ApprovalMatchesToolCall, CoherentStates
      <4>3. audit[r] = {}
        BY <3>1, <4>2, <4>a
      <4> QED
        BY <1>2, <4>3
    <3> QED
      BY <3>1
  <2>3. approvals[r] = "absent"
    <3>1. CASE approvals[r] # "absent"
      <4>1. audit[r] = {"pending_approval"}
        BY <1>2, <2>2, <3>1 DEF IInv, AuditOfCalls
      <4> QED
        BY <2>1, <4>1
    <3> QED
      BY <3>1
  <2> QED
    BY <1>0, <1>2, <2>2, <2>3 DEF Subject
<1>3. \A c \in CallReqs : approvals[c] # "absent" => calls[c].status # "absent"
  BY DEF IInv, ApprovalMatchesToolCall, CoherentStates
<1>4. CASE r \notin CallReqs /\ pc[r] = "awaiting"
  <2>1. txn[r].approval # "absent"
    BY <1>0, <1>4 DEF IInv, AwaitingHasWritten
  <2>2. r \in ReviewReqs /\ approvals[Subject(r)] = "pending"
    BY <1>0, <2>1 DEF IInv, ApprovalWritesExclusive
  <2> QED
    BY <1>0, <1>3, <2>1, <2>2
<1>5. CASE r \notin CallReqs /\ audit[r] # {}
  <2>1. r \in ReviewReqs
    BY <1>0, <1>5 DEF Requests
  <2>2. approvals[Subject(r)] \in TerminalStatuses
    BY <1>5, <2>1 DEF IInv, AuditOfReviews
  <2>3. approvals[Subject(r)] # "absent"
    BY <2>2 DEF TerminalStatuses
  <2> QED
    BY <1>0, <1>3, <1>5, <2>1, <2>2, <2>3
<1> QED
  BY <1>0, <1>1, <1>2, <1>4, <1>5

\* An operation runs upstream at most once, over all calls with its key and all
\* reviews of its approval, on any number of workers; only a run the database
\* has lost may be repeated.
THEOREM ExecutedOnce == Spec => []NoDoubleExecution
<1>1. IInv => NoDoubleExecution
  <2> SUFFICES ASSUME IInv, NEW r \in Effective, NEW s \in Effective,
                      SameOperation(Subject(r), Subject(s))
               PROVE  r = s
    BY DEF NoDoubleExecution
  <2>0. "absent" \notin TerminalStatuses /\ "pending" \notin TerminalStatuses
    BY DEF TerminalStatuses
  <2>1. CASE Subject(r) = Subject(s)
    <3>1. CASE r \in CallReqs /\ s \in CallReqs
      BY <2>1, <3>1 DEF Subject
    <3>2. CASE r \in ReviewReqs /\ s \in ReviewReqs
      <4>1. CASE txn[r].approval # "absent" /\ txn[s].approval # "absent"
        BY <2>1, <4>1, EffectiveRequest DEF IInv, ApprovalWritesExclusive
      <4>2. CASE audit[r] # {} /\ audit[s] # {}
        BY <2>1, <3>2, <4>2 DEF IInv, AuditOfReviews
      <4> QED
        BY <2>0, <2>1, <3>2, <4>1, <4>2, EffectiveRequest, RequestsDisjoint
    <3> QED
      BY <2>0, <2>1, <3>1, <3>2, EffectiveRequest
  <2>2. CASE Subject(r) # Subject(s)
    <3>1. SameKey(Subject(r), Subject(s)) /\ SameKey(Subject(s), Subject(r))
      BY <2>2 DEF SameOperation, SameKey
    <3>2. ~(calls[Subject(r)].status # "absent" /\ calls[Subject(s)].status # "absent")
      BY <2>2, <3>1, EffectiveRequest DEF IInv, KeysUnique
    <3>3. ASSUME NEW a \in Effective, NEW b \in Effective, Subject(a) # Subject(b),
                 SameKey(Subject(a), Subject(b)), calls[Subject(a)].status = "absent"
          PROVE  FALSE
      <4>1. a \in CallReqs /\ a \in Requests /\ Subject(a) = a /\ txn[a].row # NoRow
        BY <3>3, EffectiveRequest
      <4>2. Subject(b) \in CallReqs \ {a}
        BY <3>3, <4>1, EffectiveRequest
      <4>3. calls[Subject(b)].status = "absent" /\ txn[Subject(b)].row = NoRow
        BY <3>3, <4>1, <4>2 DEF IInv, RowWritesExclusive
      <4> QED
        BY <4>3, EffectiveRequest
    <3> QED
      BY <2>2, <3>1, <3>2, <3>3
  <2> QED
    BY <2>1, <2>2
<1> QED
  BY <1>1, Invariant, PTL

-----------------------------------------------------------------------------
\* Nothing finished changes: the body of FinalMeansFinal.
FinishedKept ==
  /\ \A c \in CallReqs :
       /\ calls[c].status \in FinalCallStatus => calls'[c] = calls[c]
       /\ approvals[c] \in TerminalStatuses => approvals'[c] = approvals[c]
  /\ \A r \in Requests : audit[r] \subseteq audit'[r]

\* What one commit may do to the finished rows: nothing.  A call is committed
\* before it has a row, an approval while it is pending.
LEMMA CommitStep ==
  ASSUME IInv, NEW r \in Requests, pc[r] # "done", NEW writes, Commit(r, writes),
         writes.row # NoRow => calls[Subject(r)].status \notin FinalCallStatus,
         writes.approval # "absent" => approvals[Subject(r)] \notin TerminalStatuses
  PROVE  FinishedKept
<1>1. audit[r] = {}
  BY UnfinishedUnaudited
<1>2. /\ calls' = calls \/ (writes.row # NoRow /\ calls' = [calls EXCEPT ![Subject(r)] = writes.row])
      /\ \/ approvals' = approvals
         \/ writes.approval # "absent" /\ approvals' = [approvals EXCEPT ![Subject(r)] = writes.approval]
      /\ audit' = [audit EXCEPT ![r] = writes.audit]
  BY DEF Commit
<1>3. /\ calls \in [CallReqs -> Row \cup {NoRow}]
      /\ approvals \in [CallReqs -> ApprovalStatus \cup {"absent"}]
      /\ audit \in [Requests -> SUBSET AuditStatus]
  BY DEF IInv, TypeOK, DbTypeOK
<1>4. \A c \in CallReqs : calls[c].status \in FinalCallStatus => calls'[c] = calls[c]
  BY <1>2, <1>3
<1>5. \A c \in CallReqs : approvals[c] \in TerminalStatuses => approvals'[c] = approvals[c]
  BY <1>2, <1>3
<1>6. \A s \in Requests : audit[s] \subseteq audit'[s]
  BY <1>1, <1>2, <1>3
<1> QED
  BY <1>4, <1>5, <1>6 DEF FinishedKept

\* The two committers: a call that has no row yet, a review that finds its
\* approval pending.
LEMMA CallCommitStep ==
  ASSUME IInv, NEW c \in CallReqs, pc[c] # "done", NEW writes, NEW code,
         CommitAndAnswer(c, writes, code)
  PROVE  FinishedKept
<1>1. c \in Requests /\ Subject(c) = c /\ Commit(c, writes)
  BY DEF Requests, Subject, CommitAndAnswer
<1>2. calls[c].status = "absent" /\ approvals[c] = "absent"
  BY RowMeansDone
<1>3. "absent" \notin FinalCallStatus /\ "absent" \notin TerminalStatuses
  BY DEF FinalCallStatus, TerminalStatuses
<1> QED
  BY <1>1, <1>2, <1>3, CommitStep

\* A review that closes its approval leaves every finished row as it is.
LEMMA ReviewCommitStep ==
  ASSUME IInv, NEW r \in ReviewReqs, pc[r] # "done", approvals[Subject(r)] = "pending",
         NEW writes, NEW code, CommitAndAnswer(r, writes, code)
  PROVE  FinishedKept
<1>1. r \in Requests /\ Commit(r, writes)
  BY DEF Requests, CommitAndAnswer
<1>2. Subject(r) \in CallReqs
  BY <1>1, SubjectType DEF IInv, TypeOK
<1>3. calls[Subject(r)].status = "pending_approval"
  BY <1>2 DEF IInv, ApprovalMatchesToolCall, CoherentStates
<1>4. "pending_approval" \notin FinalCallStatus /\ "pending" \notin TerminalStatuses
  BY DEF FinalCallStatus, TerminalStatuses
<1> QED
  BY <1>1, <1>3, <1>4, CommitStep

\* Every step leaves what is finished as it is.
LEMMA FinishedStep == IInv /\ [Next]_vars => FinishedKept
<1> SUFFICES ASSUME IInv, [Next]_vars PROVE FinishedKept
  OBVIOUS
<1>1. ASSUME UNCHANGED <<calls, approvals, audit>> PROVE FinishedKept
  BY <1>1 DEF FinishedKept
<1>2. CASE UNCHANGED vars
  BY <1>1, <1>2 DEF vars, dbVars
<1>3. ASSUME NEW r \in Requests, Serve(r) PROVE FinishedKept
  <2>1. ASSUME UNCHANGED dbVars PROVE FinishedKept
    BY <1>1, <2>1 DEF dbVars
  <2>2. CASE r \in CallReqs /\ CallTool(r)
    <3>1. ASSUME pc[r] # "done", NEW writes, NEW code, CommitAndAnswer(r, writes, code)
          PROVE  FinishedKept
      BY <2>2, <3>1, CallCommitStep
    <3>2. CASE LookupIdempotencyKey(r) \/ CreateToolCallFails(r) \/ UpstreamRaises(r)
      BY <2>1, <3>2 DEF LookupIdempotencyKey, CreateToolCallFails, UpstreamRaises
    <3>3. CASE LookupTool(r) \/ CallUpstream(r) \/ Unwind(r)
      BY <1>1, <3>3 DEF LookupTool, CallUpstream, Unwind, Write, Rollback, dbVars
    <3>4. CASE DenyCall(r) \/ RequestApproval(r) \/ FailWithoutClient(r) \/ CompleteCall(r)
      BY <3>1, <3>4 DEF DenyCall, RequestApproval, FailWithoutClient, CompleteCall, Resumes
    <3> QED
      BY <2>2, <3>2, <3>3, <3>4 DEF CallTool
  <2>3. CASE r \in ReviewReqs /\ ReviewApproval(r)
    <3>1. ASSUME pc[r] # "done", approvals[Subject(r)] = "pending",
                 NEW writes, NEW code, CommitAndAnswer(r, writes, code)
          PROVE  FinishedKept
      BY <2>3, <3>1, ReviewCommitStep
    <3>2. CASE LoadApproval(r) \/ LoseTransition(r) \/ UpstreamRaises(r)
      BY <2>1, <3>2 DEF LoadApproval, LoseTransition, UpstreamRaises
    <3>3. CASE ApproveAndExecute(r) \/ Unwind(r)
      BY <1>1, <3>3 DEF ApproveAndExecute, Unwind, Write, Rollback
    <3>4. CASE ExpireApproval(r) \/ DenyApproval(r) \/ ApproveAndFail(r)
      <4>1. pc[r] \in Reviewing /\ TransitionWins(r, "pending")
        BY <3>4 DEF ExpireApproval, DenyApproval, ApproveAndFail, TransitionReturns, Reviewing
      <4>2. pc[r] # "done" /\ approvals[Subject(r)] = "pending"
        BY <4>1 DEF IInv, ApprovalWritesExclusive, TransitionWins, VisibleApproval, Reviewing
      <4> QED
        BY <3>1, <3>4, <4>2 DEF ExpireApproval, DenyApproval, ApproveAndFail
    <3>5. CASE CompleteExecution(r)
      <4>1. pc[r] = "awaiting" /\ r \notin CallReqs
        BY <2>3, <3>5, RequestsDisjoint DEF CompleteExecution, Resumes
      <4>2. approvals[Subject(r)] = "pending"
        BY <4>1 DEF IInv, AwaitingHasWritten, ApprovalWritesExclusive
      <4> QED
        BY <3>1, <3>5, <4>1, <4>2 DEF CompleteExecution
    <3> QED
      BY <2>3, <3>2, <3>3, <3>4, <3>5 DEF ReviewApproval
  <2>4. CASE Authenticate(r)
    BY <2>1, <2>4 DEF Authenticate
  <2> QED
    BY <1>3, <2>2, <2>3, <2>4 DEF Serve
<1>4. ASSUME NEW r \in Requests, Submit(r) PROVE FinishedKept
  BY <1>1, <1>4 DEF Submit, dbVars
<1>5. ASSUME NEW t \in Tools, RefreshTools(t) \/ UpdateToolDefinition(t) PROVE FinishedKept
  BY <1>1, <1>5 DEF RefreshTools, UpdateToolDefinition, dbVars
<1>6. ASSUME NEW c \in CallReqs, TimePasses(c) PROVE FinishedKept
  BY <1>1, <1>6 DEF TimePasses, dbVars
<1>7. ASSUME NEW w \in Workers, Crash(w) PROVE FinishedKept
  BY <1>1, <1>7 DEF Crash, Rollback
<1>8. CASE Quiescent
  BY <1>2, <1>8 DEF Quiescent
<1>9. ASSUME NEW r \in Requests, DatabaseFails(r) PROVE FinishedKept
  BY <1>1, <1>9, DatabaseFailsRaises DEF dbVars
<1> QED
  BY <1>2, <1>3, <1>4, <1>5, <1>6, <1>7, <1>8, <1>9 DEF Next

\* A finished call or approval never changes again and no audit event is
\* removed, whichever handlers run late, lose a race or are rolled back.
THEOREM FinishedIsFinished == Spec => FinalMeansFinal
<1>1. IInv /\ [Next]_vars => [FinishedKept]_vars
  BY FinishedStep
<1> QED
  BY <1>1, Invariant, PTL DEF Spec, FinalMeansFinal, FinishedKept
=============================================================================
