------------------------------- MODULE Gateway -------------------------------
(***************************************************************************)
(* The gateway: the handlers of all requests on their workers, with the    *)
(* clients, administrators, clock and crashes around them.                 *)
(***************************************************************************)
EXTENDS ApprovalService

CONSTANT AssignedRisks   \* the risk levels administrators assign to tools

ASSUME AssignedRisksType == AssignedRisks \subseteq RiskLevel

vars == <<req, review, dbVars, serviceVars, expired>>

rigidVars == <<req, review>>

Init ==
  /\ DbInit
  /\ ServiceInit
  /\ \A t \in Tools : registry[t].risk \in AssignedRisks
  /\ expired = {}

-----------------------------------------------------------------------------
\* Clients and administrators

\* A client sends its request; approve and deny have no database dependency
\* before their handler.
Submit(r) ==
  /\ pc[r] = "idle"
  /\ Goto(r, IF r \in CallReqs THEN "received" ELSE "queued")
  /\ UNCHANGED <<rigidVars, dbVars, reply, registry, dispatched, expired>>

\* An administrator has the tools of a server refreshed, and one it announces is
\* new: it is registered disabled and critical.  For a tool already registered
\* only the schema may change, and what it accepts is left open anyway.
RefreshTools(t) ==
  /\ \E w \in Workers : Idle(w)
  /\ registry[t].status = "absent"
  /\ registry' = [registry EXCEPT ![t] = [status |-> "disabled", risk |-> "critical"]]
  /\ UNCHANGED <<rigidVars, dbVars, pc, reply, dispatched, expired>>

\* An administrator's PATCH, handled on some idle worker: it can enable or
\* disable a registered tool and reclassify its risk, each field or none.
UpdateToolDefinition(t) ==
  /\ \E w \in Workers : Idle(w)
  /\ registry[t].status # "absent"
  /\ \E status \in EntityStatus, risk \in AssignedRisks \cup {registry[t].risk} :
       registry' = [registry EXCEPT ![t] = [status |-> status, risk |-> risk]]
  /\ UNCHANGED <<rigidVars, dbVars, pc, reply, dispatched, expired>>

\* The expires_at of a pending approval passes.
TimePasses(c) ==
  /\ approvals[c] = "pending"
  /\ expired' = expired \cup {c}
  /\ UNCHANGED <<rigidVars, dbVars, serviceVars>>

\* A worker dies with all its requests; the database rolls them back.
Crash(w) ==
  LET victims == {r \in Requests : WorkerOf[r] = w /\ pc[r] \in InFlight}
  IN  /\ w \in Unreliable
      /\ victims # {}
      /\ Rollback(victims)
      /\ pc' = [r \in Requests |-> IF r \in victims THEN "crashed" ELSE pc[r]]
      /\ reply' = [r \in Requests |-> IF r \in victims THEN NoReply ELSE reply[r]]
      /\ UNCHANGED <<rigidVars, registry, dispatched, expired>>

\* The database fails a statement of a handler that has not called upstream, or
\* its COMMIT before carrying it out: the session keeps nothing.
DatabaseFails(r) ==
  /\ WorkerOf[r] \in Unreliable
  /\ pc[r] \in {"received"} \cup HoldsLoop \/ Resumes(r, "queued")
  /\ Raise(r, "internal_error")
  /\ UNCHANGED <<rigidVars, dbVars, registry, dispatched, expired>>

-----------------------------------------------------------------------------
\* The handlers

\* require_agent, in the thread pool.  The agent may have been disabled at any
\* time before: what the read of its row finds is left open.
Authenticate(r) ==
  /\ pc[r] = "received"
  /\ \/ Goto(r, "queued") /\ UNCHANGED reply
     \/ Raise(r, "agent_disabled")
  /\ UNCHANGED <<rigidVars, dbVars, registry, dispatched, expired>>

CallTool(c) ==
  /\ \/ LookupIdempotencyKey(c)
     \/ LookupTool(c)
     \/ CreateToolCallFails(c)
     \/ DenyCall(c)
     \/ RequestApproval(c)
     \/ FailWithoutClient(c)
     \/ CallUpstream(c)
     \/ CompleteCall(c)
     \/ UpstreamRaises(c)
     \/ Unwind(c)
  /\ UNCHANGED <<rigidVars, expired>>

ReviewApproval(r) ==
  /\ \/ LoadApproval(r)
     \/ LoseTransition(r)
     \/ ExpireApproval(r)
     \/ DenyApproval(r)
     \/ ApproveAndExecute(r)
     \/ ApproveAndFail(r)
     \/ CompleteExecution(r) /\ UNCHANGED expired
     \/ UpstreamRaises(r) /\ UNCHANGED expired
     \/ Unwind(r) /\ UNCHANGED expired
  /\ UNCHANGED rigidVars

Serve(r) == \/ r \in CallReqs   /\ (Authenticate(r) \/ CallTool(r))
            \/ r \in ReviewReqs /\ ReviewApproval(r)

\* Every request has been sent and has come to its end.
Quiescent == (\A r \in Requests : pc[r] \in {"done", "crashed"}) /\ UNCHANGED vars

Next == \/ \E r \in Requests : Submit(r) \/ Serve(r)
        \/ \E t \in Tools : RefreshTools(t) \/ UpdateToolDefinition(t)
        \/ \E c \in CallReqs : TimePasses(c)
        \/ \E w \in Workers : Crash(w)
        \/ \E r \in Requests : DatabaseFails(r)
        \/ Quiescent

\* A handler that can take a step takes it: the event loop and the thread pool
\* serve in order, a lock is granted when its holder ends, and the upstream
\* call is bounded by mcp_call_timeout_seconds.  Clients, administrators, time,
\* crashes and failures of the database are not fair.
Fairness == \A r \in Requests : WF_vars(Serve(r))

Spec == Init /\ [][Next]_vars

FairSpec == Spec /\ Fairness

-----------------------------------------------------------------------------
TypeOK ==
  /\ DbTypeOK
  /\ ServiceTypeOK
  /\ expired \subseteq CallReqs

-----------------------------------------------------------------------------
\* A call in one of these states will never change again.
FinalCallStatus == {"denied", "succeeded", "failed"}

\* Two calls that a client means to have executed once: the same call, or two
\* with one idempotency key of one agent.
SameOperation(c, d) == c = d \/ SameKey(c, d)

\* Requests whose upstream call was made but left no trace in the database:
\* their worker died, or the call ended in an exception nobody catches.
Lost == {r \in dispatched : pc[r] # "awaiting" /\ audit[r] = {}}

\* Requests that make, or have made and recorded, an upstream call.
Effective == dispatched \ Lost

\* An operation runs upstream at most once, over all calls with its key and all
\* reviews of its approval, whatever their interleaving on all workers; only a
\* run the database has lost may be repeated (call_tool, approve_approval).
NoDoubleExecution ==
  \A r, s \in Effective : SameOperation(Subject(r), Subject(s)) => r = s

\* While an upstream call is in flight its transaction alone has the right to
\* run it: a direct call holds its key and no committed row has it; a review
\* holds the approval, which is still pending, payload included, for others.
InFlightIsAuthorised ==
  \A r \in dispatched : pc[r] = "awaiting" =>
    IF r \in CallReqs
    THEN /\ txn[r].row.status = "executing"
         /\ FoundByKey(r) \ {r} = {}
         /\ \A d \in CallReqs \ {r} : SameKey(r, d) => txn[d].row = NoRow
    ELSE /\ txn[r].approval = "approved"
         /\ approvals[Subject(r)] = "pending"
         /\ calls[Subject(r)] = [status |-> "pending_approval", payload |-> TRUE]
         /\ ~UpdateBlocked(r, Subject(r))

\* The committed tool call and its approval always tell the same story, and the
\* arguments payload is kept exactly while the approval is pending.
CoherentStates ==
  {<<"absent", "absent">>, <<"denied", "absent">>, <<"succeeded", "absent">>,
   <<"failed", "absent">>, <<"pending_approval", "pending">>,
   <<"denied", "denied">>, <<"denied", "expired">>,
   <<"succeeded", "executed">>, <<"failed", "failed">>}

ApprovalMatchesToolCall ==
  \A c \in CallReqs :
    /\ <<calls[c].status, approvals[c]>> \in CoherentStates
    /\ calls[c].payload <=> approvals[c] = "pending"

\* The committed audit trail explains the committed rows: a call has recorded
\* the status it was created with, a closed approval has exactly one review on
\* record and it names the outcome, an open one has none.
AuditExplainsState ==
  \A c \in CallReqs :
    LET reviews == {r \in ReviewReqs : Subject(r) = c /\ audit[r] # {}}
    IN  /\ audit[c] = CASE calls[c].status = "absent" -> {}
                        [] approvals[c] # "absent"    -> {"pending_approval"}
                        [] OTHER                      -> {calls[c].status}
        /\ IF approvals[c] \in TerminalStatuses
           THEN \E r \in reviews : /\ reviews = {r}
                                   /\ approvals[c] \in audit[r]
           ELSE reviews = {}

\* What the database says ran is what ran: a succeeded call was run by exactly
\* the request on record, a denied one was not run by anybody, under its own
\* name or under its key, in a transaction that was not lost.
OutcomeIsHonest ==
  \A c \in CallReqs :
    LET runs == {r \in Effective : SameOperation(Subject(r), c)}
    IN  /\ calls[c].status = "succeeded" =>
             \E r \in runs : Subject(r) = c /\ audit[r] \cap {"succeeded", "executed"} # {}
        /\ calls[c].status \in {"denied", "pending_approval"} =>
             \A r \in runs : pc[r] = "awaiting" /\ r \in ReviewReqs

\* An answer stays true: the final status a client or administrator was told
\* is what the database holds from then on, a replay answers about a row of
\* the same request, and an error answer means that nothing was written, but
\* for an internal error of a worker that may lose its database at the COMMIT.
AnswersStayTrue ==
  \A r \in Requests : pc[r] = "done" =>
    LET code == reply[r].code
        c    == reply[r].call
    IN  IF code \in ErrorCode
        THEN /\ c = NoCall
             /\ audit[r] # {} => code = "internal_error" /\ WorkerOf[r] \in Unreliable
        ELSE /\ c \in CallReqs
             /\ IF r \in ReviewReqs
                THEN c = Subject(r) /\ approvals[c] = code
                ELSE /\ c = r \/ (SameKey(r, c) /\ req[r] = req[c] /\ audit[r] = {})
                     /\ IF code = "pending_approval" THEN approvals[c] # "absent"
                        ELSE code \in FinalCallStatus /\ calls[c].status = code

\* A finished call or approval never changes again and audit events are never
\* removed: no slower transaction overwrites what another one has closed.
FinalMeansFinal ==
  [][/\ \A c \in CallReqs :
          /\ calls[c].status \in FinalCallStatus => calls'[c] = calls[c]
          /\ approvals[c] \in TerminalStatuses => approvals'[c] = approvals[c]
     /\ \A r \in Requests : audit[r] \subseteq audit'[r]]_vars

\* Every request that reaches the gateway is answered, or its worker dies: no
\* wait for the key or the row of another request lasts for ever.
EveryRequestAnswered ==
  \A r \in Requests : pc[r] \in {"received", "queued"} ~> pc[r] \in {"done", "crashed"}
-----------------------------------------------------------------------------
\* The inductive invariant behind the safety properties, in named parts: what
\* the unique index and the row locks make of the uncommitted writes, and what
\* a handler's place and its audit events say about the rows.

\* The unique index.
KeysUnique ==
  \A c, d \in CallReqs :
    (calls[c].status # "absent" /\ calls[d].status # "absent" /\ SameKey(c, d)) => c = d

\* A session that has inserted a row: its key is nobody else's.
RowWritesExclusive ==
  \A r \in Requests : txn[r].row # NoRow =>
    /\ r \in CallReqs /\ pc[r] \in {"awaiting", "unwinding"}
    /\ txn[r].row.status = "executing"
    /\ calls[r].status = "absent"
    /\ \A d \in CallReqs \ {r} :
         SameKey(r, d) => calls[d].status = "absent" /\ txn[d].row = NoRow

\* A session that has updated an approval: it alone has, and the committed row
\* still is pending.
ApprovalWritesExclusive ==
  \A r \in Requests : txn[r].approval # "absent" =>
    /\ r \in ReviewReqs /\ pc[r] \in {"awaiting", "unwinding"}
    /\ txn[r].approval = "approved"
    /\ approvals[Subject(r)] = "pending"
    /\ \A s \in Requests : Subject(s) = Subject(r) /\ txn[s].approval # "absent" => s = r

\* A handler that awaits the MCP client has announced it in its session.
AwaitingHasWritten ==
  \A r \in Requests : pc[r] = "awaiting" =>
    IF r \in CallReqs THEN txn[r].row # NoRow ELSE txn[r].approval # "absent"

\* Committed audit events belong to finished requests; the ones of a call tell
\* how its row was created, the ones of a review how the approval was closed.
AuditOfCalls ==
  \A c \in CallReqs :
    audit[c] = CASE calls[c].status = "absent" -> {}
                 [] approvals[c] # "absent"    -> {"pending_approval"}
                 [] OTHER                      -> {calls[c].status}

AuditOfReviews ==
  /\ \A r \in Requests : audit[r] # {} => pc[r] = "done"
  /\ \A r \in ReviewReqs : audit[r] # {} =>
       approvals[Subject(r)] \in TerminalStatuses \cap audit[r]
  /\ \A r, s \in ReviewReqs :
       (audit[r] # {} /\ audit[s] # {} /\ Subject(r) = Subject(s)) => r = s
  /\ \A c \in CallReqs : approvals[c] \in TerminalStatuses =>
       \E r \in ReviewReqs : Subject(r) = c /\ audit[r] # {}

\* What has called the MCP client never goes back, and if it has committed, it
\* has recorded the outcome of that call.
DispatchedOutcome ==
  \A r \in dispatched :
    /\ pc[r] \in {"awaiting", "unwinding", "done", "crashed"}
    /\ audit[r] # {} => audit[r] \cap {"succeeded", "failed", "executed"} # {}

IInv == /\ TypeOK
        /\ KeysUnique
        /\ RowWritesExclusive
        /\ ApprovalWritesExclusive
        /\ AwaitingHasWritten
        /\ ApprovalMatchesToolCall
        /\ AuditOfCalls
        /\ AuditOfReviews
        /\ DispatchedOutcome

-----------------------------------------------------------------------------
\* The gateway implements the promise of CallLifecycle: what is recorded about
\* a call is its committed row, it runs while some handler awaits the MCP client
\* on its behalf, and the unique index makes the groups.
GroupOf(c) == {d \in CallReqs : SameOperation(c, d)}

RecordedStatus(c) == CASE calls[c].status = "absent"           -> "none"
                       [] calls[c].status = "pending_approval" -> "pending"
                       [] OTHER                                -> calls[c].status

Lifecycle == INSTANCE CallLifecycle WITH
  Calls   <- CallReqs,
  group   <- [c \in CallReqs |-> GroupOf(c)],
  status  <- [c \in CallReqs |-> RecordedStatus(c)],
  running <- {Subject(r) : r \in {s \in Requests : pc[s] = "awaiting"}}

\* Every step of every handler, with crashes, is a step of that promise or
\* leaves it alone.
ImplementsLifecycle == Lifecycle!LSpec

-----------------------------------------------------------------------------
\* What the documentation and the tests say of the gateway and the code does not
\* do.  Each is refuted by a run of its own.

\* A refused lookup or validation is in the audit log ("Audit events are written
\* for: Tool lookup failures. Schema validation failures.").
LookupFailuresAudited ==
  \A r \in CallReqs :
    (pc[r] = "done" /\ reply[r].code \in {"tool_not_found", "tool_disabled",
                                          "argument_schema_invalid"})
       => "failed" \in audit[r]

\* A request that looks up its key while another request with the key executes
\* is told that they conflict (IdempotencyConflictError).
InFlightDuplicateConflicts ==
  [][\A c, d \in CallReqs :
       (/\ c # d /\ SameKey(c, d)
        /\ pc[d] = "awaiting" /\ pc[c] = "queued" /\ pc'[c] \notin {"queued", "crashed"})
          => reply'[c].code = "idempotency_conflict"]_vars

\* One approval executes upstream once ("Only pending -> approved winner can
\* execute").
ApprovalExecutesOnce ==
  \A r, s \in dispatched \cap ReviewReqs : Subject(r) = Subject(s) => r = s

\* A failed upstream call is on record when its request has been answered ("MCP
\* tool call failures produce failed ToolCall and AuditEvent records").
UpstreamFailuresRecorded ==
  \A r \in dispatched : pc[r] = "done" => audit[r] # {}
=============================================================================
