--------------------------- MODULE ToolCallService ---------------------------
(***************************************************************************)
(* application/services/tool_call_service.py under the HTTP route that     *)
(* calls it: one request of an agent from its arrival to its answer, and   *)
(* the execution of an approved call, which ApprovalService starts.        *)
(*                                                                         *)
(* Each worker process runs one asyncio event loop.  The handlers are      *)
(* coroutines that use a SYNCHRONOUS database session, so a handler keeps  *)
(* its loop from one await to the next, even while a statement waits for a *)
(* lock in the database; the only await is the call of the MCP server.     *)
(* pc[r] is where the handler of request r stands:                         *)
(*   received       the authentication dependency runs in the thread pool  *)
(*   queued         the handler waits for the loop                         *)
(*   lookup_tool    (loop held) after the idempotency lookup               *)
(*   allow, deny, require_approval                                         *)
(*                  (loop held) the policy has decided, the INSERT is next *)
(*   approve_pending, deny_pending, expire_pending                         *)
(*                  (loop held) the conditional UPDATE of an approval next *)
(*   awaiting       the upstream call is in flight, the loop is free       *)
(*   unwinding      an exception left the handler, the session dependency  *)
(*                  has still to close the session                         *)
(*   done           answered                                               *)
(*   crashed        the worker died first, there is no answer              *)
(***************************************************************************)
EXTENDS GatewayDb

CONSTANTS Workers,        \* gateway processes behind one address
          WorkerOf,       \* the worker that accepts each request
          McpWorkers,     \* the workers whose app.state.mcp_client is set
          Unreliable      \* the workers that may die, or lose their database

ASSUME WorkerOfType   == WorkerOf \in [Requests -> Workers]
ASSUME McpWorkersType == McpWorkers \subseteq Workers
ASSUME UnreliableType == Unreliable \subseteq Workers

VARIABLES
  pc,         \* where the handler of each request stands
  reply,      \* the answer: a status or an error code, and the row it names
  registry,   \* tool_definitions (with their server): status and risk level
  dispatched  \* history: requests that have called the MCP server

serviceVars == <<pc, reply, registry, dispatched>>

Reviewing    == {"approve_pending", "deny_pending", "expire_pending"}
HoldsLoop    == {"lookup_tool"} \cup PolicyEffect \cup Reviewing
InFlight     == {"received", "queued", "awaiting", "unwinding"} \cup HoldsLoop
PcValue      == {"idle", "done", "crashed"} \cup InFlight

NoCall   == "none"
NoReply  == [code |-> "none", call |-> NoCall]
Reply    == [code : ToolCallStatus \cup ApprovalStatus \cup ErrorCode \cup {"none"},
             call : CallReqs \cup {NoCall}]
ToolRow  == [status : EntityStatus \cup {"absent"}, risk : RiskLevel]

\* get_mcp_client, and what the approval routes read in its place.
McpConfigured(r) == WorkerOf[r] \in McpWorkers

\* The event loop of w is not inside a handler.
Idle(w) == \A r \in Requests : WorkerOf[r] = w => pc[r] \notin HoldsLoop

\* Mutant: a handler blocks on the answer of the MCP server, on the loop that has
\* to receive it.
ResumesBlocked(r, at) ==
  pc[r] = at /\ \A s \in Requests :
    WorkerOf[s] = WorkerOf[r] => pc[s] \notin HoldsLoop \cup {"awaiting"}

\* A handler starts, or resumes after its await, only on an idle loop.
Resumes(r, at) == pc[r] = at /\ Idle(WorkerOf[r])

Goto(r, where) == pc' = [pc EXCEPT ![r] = where]

Answer(r, code, call) ==
  reply' = [reply EXCEPT ![r] = [code |-> code, call |-> call]]

\* The handler raises: FastAPI will close the session before it answers.
Raise(r, code) ==
  /\ Goto(r, "unwinding")
  /\ Answer(r, code, NoCall)

\* The service returns, the route commits and answers about its call: with an
\* internal error when the connection is lost before COMMIT, which is carried out,
\* is confirmed.  One that is not carried out leaves what Raise leaves.
CommitAndAnswer(r, writes, code) ==
  /\ Commit(r, writes)
  /\ Goto(r, "done")
  /\ \/ Answer(r, code, Subject(r))
     \/ WorkerOf[r] \in Unreliable /\ Answer(r, "internal_error", NoCall)

Writes(status, payload, approval, events) ==
  [row |-> [status |-> status, payload |-> payload], approval |-> approval, audit |-> events]

-----------------------------------------------------------------------------
\* call_tool

\* Mutant: the hash of the arguments is not compared.
LookupIdempotencyKeyOnly(r) ==
  /\ Resumes(r, "queued")
  /\ \/ /\ FoundByKey(r) = {}
        /\ Goto(r, "lookup_tool")
        /\ UNCHANGED reply
     \/ \E d \in FoundByKey(r) :
          /\ Goto(r, "done")
          /\ reply' = [reply EXCEPT ![r] = [code |-> calls[d].status, call |-> d]]
  /\ UNCHANGED <<dbVars, registry, dispatched>>

\* Replay the recorded result of the key, unless the request differs from the
\* recorded one or that one still executes.  A replay writes nothing.
LookupIdempotencyKey(r) ==
  /\ Resumes(r, "queued")
  /\ \/ /\ FoundByKey(r) = {}
        /\ Goto(r, "lookup_tool")
        /\ UNCHANGED reply
     \/ \E d \in FoundByKey(r) :
          IF \/ req[d].tool # req[r].tool
             \/ req[d].args # req[r].args
             \/ calls[d].status = "executing"
          THEN Raise(r, "idempotency_conflict")
          ELSE /\ Goto(r, "done")
               /\ reply' = [reply EXCEPT ![r] = [code |-> calls[d].status, call |-> d]]
  /\ UNCHANGED <<dbVars, registry, dispatched>>

\* Server, tool and schema are checked; a failure is recorded in the session
\* and raised.  Otherwise the policy decides on the tool row just read.  What is
\* raised outside these: the validator's errors other than SchemaError and
\* ValidationError; and when the configured policies cannot be read, the policy
\* denies, but PostgreSQL has aborted the transaction and the INSERT fails.
LookupTool(r) ==
  /\ pc[r] = "lookup_tool"
  /\ LET tool == registry[req[r].tool]
         Refuse(code) == /\ Write(r, [txn[r] EXCEPT !.audit = {"failed"}])
                         /\ Raise(r, code)
     IN  \/ tool.status = "absent"   /\ Refuse("tool_not_found")
         \/ tool.status = "disabled" /\ Refuse("tool_disabled")
         \/ tool.status = "active"   /\ Refuse("argument_schema_invalid")
         \/ tool.status = "active" /\ Raise(r, "internal_error") /\ UNCHANGED dbVars
         \/ /\ tool.status = "active"
            /\ \E decision \in Decisions(tool.risk) : Goto(r, decision)
            /\ UNCHANGED <<dbVars, reply>>
  /\ UNCHANGED <<registry, dispatched>>

\* _create_tool_call goes through: the INSERT neither waits nor collides.
CanCreate(r) == ~InsertBlocked(r) /\ FoundByKey(r) = {}

\* _create_tool_call fails: the row of another request got the key since the
\* lookup.  The IntegrityError is nobody's application error.
CreateToolCallFails(r) ==
  /\ pc[r] \in PolicyEffect
  /\ ~InsertBlocked(r)
  /\ FoundByKey(r) # {}
  /\ Raise(r, "internal_error")
  /\ UNCHANGED <<dbVars, registry, dispatched>>

DenyCall(r) ==
  /\ pc[r] = "deny"
  /\ CanCreate(r)
  /\ CommitAndAnswer(r, Writes("denied", FALSE, "absent", {"denied"}), "denied")
  /\ UNCHANGED <<registry, dispatched>>

\* Mutant: the tool call gets the status of its approval.
RequestApprovalAsPending(r) ==
  /\ pc[r] = "require_approval"
  /\ CanCreate(r)
  /\ CommitAndAnswer(r, Writes("pending", TRUE, "pending", {"pending_approval"}),
                     "pending_approval")
  /\ UNCHANGED <<registry, dispatched>>

\* Tool call with its payload, pending approval and audit event in one commit.
RequestApproval(r) ==
  /\ pc[r] = "require_approval"
  /\ CanCreate(r)
  /\ CommitAndAnswer(r, Writes("pending_approval", TRUE, "pending", {"pending_approval"}),
                     "pending_approval")
  /\ UNCHANGED <<registry, dispatched>>

FailWithoutClient(r) ==
  /\ pc[r] = "allow"
  /\ CanCreate(r)
  /\ ~McpConfigured(r)
  /\ CommitAndAnswer(r, Writes("failed", FALSE, "absent", {"failed"}), "failed")
  /\ UNCHANGED <<registry, dispatched>>

\* Mutant: the row is created when the upstream call has answered.
CallUpstreamBeforeCreate(r) ==
  /\ pc[r] = "allow"
  /\ CanCreate(r)
  /\ McpConfigured(r)
  /\ Goto(r, "awaiting")
  /\ dispatched' = dispatched \cup {r}
  /\ UNCHANGED <<dbVars, reply, registry>>

\* The EXECUTING row is flushed, not committed, and the upstream call starts.
CallUpstream(r) ==
  /\ pc[r] = "allow"
  /\ CanCreate(r)
  /\ McpConfigured(r)
  /\ Write(r, Writes("executing", FALSE, "absent", {}))
  /\ Goto(r, "awaiting")
  /\ dispatched' = dispatched \cup {r}
  /\ UNCHANGED <<reply, registry>>

\* The upstream call answers, or fails with one of the two errors the handler
\* catches (a timeout or an upstream error): both outcomes are committed.
CompleteCall(r) ==
  /\ Resumes(r, "awaiting")
  /\ \E outcome \in {"succeeded", "failed"} :
       CommitAndAnswer(r, Writes(outcome, FALSE, "absent", {outcome}), outcome)
  /\ UNCHANGED <<registry, dispatched>>

\* The upstream call ends in any other exception, or the database fails what
\* follows it: nobody catches either.
UpstreamRaises(r) ==
  /\ Resumes(r, "awaiting")
  /\ Raise(r, "internal_error")
  /\ UNCHANGED <<dbVars, registry, dispatched>>

-----------------------------------------------------------------------------
\* execute_approved_tool_call: r has won the approval of Subject(r).

\* Mutants: the payload is not cleared; the failure is not audited.
ExecutionFailedKeepsPayload == Writes("failed", TRUE, "failed", {"approved", "failed"})
ExecutionFailedUnaudited    == Writes("failed", FALSE, "failed", {"approved"})

\* _approval_execution_failed
ExecutionFailed == Writes("failed", FALSE, "failed", {"approved", "failed"})

\* The tool is still in the registry and active, and there is a client.
CanExecute(r) ==
  /\ registry[req[Subject(r)].tool].status = "active"
  /\ McpConfigured(r)

\* The upstream call answers: call, payload and approval move together.
CompleteExecution(r) ==
  /\ Resumes(r, "awaiting")
  /\ TransitionWins(r, "approved")
  /\ \/ CommitAndAnswer(r, Writes("succeeded", FALSE, "executed", {"approved", "executed"}),
                        "executed")
     \/ CommitAndAnswer(r, ExecutionFailed, "failed")
  /\ UNCHANGED <<registry, dispatched>>

-----------------------------------------------------------------------------
\* get_db_session closes the session of a handler that has raised.
Unwind(r) ==
  /\ Resumes(r, "unwinding")
  /\ Rollback({r})
  /\ Goto(r, "done")
  /\ UNCHANGED <<reply, registry, dispatched>>

ServiceInit ==
  /\ pc = [r \in Requests |-> "idle"]
  /\ reply = [r \in Requests |-> NoReply]
  /\ registry \in [Tools -> ToolRow]
  /\ dispatched = {}

ServiceTypeOK ==
  /\ pc \in [Requests -> PcValue]
  /\ reply \in [Requests -> Reply]
  /\ registry \in [Tools -> ToolRow]
  /\ dispatched \subseteq Requests
=============================================================================
