------------------------------ MODULE GatewayDb ------------------------------
(***************************************************************************)
(* The PostgreSQL tables the tool-call and approval handlers share, and    *)
(* the transactions they are written through.                              *)
(*                                                                         *)
(* Every HTTP request gets one SQLAlchemy session, hence one READ          *)
(* COMMITTED transaction: what it writes is private until the route calls  *)
(* session.commit(), an exception closes the session and rolls it back.    *)
(* Its private writes are txn[r].  Two things of the database matter       *)
(* besides visibility, because they make a request WAIT: the unique index  *)
(* on (tenant, agent, idempotency key) and the row lock an UPDATE of an    *)
(* approval row takes.                                                     *)
(*                                                                         *)
(* A tool-call row and its approval row are both named by the call request *)
(* that creates them: a request creates at most one of each.               *)
(***************************************************************************)
EXTENDS GatewayTypes

CONSTANTS CallReqs,    \* POST /v1/tool-calls requests
          ReviewReqs,  \* approve and deny requests of administrators
          Agents,      \* agents (with their tenant)
          Keys,        \* idempotency keys
          NoKey,       \* the request carries no idempotency key
          Tools,       \* (target_server, target_tool) pairs
          Args         \* arguments, told apart by their canonical hash

ASSUME RequestsDisjoint == CallReqs \cap ReviewReqs = {}
ASSUME NoKeyIsNoKey     == NoKey \notin Keys

Requests == CallReqs \cup ReviewReqs

VARIABLES
  req,        \* [CallReqs -> what the agent's request asks for]
  review,     \* [ReviewReqs -> what the administrator's request asks for]
  calls,      \* tool_calls, committed: status and arguments_payload
  approvals,  \* approval_requests.status, committed
  audit,      \* audit_events, committed: the statuses request r recorded
  txn         \* the uncommitted writes of request r's session

dbVars == <<calls, approvals, audit, txn>>

CallRequest   == [agent : Agents, key : Keys \cup {NoKey}, tool : Tools, args : Args]
ReviewRequest == [target : CallReqs, verb : {"approve", "deny"}]

NoRow == [status |-> "absent", payload |-> FALSE]
Row   == [status : ToolCallStatus, payload : BOOLEAN]

EmptyTxn == [row |-> NoRow, approval |-> "absent", audit |-> {}]
Txn      == [row      : Row \cup {NoRow},
             approval : ApprovalStatus \cup {"absent"},
             audit    : SUBSET AuditStatus]

\* The call whose rows request r writes: its own, or the one under review.
Subject(r) == IF r \in CallReqs THEN r ELSE review[r].target

\* The two calls collide on the unique index.
SameKey(c, d) == /\ req[c].key # NoKey
                 /\ req[c].key = req[d].key
                 /\ req[c].agent = req[d].agent

\* get_by_idempotency_key: the committed rows request c finds under its key.
FoundByKey(c) == {d \in CallReqs : SameKey(c, d) /\ calls[d].status # "absent"}

\* An INSERT with c's key waits for another transaction that wrote a row with
\* the same key, until that one commits or rolls back.
InsertBlocked(c) ==
  \E r \in Requests \ {c} : SameKey(c, Subject(r)) /\ txn[r].row # NoRow

\* An UPDATE of the approval of call c by request r waits for another
\* transaction that has updated the row.
UpdateBlocked(r, c) ==
  \E s \in Requests \ {r} : Subject(s) = c /\ txn[s].approval # "absent"

\* The status of the approval under r's statements: its own write, else the
\* committed row (READ COMMITTED re-evaluates the WHERE clause after a wait).
VisibleApproval(r) ==
  IF txn[r].approval # "absent" THEN txn[r].approval ELSE approvals[Subject(r)]

\* Mutant: the UPDATE has lost its condition on the status.
TransitionAlwaysWins(r, expected) == expected \notin TerminalStatuses

\* transition_status: the conditional UPDATE ... RETURNING finds the row.
TransitionWins(r, expected) ==
  /\ expected \notin TerminalStatuses
  /\ VisibleApproval(r) = expected

\* Flushed but not committed: only r's own statements see it.
Write(r, writes) ==
  /\ txn' = [txn EXCEPT ![r] = writes]
  /\ UNCHANGED <<calls, approvals, audit>>

\* session.commit() when the session has made exactly these writes.
Commit(r, writes) ==
  /\ calls' = IF writes.row = NoRow THEN calls
              ELSE [calls EXCEPT ![Subject(r)] = writes.row]
  /\ approvals' = IF writes.approval = "absent" THEN approvals
                  ELSE [approvals EXCEPT ![Subject(r)] = writes.approval]
  /\ audit' = [audit EXCEPT ![r] = writes.audit]
  /\ txn' = [txn EXCEPT ![r] = EmptyTxn]

\* The session is closed without a commit.
Rollback(R) ==
  /\ txn' = [r \in Requests |-> IF r \in R THEN EmptyTxn ELSE txn[r]]
  /\ UNCHANGED <<calls, approvals, audit>>

DbInit ==
  /\ req \in [CallReqs -> CallRequest]
  /\ review \in [ReviewReqs -> ReviewRequest]
  /\ calls = [c \in CallReqs |-> NoRow]
  /\ approvals = [c \in CallReqs |-> "absent"]
  /\ audit = [r \in Requests |-> {}]
  /\ txn = [r \in Requests |-> EmptyTxn]

DbTypeOK ==
  /\ req \in [CallReqs -> CallRequest]
  /\ review \in [ReviewReqs -> ReviewRequest]
  /\ calls \in [CallReqs -> Row \cup {NoRow}]
  /\ approvals \in [CallReqs -> ApprovalStatus \cup {"absent"}]
  /\ audit \in [Requests -> SUBSET AuditStatus]
  /\ txn \in [Requests -> Txn]
=============================================================================
