----------------------------- MODULE AgentService -----------------------------
(***************************************************************************)
(* application/services/agent_service.py under api/dependencies.py and     *)
(* api/routes/admin_agents.py: the API keys of agents, issued and disabled *)
(* by administrators and presented by agents, on several workers, each     *)
(* with an event loop, a few threads and a pool of connections             *)
(* (infrastructure/db/session.py).                                         *)
(*                                                                         *)
(* The routes of administrators are coroutines that never await: they hold *)
(* the event loop, also while they wait for a connection, a row or an      *)
(* index entry.  require_agent is a plain function: it runs, and waits, in *)
(* a thread.  What an agent's request does once it is admitted is left to  *)
(* Gateway; here it keeps its connection until it ends.                    *)
(* pc[r] is where request r stands:                                        *)
(*   idle, sent               not sent yet; waiting for the event loop     *)
(*   connect, statement, update, unchanged, commit                         *)
(*                            (loop held) an administrator's request       *)
(*   checkout, authenticate   (in a thread) require_agent                  *)
(*   raised, admitted         the event loop has to go on with it          *)
(*   upstream                 awaits the MCP server                        *)
(*   closing                  a thread closes its session                  *)
(*   respond, done, lost      its answer goes out; is out; never comes     *)
(***************************************************************************)
EXTENDS GatewayTypes, Naturals, FiniteSets

CONSTANTS
  Creations,      \* requests that create an agent
  Disablings,     \* requests that disable one
  Uses,           \* requests of agents, each with a key
  Workers,        \* gateway processes
  WorkerOf,       \* the worker that accepts each request
  Unreliable,     \* workers that may die or be failed by the database
  Tenants,
  UnknownTenant,
  AgentNames,
  NoAgent,        \* an id, or a key, of no agent
  PoolSize,       \* connections of a worker, pool_size and max_overflow together
  Threads         \* threads of a worker

Admins         == Creations \cup Disablings
AccessRequests == Admins \cup Uses

ASSUME AccessKindsDisjoint ==
  Creations \cap Disablings = {} /\ Creations \cap Uses = {} /\ Disablings \cap Uses = {}
ASSUME AccessWorkerOfType == WorkerOf \in [AccessRequests -> Workers]
ASSUME UnreliableType     == Unreliable \subseteq Workers
ASSUME NoAgentIsNone      == NoAgent \notin Creations
ASSUME UnknownTenantIsNone == UnknownTenant \notin Tenants
ASSUME PoolSizeType       == PoolSize \in Nat \ {0} /\ Threads \in Nat \ {0}

VARIABLES
  agents,  \* committed rows: the status of the agent each creation inserts, or "absent"
  wants,   \* the tenant and the name each creation asks for
  names,   \* the agent whose id a disabling names, or whose key a use presents
  pc,
  answer,  \* what each request is, or will be, answered
  pool,    \* the requests that have checked out a connection of each worker
  late     \* uses sent after the disabling of their agent had been answered

accessVars == <<agents, wants, names, pc, answer, pool, late>>

-----------------------------------------------------------------------------
\* The event loop, the threads and the pool of a worker.

LoopHeld   == {"connect", "statement", "update", "unchanged", "commit"}
InThread   == {"checkout", "authenticate"}
\* A session has its connection from its first statement until it ends.
Connected  == {"statement", "update", "unchanged", "commit", "authenticate", "admitted", "upstream"}

Of(w)  == {r \in AccessRequests : WorkerOf[r] = w}
Peers(r) == Of(WorkerOf[r])

LoopIdle(r)   == \A s \in Peers(r) : pc[s] \notin LoopHeld
ThreadFree(r) == Cardinality({s \in Peers(r) : pc[s] \in InThread}) < Threads
PoolFree(r)   == Cardinality(pool[WorkerOf[r]]) < PoolSize

Become(r, where)   == pc' = [pc EXCEPT ![r] = where]
CheckOut(r)        == pool' = [pool EXCEPT ![WorkerOf[r]] = @ \cup {r}]
Release(r)         == pool' = [pool EXCEPT ![WorkerOf[r]] = @ \ {r}]
WillAnswer(r, code) == answer' = [answer EXCEPT ![r] = code]

\* An exception, and what its handler will answer; the session is closed first.
Raise(r, where, code) == Become(r, where) /\ WillAnswer(r, code)

Answered(r, code) == pc[r] = "done" /\ answer[r] = code

\* Another transaction has inserted the same tenant and name, or updated the
\* same agent, and has not ended.
SameName(c, d)  == c # d /\ wants[c] = wants[d]
NameInserted(c) == \E d \in Creations : SameName(c, d) /\ pc[d] = "commit"
RowLocked(r)    == \E d \in Disablings \ {r} : names[d] = names[r] /\ pc[d] = "commit"

-----------------------------------------------------------------------------
\* A client sends a request.  Whoever presents the key of an agent has it from
\* the answer to its creation.
Submit(r) ==
  /\ pc[r] = "idle"
  /\ r \in Uses /\ names[r] # NoAgent => Answered(names[r], "ok")
  /\ Become(r, "sent")
  /\ late' = IF r \in Uses /\ \E d \in Disablings : names[d] = names[r] /\ Answered(d, "ok")
             THEN late \cup {r} ELSE late
  /\ UNCHANGED <<agents, wants, names, answer, pool>>

\* get_db_session and require_admin have run, each in a thread: the handler has
\* the event loop, or the administrator's token was not the configured one.
StartAdmin(r) ==
  /\ r \in Admins /\ pc[r] = "sent"
  /\ LoopIdle(r) /\ ThreadFree(r)
  /\ \/ Become(r, "connect") /\ UNCHANGED answer
     \/ Raise(r, "closing", "unauthenticated")
  /\ UNCHANGED <<agents, wants, names, pool, late>>

\* require_agent is given to a thread.
StartUse(r) ==
  /\ r \in Uses /\ pc[r] = "sent"
  /\ LoopIdle(r) /\ ThreadFree(r)
  /\ Become(r, "checkout")
  /\ UNCHANGED <<agents, wants, names, answer, pool, late>>

\* The first statement of a session takes a connection from the pool.
Connect(r) ==
  /\ pc[r] \in {"connect", "checkout"}
  /\ PoolFree(r)
  /\ CheckOut(r)
  /\ Become(r, IF pc[r] = "connect" THEN "statement" ELSE "authenticate")
  /\ UNCHANGED <<agents, wants, names, answer, late>>

\* Mutant: a pool without pool_timeout.
ConnectTimesOutNever(r) == FALSE /\ UNCHANGED accessVars

\* QueuePool waits for pool_timeout, then raises.
ConnectTimesOut(r) ==
  /\ pc[r] \in {"connect", "checkout"}
  /\ ~PoolFree(r)
  /\ Raise(r, IF pc[r] = "connect" THEN "closing" ELSE "raised", "internal_error")
  /\ UNCHANGED <<agents, wants, names, pool, late>>

-----------------------------------------------------------------------------
\* create_agent and disable_agent

\* Mutant: names are compared with the committed rows before the INSERT, and
\* there is no constraint.
InsertAgentChecksFirst(r) ==
  /\ r \in Creations /\ pc[r] = "statement"
  /\ IF wants[r].tenant = UnknownTenant
     THEN Raise(r, "closing", "tenant_not_found")
     ELSE IF \E d \in Creations : SameName(r, d) /\ agents[d] # "absent"
     THEN Raise(r, "closing", "agent_name_conflict")
     ELSE Become(r, "commit") /\ UNCHANGED answer
  /\ UNCHANGED <<agents, wants, names, pool, late>>

\* The tenant is looked up; the INSERT waits for the entry of another one in
\* uq_agents_tenant_id_name, and fails on a committed one.
InsertAgent(r) ==
  /\ r \in Creations /\ pc[r] = "statement"
  /\ IF wants[r].tenant = UnknownTenant
     THEN Raise(r, "closing", "tenant_not_found")
     ELSE IF \E d \in Creations : SameName(r, d) /\ agents[d] # "absent"
     THEN Raise(r, "closing", "agent_name_conflict")
     ELSE ~NameInserted(r) /\ Become(r, "commit") /\ UNCHANGED answer
  /\ UNCHANGED <<agents, wants, names, pool, late>>

\* get_by_id; a status that is as wanted already is not written.
SelectAgent(r) ==
  /\ r \in Disablings /\ pc[r] = "statement"
  /\ IF names[r] = NoAgent \/ agents[names[r]] = "absent"
     THEN Raise(r, "closing", "agent_not_found")
     ELSE /\ Become(r, IF agents[names[r]] = "active" THEN "update" ELSE "unchanged")
          /\ UNCHANGED answer
  /\ UNCHANGED <<agents, wants, names, pool, late>>

\* The UPDATE of the flush waits for the row.
UpdateAgent(r) ==
  /\ pc[r] = "update"
  /\ ~RowLocked(r)
  /\ Become(r, "commit")
  /\ UNCHANGED <<agents, wants, names, answer, pool, late>>

\* What the transaction of r has written.
Written(r) ==
  IF pc[r] = "unchanged" THEN agents
  ELSE IF r \in Creations THEN [agents EXCEPT ![r] = "active"]
  ELSE [agents EXCEPT ![names[r]] = "disabled"]

\* Mutants: the route that creates, or the one that disables, does not commit.
CreationNotCommitted(r) ==
  /\ pc[r] \in {"commit", "unchanged"}
  /\ agents' = IF r \in Disablings THEN Written(r) ELSE agents
  /\ Become(r, "respond")
  /\ WillAnswer(r, "ok")
  /\ Release(r)
  /\ UNCHANGED <<wants, names, late>>

DisablingNotCommitted(r) ==
  /\ pc[r] \in {"commit", "unchanged"}
  /\ agents' = IF r \in Creations THEN Written(r) ELSE agents
  /\ Become(r, "respond")
  /\ WillAnswer(r, "ok")
  /\ Release(r)
  /\ UNCHANGED <<wants, names, late>>

\* session.commit() ends the transaction and gives the connection back.
Commit(r) ==
  /\ pc[r] \in {"commit", "unchanged"}
  /\ agents' = Written(r)
  /\ Become(r, "respond")
  /\ WillAnswer(r, "ok")
  /\ Release(r)
  /\ UNCHANGED <<wants, names, late>>

\* The database fails a statement, or the connection is lost: at the commit
\* nobody can tell whether it was carried out.
DatabaseFails(r) ==
  /\ WorkerOf[r] \in Unreliable
  /\ pc[r] \in (LoopHeld \ {"connect"}) \cup {"authenticate"}
  /\ Raise(r, IF pc[r] = "authenticate" THEN "raised" ELSE "closing", "internal_error")
  /\ agents' \in (IF pc[r] = "commit" THEN {agents, Written(r)} ELSE {agents})
  /\ UNCHANGED <<wants, names, pool, late>>

-----------------------------------------------------------------------------
\* require_agent and the request it admits

\* authenticate_agent_by_api_key: the row with the hash of the key, as committed
\* at this statement.
Authenticate(r) ==
  /\ pc[r] = "authenticate"
  /\ IF names[r] = NoAgent \/ agents[names[r]] = "absent"
     THEN Raise(r, "raised", "unauthenticated")
     ELSE IF agents[names[r]] = "disabled"
     THEN Raise(r, "raised", "agent_disabled")
     ELSE Become(r, "admitted") /\ UNCHANGED answer
  /\ UNCHANGED <<agents, wants, names, pool, late>>

\* The event loop has the exception of require_agent.
Unwind(r) ==
  /\ pc[r] = "raised"
  /\ LoopIdle(r)
  /\ Become(r, "closing")
  /\ UNCHANGED <<agents, wants, names, answer, pool, late>>

\* The handler runs: it answers, and the session is closed after the answer, or
\* it awaits the MCP server.
Handle(r) ==
  /\ pc[r] = "admitted"
  /\ LoopIdle(r)
  /\ \/ Become(r, "closing") /\ WillAnswer(r, "ok")
     \/ Become(r, "upstream") /\ UNCHANGED answer
  /\ UNCHANGED <<agents, wants, names, pool, late>>

\* The MCP server has answered, or has not in time, and call_tool commits; or an
\* exception nobody catches, of the client or of the database, ends the handler.
Resume(r) ==
  /\ pc[r] = "upstream"
  /\ LoopIdle(r)
  /\ \/ Become(r, "done") /\ WillAnswer(r, "ok") /\ Release(r)
     \/ Raise(r, "closing", "internal_error") /\ UNCHANGED pool
  /\ UNCHANGED <<agents, wants, names, late>>

\* Mutant: the session is left open.
CloseLeaks(r) ==
  /\ pc[r] = "closing"
  /\ Become(r, "done")
  /\ UNCHANGED <<agents, wants, names, answer, pool, late>>

\* The exit of get_db_session rolls back, in a thread that is not counted; the
\* answer is out before, or goes out now: nothing else is held.
Close(r) ==
  /\ pc[r] = "closing"
  /\ Become(r, "done")
  /\ Release(r)
  /\ UNCHANGED <<agents, wants, names, answer, late>>

\* What an administrator has been told is out of the worker.
Respond(r) ==
  /\ pc[r] = "respond"
  /\ LoopIdle(r)
  /\ Become(r, "done")
  /\ UNCHANGED <<agents, wants, names, answer, pool, late>>

-----------------------------------------------------------------------------
\* A worker dies, its connections with it, and is started again.
Crash(w) ==
  /\ \E r \in Of(w) : pc[r] \notin {"idle", "done", "lost"}
  /\ pc' = [r \in AccessRequests |->
              IF r \in Of(w) /\ pc[r] \notin {"idle", "done"} THEN "lost" ELSE pc[r]]
  /\ pool' = [pool EXCEPT ![w] = {}]
  /\ UNCHANGED <<agents, wants, names, answer, late>>

Ended(r) == pc[r] \in {"done", "lost"}

AllEnded == (\A r \in AccessRequests : pc[r] = "idle" \/ Ended(r)) /\ UNCHANGED accessVars

Step(r) == \/ StartAdmin(r) \/ StartUse(r) \/ Connect(r) \/ ConnectTimesOut(r)
           \/ InsertAgent(r) \/ SelectAgent(r) \/ UpdateAgent(r) \/ Commit(r)
           \/ Authenticate(r) \/ Unwind(r) \/ Handle(r) \/ Resume(r) \/ Close(r) \/ Respond(r)

AccessInit ==
  /\ agents = [c \in Creations |-> "absent"]
  /\ wants \in [Creations -> [tenant : Tenants \cup {UnknownTenant}, name : AgentNames]]
  /\ names \in [Disablings \cup Uses -> Creations \cup {NoAgent}]
  /\ pc = [r \in AccessRequests |-> "idle"]
  /\ answer = [r \in AccessRequests |-> "none"]
  /\ pool = [w \in Workers |-> {}]
  /\ late = {}

AccessNext == \/ \E r \in AccessRequests : Submit(r) \/ Step(r) \/ DatabaseFails(r)
              \/ \E w \in Unreliable : Crash(w)
              \/ AllEnded

\* A worker runs what it can, a thread that waits is given up on, a statement
\* comes back, and the MCP client has a timeout: no request stands still for ever.
AccessFairness == \A r \in AccessRequests : WF_accessVars(Step(r))

AccessSpec == AccessInit /\ [][AccessNext]_accessVars /\ AccessFairness

-----------------------------------------------------------------------------
Places  == {"idle", "sent", "raised", "closing", "respond", "done", "lost"}
             \cup LoopHeld \cup InThread \cup Connected
Answers == {"none", "ok", "tenant_not_found", "agent_name_conflict", "agent_not_found",
            "unauthenticated", "agent_disabled", "internal_error"}

AccessTypeOK ==
  /\ agents \in [Creations -> {"absent", "active", "disabled"}]
  /\ wants \in [Creations -> [tenant : Tenants \cup {UnknownTenant}, name : AgentNames]]
  /\ names \in [Disablings \cup Uses -> Creations \cup {NoAgent}]
  /\ pc \in [AccessRequests -> Places]
  /\ answer \in [AccessRequests -> Answers]
  /\ pool \in [Workers -> {held \in SUBSET AccessRequests : IsFiniteSet(held)}]
  /\ late \subseteq Uses

\* No path through a request loses a connection: those checked out are the ones of
\* sessions that are open and have sent a statement, and the pool is never overdrawn
\* (get_db_session closes the session however the request ends).
NoConnectionLeaks ==
  \A w \in Workers :
    /\ \A r \in Of(w) : pc[r] \in Connected => r \in pool[w]
    /\ \A r \in pool[w] : r \in Of(w) /\ pc[r] \in Connected \cup {"raised", "closing"}
    /\ Cardinality(pool[w]) <= PoolSize

\* Where requests of each kind can stand.
PlacesFollow ==
  /\ \A c \in Creations : pc[c] \notin {"update", "unchanged"}
  /\ \A r \in Admins    : pc[r] \notin InThread \cup {"raised", "admitted", "upstream"}
  /\ \A u \in Uses      : pc[u] \notin LoopHeld \cup {"respond"}

\* What a request has written or is about to write, and what it has been answered.
AnswersFollow ==
  /\ \A r \in AccessRequests :
       pc[r] \in {"idle", "sent", "admitted", "upstream"} \cup LoopHeld \cup InThread => answer[r] = "none"
  /\ \A c \in Creations :
       /\ answer[c] = "ok" => agents[c] # "absent"
       /\ answer[c] = "agent_name_conflict" =>
            agents[c] = "absent" /\ \E d \in Creations : SameName(c, d) /\ agents[d] # "absent"
  /\ \A d \in Disablings :
       /\ pc[d] \in {"update", "commit"} => names[d] # NoAgent /\ agents[names[d]] # "absent"
       /\ pc[d] = "unchanged" \/ answer[d] = "ok" =>
            names[d] # NoAgent /\ agents[names[d]] = "disabled"
  /\ \A u \in Uses :
       /\ pc[u] # "idle" /\ names[u] # NoAgent => agents[names[u]] # "absent"
       /\ answer[u] = "unauthenticated" => names[u] = NoAgent
       /\ answer[u] = "agent_disabled" => \E d \in Disablings : names[d] = names[u] /\ pc[d] # "idle"
       /\ u \in late => names[u] # NoAgent /\ agents[names[u]] = "disabled"

\* At most one agent of a name is there or about to be committed: the unique
\* constraint at work on two workers. An agent is disabled because somebody asked.
AgentsInv ==
  \A c \in Creations :
    /\ agents[c] # "absent" => pc[c] \notin {"idle", "sent"} \cup LoopHeld
    /\ agents[c] # "absent" \/ pc[c] = "commit" =>
         \A d \in Creations : SameName(c, d) => agents[d] = "absent" /\ pc[d] # "commit"
    /\ agents[c] = "disabled" => \E d \in Disablings : names[d] = c /\ pc[d] # "idle"

Admitted(r) == pc[r] \in {"admitted", "upstream"} \/ answer[r] = "ok"

\* Once an administrator has been told that an agent is disabled, no request sent
\* afterwards with its key is admitted, by any worker (disable_agent commits before
\* it answers, authenticate_agent_by_api_key reads the row for every request).
DisableIsEffective == \A u \in late : ~Admitted(u)

\* What administrators are told holds: an agent reported as created exists, alone
\* under its name in its tenant; a name reported as taken is taken; and an agent
\* reported as disabled stays so (create_agent, uq_agents_tenant_id_name).
AdminAnswersTrue ==
  /\ \A c \in Creations :
       /\ Answered(c, "ok") => /\ agents[c] # "absent"
                               /\ \A d \in Creations : SameName(c, d) => agents[d] = "absent"
       /\ Answered(c, "agent_name_conflict") =>
            agents[c] = "absent" /\ \E d \in Creations : SameName(c, d) /\ agents[d] # "absent"
  /\ \A d \in Disablings : Answered(d, "ok") => agents[names[d]] = "disabled"

\* A key that was given out works until its agent is disabled: it is never unknown,
\* and it is refused as disabled only if somebody asked for that.
KeysWork ==
  \A u \in Uses :
    /\ Answered(u, "unauthenticated") => names[u] = NoAgent
    /\ Answered(u, "agent_disabled") => \E d \in Disablings : names[d] = names[u] /\ pc[d] # "idle"

\* The invariant the three promises rest on.
AccessInv == /\ AccessTypeOK
             /\ NoConnectionLeaks
             /\ PlacesFollow
             /\ AnswersFollow
             /\ AgentsInv
             /\ DisableIsEffective
             /\ AdminAnswersTrue
             /\ KeysWork

\* Every request sent is answered, or its worker dies: although an administrator's
\* request waits for a connection on the event loop that those who hold one need
\* to go on, the timeout of the pool ends every such wait.
EveryAccessEnds == \A r \in AccessRequests : pc[r] = "sent" ~> Ended(r)
=============================================================================
