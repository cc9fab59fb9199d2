----------------------------- MODULE ToolRegistry -----------------------------
(***************************************************************************)
(* application/services/tool_registry_service.py under the routes of       *)
(* api/routes/admin_tools.py: the definitions of the tools of one server,  *)
(* written by refreshes (what the MCP server announces) and by PATCHes     *)
(* (what administrators decide), on several workers.                       *)
(*                                                                         *)
(* A definition is read, compared in memory with what is wanted, and       *)
(* written in a later statement that sets only the columns whose value     *)
(* differs from the one READ.  Other transactions may commit in between.   *)
(* pc[r] is where the handler of request r stands:                         *)
(*   idle, queued   not sent yet; sent, waiting for the event loop         *)
(*   listing        a refresh awaits the MCP server, the loop is free      *)
(*   select, write  (loop held) a refresh is about to read, or to write,   *)
(*                  the definition of the next tool announced              *)
(*   patch          (loop held) a PATCH has read its definition            *)
(*   answered, refused                                                     *)
(***************************************************************************)
EXTENDS GatewayTypes, Naturals, Sequences

CONSTANTS
  Creations,     \* requests that create the tool server
  Refreshes,     \* requests that refresh its tools
  Patches,       \* requests that PATCH one definition
  Workers,       \* gateway processes
  WorkerOf,      \* the worker that accepts each request
  ToolNames,
  Schemas,       \* input schemas; a hash is named by the schema it is of
  LooselyEqual,  \* pairs of schemas equal for Python, not as JSON (1 and true)
  Discoveries,   \* what an MCP server may announce: lists of names with schemas
  Unset,         \* a field a PATCH leaves out
  NoTool         \* no such row

RegistryRequests == Creations \cup Refreshes \cup Patches

Definition == [status : EntityStatus, risk : RiskLevel, schema : Schemas, hash : Schemas]
Discovered == [name : ToolNames, schema : Schemas]
Update     == [tool : ToolNames, status : EntityStatus \cup {Unset}, risk : RiskLevel \cup {Unset}]

ASSUME KindsDisjoint ==
  Creations \cap Refreshes = {} /\ Creations \cap Patches = {} /\ Refreshes \cap Patches = {}
ASSUME RegistryWorkerOfType == WorkerOf \in [RegistryRequests -> Workers]
ASSUME LooselyEqualType     == LooselyEqual \subseteq Schemas \X Schemas
ASSUME UnsetIsNoValue       == Unset \notin EntityStatus \cup RiskLevel
ASSUME NoToolIsNoRow        == NoTool \notin Definition
\* An MCP server announces a name once.
ASSUME DiscoveriesType ==
  /\ Discoveries \subseteq Seq(Discovered)
  /\ \A list \in Discoveries : \A i, j \in 1 .. Len(list) :
       list[i].name = list[j].name => i = j

VARIABLES
  server,  \* tool_servers: the one server, "absent" or its status
  defs,    \* tool_definitions: the committed row of each tool
  ask,     \* what each PATCH asks for
  pc,
  listed,  \* what each refresh was told by the MCP server
  next,    \* the place in that list
  seen,    \* the row each handler has read
  writes   \* what each refresh has written to each row and not committed

registryVars == <<server, defs, ask, pc, listed, next, seen, writes>>

-----------------------------------------------------------------------------
\* Sessions and rows

Columns == {"status", "risk", "schema", "hash"}

\* Columns set, and the row they are set from.
Untouched    == [cols |-> {}, row |-> NoTool]
NothingYet   == [t \in ToolNames |-> Untouched]
Uncommitted  == [cols : SUBSET Columns, row : Definition \cup {NoTool}]

\* The row after an INSERT or UPDATE that sets the columns of w.
RowAfter(row, w) ==
  IF w.cols = {} THEN row
  ELSE IF w.cols = Columns THEN w.row
  ELSE [status |-> IF "status" \in w.cols THEN w.row.status ELSE row.status,
        risk   |-> IF "risk"   \in w.cols THEN w.row.risk   ELSE row.risk,
        schema |-> IF "schema" \in w.cols THEN w.row.schema ELSE row.schema,
        hash   |-> IF "hash"   \in w.cols THEN w.row.hash   ELSE row.hash]

\* Another transaction has inserted or updated the row and has not ended: an
\* UPDATE waits for its row lock, an INSERT for its entry in the unique index.
Locked(r, t) == \E s \in Refreshes \ {r} : writes[s][t].cols # {}

LoopHeld == {"select", "write", "patch"}

\* Mutant: the handler blocks on the answer of the MCP server, on the loop that
\* has to receive it.
ProceedsBlocking(r, at) ==
  /\ pc[r] = at
  /\ at \in LoopHeld \/ \A s \in RegistryRequests :
       WorkerOf[s] = WorkerOf[r] => pc[s] \notin LoopHeld \cup {"listing"}

\* The handler goes on at `at`: after an await, when the loop is idle.
Proceeds(r, at) ==
  /\ pc[r] = at
  /\ at \in LoopHeld \/ \A s \in RegistryRequests : WorkerOf[s] = WorkerOf[r] => pc[s] \notin LoopHeld

Become(r, where) == pc' = [pc EXCEPT ![r] = where]

\* An exception leaves the handler: the transaction is rolled back.
Refuse(r) ==
  /\ Become(r, "refused")
  /\ writes' = [writes EXCEPT ![r] = NothingYet]
  /\ UNCHANGED <<server, defs, listed, next, seen>>

-----------------------------------------------------------------------------
\* create_tool_server

\* One statement and the commit, nothing in between; the loser of two creations
\* finds the unique constraint and answers with a conflict.
CreateToolServer(r) ==
  /\ Proceeds(r, "queued")
  /\ IF server = "absent" THEN /\ server' = "active"
                               /\ Become(r, "answered")
                               /\ UNCHANGED <<defs, listed, next, seen, writes>>
                          ELSE Refuse(r)

-----------------------------------------------------------------------------
\* refresh_tools

\* The server row is read, then the MCP server is asked.
StartRefresh(r) ==
  /\ Proceeds(r, "queued")
  /\ IF server = "active" THEN /\ Become(r, "listing")
                               /\ UNCHANGED <<server, defs, listed, next, seen, writes>>
                          ELSE Refuse(r)

ListToolsFails(r) == Proceeds(r, "listing") /\ Refuse(r)

ListTools(r) ==
  /\ Proceeds(r, "listing")
  /\ \E list \in Discoveries : listed' = [listed EXCEPT ![r] = list]
  /\ next' = [next EXCEPT ![r] = 1]
  /\ Become(r, "select")
  /\ UNCHANGED <<server, defs, seen, writes>>

\* The tool announced at the place the refresh has come to.
Current(r) == listed[r][next[r]]

\* get_by_name
SelectTool(r) ==
  /\ Proceeds(r, "select")
  /\ next[r] <= Len(listed[r])
  /\ seen' = [seen EXCEPT ![r] = defs[Current(r).name]]
  /\ Become(r, "write")
  /\ UNCHANGED <<server, defs, listed, next, writes>>

\* The statement of refresh r for its current tool returns.
Flush(r, w) ==
  /\ writes' = [writes EXCEPT ![r][Current(r).name] = w]
  /\ next' = [next EXCEPT ![r] = next[r] + 1]
  /\ Become(r, "select")
  /\ UNCHANGED <<server, defs, listed, seen>>

\* A tool not seen before is inserted disabled and critical.
RegisterTool(r) ==
  /\ Proceeds(r, "write")
  /\ seen[r] = NoTool
  /\ LET d == Current(r)
     IN  /\ ~Locked(r, d.name)
         /\ defs[d.name] = NoTool
         /\ Flush(r, [cols |-> Columns,
                      row  |-> [status |-> "disabled", risk |-> "critical",
                                schema |-> d.schema, hash |-> d.schema]])

\* Mutant: the failed flush leaves its transaction open.
RegisterFailsKeepsLocks(r) ==
  /\ Proceeds(r, "write")
  /\ seen[r] = NoTool
  /\ ~Locked(r, Current(r).name)
  /\ defs[Current(r).name] # NoTool
  /\ Become(r, "refused")
  /\ UNCHANGED <<server, defs, listed, next, seen, writes>>

\* IntegrityError: another refresh has registered the tool meanwhile.
RegisterFails(r) ==
  /\ Proceeds(r, "write")
  /\ seen[r] = NoTool
  /\ ~Locked(r, Current(r).name)
  /\ defs[Current(r).name] # NoTool
  /\ Refuse(r)

\* SQLAlchemy sets a column only if the new value differs, as Python compares,
\* from the one that was read.
Changed(d, row) ==
  {c \in {"schema"} : d.schema # row.schema /\ <<d.schema, row.schema>> \notin LooselyEqual}
    \cup {c \in {"hash"} : d.schema # row.hash}

\* Mutant: the row is saved as it was read, with all its columns.
UpdateToolSavesRow(r) ==
  /\ Proceeds(r, "write")
  /\ seen[r] # NoTool
  /\ LET d == Current(r)
     IN  /\ ~Locked(r, d.name)
         /\ Flush(r, [cols |-> Columns,
                      row  |-> [seen[r] EXCEPT !.schema = d.schema, !.hash = d.schema]])

\* Mutant: the hash stays that of the first registration.
UpdateToolKeepsHash(r) ==
  /\ Proceeds(r, "write")
  /\ seen[r] # NoTool
  /\ LET d    == Current(r)
         cols == Changed(d, seen[r]) \ {"hash"}
     IN  /\ cols # {} => ~Locked(r, d.name)
         /\ Flush(r, IF cols = {} THEN Untouched
                     ELSE [cols |-> cols, row |-> [seen[r] EXCEPT !.schema = d.schema]])

\* A known tool gets the announced schema and its hash, nothing else.
UpdateTool(r) ==
  /\ Proceeds(r, "write")
  /\ seen[r] # NoTool
  /\ LET d    == Current(r)
         cols == Changed(d, seen[r])
     IN  /\ cols # {} => ~Locked(r, d.name)
         /\ Flush(r, IF cols = {} THEN Untouched
                     ELSE [cols |-> cols,
                           row  |-> [seen[r] EXCEPT !.schema = d.schema, !.hash = d.schema]])

\* Mutant: the last tool announced is left out.
CommitRefreshEarly(r) ==
  /\ Proceeds(r, "select")
  /\ next[r] >= Len(listed[r])
  /\ defs' = [t \in ToolNames |-> RowAfter(defs[t], writes[r][t])]
  /\ writes' = [writes EXCEPT ![r] = NothingYet]
  /\ Become(r, "answered")
  /\ UNCHANGED <<server, listed, next, seen>>

\* Everything announced has been flushed; the route commits.
CommitRefresh(r) ==
  /\ Proceeds(r, "select")
  /\ next[r] > Len(listed[r])
  /\ defs' = [t \in ToolNames |-> RowAfter(defs[t], writes[r][t])]
  /\ writes' = [writes EXCEPT ![r] = NothingYet]
  /\ Become(r, "answered")
  /\ UNCHANGED <<server, listed, next, seen>>

\* The statement of refresh r has to wait for a row that refresh s has written.
WaitsFor(r, s) ==
  /\ pc[r] = "write"
  /\ s # r
  /\ writes[s][Current(r).name].cols # {}
  /\ seen[r] # NoTool => Changed(Current(r), seen[r]) # {}

\* Two refreshes that write the same tools in different orders wait for each
\* other; PostgreSQL aborts a transaction of every such cycle.
DeadlockVictim(r) ==
  /\ \E cycle \in SUBSET Refreshes :
       /\ r \in cycle
       /\ \A s \in cycle : \E u \in cycle : WaitsFor(s, u)
       /\ \A u \in cycle : \E s \in cycle : WaitsFor(s, u)
  /\ Refuse(r)

-----------------------------------------------------------------------------
\* update_tool_definition

StartPatch(p) ==
  /\ Proceeds(p, "queued")
  /\ LET row == defs[ask[p].tool]
     IN  IF row = NoTool
         THEN Refuse(p)
         ELSE /\ seen' = [seen EXCEPT ![p] = row]
              /\ Become(p, "patch")
              /\ UNCHANGED <<server, defs, listed, next, writes>>

\* The fields a PATCH names and finds different from the row it read.
ToSet(p) ==
  {c \in {"status"} : ask[p].status \notin {Unset, seen[p].status}}
    \cup {c \in {"risk"} : ask[p].risk \notin {Unset, seen[p].risk}}

\* The UPDATE, once no refresh holds the row, and the commit.
UpdateToolDefinition(p) ==
  /\ Proceeds(p, "patch")
  /\ LET t == ask[p].tool
     IN  /\ ToSet(p) # {} => ~Locked(p, t)
         /\ defs' = [defs EXCEPT ![t].status = IF "status" \in ToSet(p) THEN ask[p].status ELSE @,
                                 ![t].risk   = IF "risk"   \in ToSet(p) THEN ask[p].risk   ELSE @]
  /\ Become(p, "answered")
  /\ UNCHANGED <<server, listed, next, seen, writes>>

-----------------------------------------------------------------------------
\* Rows there were before: registered by an earlier refresh, perhaps enabled.
RegistryInit ==
  /\ server \in {"absent", "active"}
  /\ defs \in [ToolNames -> Definition \cup {NoTool}]
  /\ \A t \in ToolNames : defs[t] # NoTool => /\ server = "active"
                                              /\ defs[t].hash = defs[t].schema
  /\ ask \in [Patches -> Update]
  /\ pc = [r \in RegistryRequests |-> "idle"]
  /\ listed = [r \in Refreshes |-> <<>>]
  /\ next = [r \in Refreshes |-> 1]
  /\ seen = [r \in Refreshes \cup Patches |-> NoTool]
  /\ writes = [r \in RegistryRequests |-> NothingYet]

Send(r) ==
  /\ pc[r] = "idle"
  /\ Become(r, "queued")
  /\ UNCHANGED <<server, defs, listed, next, seen, writes>>

Refresh(r) == \/ StartRefresh(r)  \/ ListToolsFails(r) \/ ListTools(r)
              \/ SelectTool(r)    \/ RegisterTool(r)   \/ RegisterFails(r)
              \/ UpdateTool(r)    \/ CommitRefresh(r)  \/ DeadlockVictim(r)

Patch(p) == StartPatch(p) \/ UpdateToolDefinition(p)

Handle(r) == \/ r \in Creations /\ CreateToolServer(r)
             \/ r \in Refreshes /\ Refresh(r)
             \/ r \in Patches   /\ Patch(r)

AllAnswered == (\A r \in RegistryRequests : pc[r] \in {"answered", "refused"})
                 /\ UNCHANGED registryVars

RegistryNext ==
  \/ \E r \in RegistryRequests : (Send(r) \/ Handle(r)) /\ UNCHANGED ask
  \/ AllAnswered

\* No handler waits for a lock whose holder needs anything but its own worker:
\* the loop, the lock manager and the timeout of list_tools serve all in turn.
RegistryFairness == \A r \in RegistryRequests : WF_registryVars(Handle(r) /\ UNCHANGED ask)

RegistrySpec == RegistryInit /\ [][RegistryNext]_registryVars

FairRegistrySpec == RegistrySpec /\ RegistryFairness

-----------------------------------------------------------------------------
PcValue == {"idle", "queued", "listing", "answered", "refused"} \cup LoopHeld

RegistryTypeOK ==
  /\ server \in {"absent", "active"}
  /\ defs \in [ToolNames -> Definition \cup {NoTool}]
  /\ ask \in [Patches -> Update]
  /\ pc \in [RegistryRequests -> PcValue]
  /\ listed \in [Refreshes -> Seq(Discovered)]
  /\ next \in [Refreshes -> Nat \ {0}]
  /\ seen \in [Refreshes \cup Patches -> Definition \cup {NoTool}]
  /\ writes \in [RegistryRequests -> [ToolNames -> Uncommitted]]

-----------------------------------------------------------------------------
\* Why the statements are safe

\* A row is written by one open transaction at a time.
LocksExclusive ==
  \A r, s \in RegistryRequests, t \in ToolNames :
    writes[r][t].cols # {} /\ writes[s][t].cols # {} => r = s

\* Only refreshes at work hold writes: new rows, closed to agents, or schemas
\* of rows that exist.
WritesFit ==
  \A r \in RegistryRequests, t \in ToolNames :
    LET w == writes[r][t]
    IN  w.cols # {} =>
          /\ r \in Refreshes
          /\ pc[r] \in {"select", "write"}
          /\ w.row # NoTool
          /\ \/ /\ w.cols = Columns
                /\ defs[t] = NoTool
                /\ w.row.status = "disabled" /\ w.row.risk = "critical"
             \/ /\ w.cols \subseteq {"schema", "hash"}
                /\ defs[t] # NoTool

\* What a handler holds of a row it has read is about a row that still exists.
SeenExists ==
  /\ \A r \in Refreshes : pc[r] = "write" =>
       /\ next[r] <= Len(listed[r])
       /\ seen[r] # NoTool => defs[Current(r).name] # NoTool
  /\ \A p \in Patches : pc[p] = "patch" => seen[p] # NoTool /\ defs[ask[p].tool] # NoTool

\* The tools a refresh is done with exist, or will with its commit.
DoneAreRegistered ==
  \A r \in Refreshes : pc[r] \in {"select", "write"} =>
    \A i \in 1 .. Len(listed[r]) : i < next[r] =>
      LET t == listed[r][i].name
      IN  defs[t] # NoTool \/ writes[r][t].cols = Columns

-----------------------------------------------------------------------------
\* A refresh that answers has registered every tool it was told of, though
\* others registered some of them meanwhile (refresh_tools).
RefreshRegistersAll ==
  \A r \in Refreshes : pc[r] = "answered" =>
    \A i \in 1 .. Len(listed[r]) : defs[listed[r][i].name] # NoTool

\* docs/security-model.md:76, "Refresh updates description, input schema, and
\* schema hash": the hash on record is that of the schema on record, whatever
\* refreshes overtake each other between their reads and their writes
\* (refresh_tools, schema_hash_for).  It needs schemas that Python tells apart.
HashMatchesSchema ==
  \A t \in ToolNames : defs[t] # NoTool => defs[t].hash = defs[t].schema

\* The inductive invariant.
RegistryInv ==
  /\ RegistryTypeOK
  /\ LocksExclusive
  /\ WritesFit
  /\ SeenExists
  /\ DoneAreRegistered
  /\ RefreshRegistersAll

\* PATCH p is answered by this step.
Answers(p) == pc[p] # "answered" /\ pc'[p] = "answered"

\* Whether and at what risk agents can call a tool is decided by administrators
\* alone: a tool is registered disabled and critical, and its status or risk
\* level changes only to what a PATCH answered in that step names.  No refresh
\* overwrites them, however old the row it has read (refresh_tools).
OnlyAdminsClassify ==
  [][\A t \in ToolNames :
       /\ defs[t] = NoTool /\ defs'[t] # NoTool =>
            defs'[t].status = "disabled" /\ defs'[t].risk = "critical"
       /\ defs[t] # NoTool =>
            /\ defs'[t] # NoTool
            /\ defs'[t].status # defs[t].status =>
                 \E p \in Patches : Answers(p) /\ ask[p].tool = t /\ ask[p].status = defs'[t].status
            /\ defs'[t].risk # defs[t].risk =>
                 \E p \in Patches : Answers(p) /\ ask[p].tool = t /\ ask[p].risk = defs'[t].risk
    ]_registryVars

\* Every request of an administrator is answered, though handlers share event
\* loops and wait for each other's rows (get_db_session, asyncio).
RequestsEnd == \A r \in RegistryRequests : pc[r] = "queued" ~> pc[r] \in {"answered", "refused"}
===============================================================================
