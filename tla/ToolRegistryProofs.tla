-------------------------- MODULE ToolRegistryProofs --------------------------
(***************************************************************************)
(* Theorems about ToolRegistry for any number of requests, workers, tools  *)
(* and schemas, and any lists of tools an MCP server announces.            *)
(***************************************************************************)
EXTENDS ToolRegistry, TLAPS

\* Facts about the kinds of requests that every step needs.
LEMMA Kinds ==
  /\ Creations \subseteq RegistryRequests
  /\ Refreshes \subseteq RegistryRequests
  /\ Patches \subseteq RegistryRequests
  /\ \A p \in Patches : p \notin Refreshes /\ p \notin Creations
  /\ \A r \in Refreshes : r \notin Creations
  /\ NothingYet \in [ToolNames -> Uncommitted]
  /\ \A t \in ToolNames : NothingYet[t].cols = {}
<1>1. Untouched \in Uncommitted /\ Untouched.cols = {}
  BY DEF Untouched, Uncommitted
<1> QED
  BY <1>1, KindsDisjoint DEF RegistryRequests, NothingYet

\* What the MCP server announces are names of tools.
LEMMA ListedNames ==
  ASSUME RegistryTypeOK, NEW s \in Refreshes, NEW i \in 1 .. Len(listed[s])
  PROVE  listed[s][i].name \in ToolNames
<1>1. listed[s] \in Seq(Discovered)
  BY DEF RegistryTypeOK
<1>2. listed[s][i] \in Discovered
  BY <1>1
<1> QED
  BY <1>2 DEF Discovered

\* So is the tool a refresh has come to.
LEMMA CurrentListed ==
  ASSUME RegistryTypeOK, NEW r \in Refreshes, next[r] <= Len(listed[r])
  PROVE  Current(r) \in Discovered /\ Current(r).name \in ToolNames
<1>1. next[r] \in Nat \ {0} /\ listed[r] \in Seq(Discovered)
  BY DEF RegistryTypeOK
<1>2. next[r] \in 1 .. Len(listed[r])
  BY <1>1
<1>3. listed[r][next[r]] \in Discovered
  BY <1>1, <1>2
<1> QED
  BY <1>3 DEF Current, Discovered

\* The invariant holds at the start.
LEMMA RegistryInvInit == RegistryInit => RegistryInv
<1> SUFFICES ASSUME RegistryInit PROVE RegistryInv
  OBVIOUS
<1>1. RegistryTypeOK
  BY Kinds DEF RegistryInit, RegistryTypeOK, PcValue
<1>2. \A r \in RegistryRequests, t \in ToolNames : writes[r][t].cols = {}
  BY Kinds DEF RegistryInit
<1>3. \A r \in RegistryRequests : pc[r] = "idle"
  BY DEF RegistryInit
<1>4. LocksExclusive /\ WritesFit
  BY <1>2 DEF LocksExclusive, WritesFit
<1>5. SeenExists /\ DoneAreRegistered /\ RefreshRegistersAll
  BY <1>3, Kinds DEF SeenExists, DoneAreRegistered, RefreshRegistersAll
<1> QED
  BY <1>1, <1>4, <1>5 DEF RegistryInv

\* A rollback writes no row and frees those it had locked.
LEMMA RefuseStep ==
  ASSUME RegistryInv, NEW r \in RegistryRequests, Refuse(r), UNCHANGED ask
  PROVE  RegistryInv' /\ UNCHANGED defs
<1> USE Kinds
<1>0. RegistryTypeOK /\ LocksExclusive /\ WritesFit /\ SeenExists /\ DoneAreRegistered /\ RefreshRegistersAll
  BY DEF RegistryInv
<1>1. /\ pc' = [pc EXCEPT ![r] = "refused"]
      /\ writes' = [writes EXCEPT ![r] = NothingYet]
      /\ UNCHANGED <<server, defs, listed, next, seen, ask>>
  BY DEF Refuse, Become
<1>2. RegistryTypeOK'
  BY <1>0, <1>1 DEF RegistryTypeOK, PcValue
<1>3. \A s \in RegistryRequests, t \in ToolNames :
        IF s = r THEN writes'[s][t].cols = {} /\ pc'[s] = "refused"
                 ELSE writes'[s] = writes[s] /\ pc'[s] = pc[s]
  BY <1>0, <1>1 DEF RegistryTypeOK
<1>4. LocksExclusive'
  BY <1>0, <1>3 DEF LocksExclusive
<1>5. WritesFit'
  BY <1>0, <1>1, <1>3 DEF WritesFit
<1>6. \A s \in RegistryRequests : pc'[s] = "refused" \/ (pc'[s] = pc[s] /\ writes'[s] = writes[s])
  BY <1>0, <1>1 DEF RegistryTypeOK
<1>7. SeenExists'
  BY <1>0, <1>1, <1>6 DEF SeenExists, Current
<1>8. DoneAreRegistered'
  BY <1>0, <1>1, <1>6 DEF DoneAreRegistered
<1>9. RefreshRegistersAll'
  BY <1>0, <1>1, <1>6 DEF RefreshRegistersAll
<1> QED
  BY <1>1, <1>2, <1>4, <1>5, <1>7, <1>8, <1>9 DEF RegistryInv

\* A handler moves on without writing: no row and no transaction is touched.
LEMMA MoveStep ==
  ASSUME RegistryInv, RegistryTypeOK', NEW r \in RegistryRequests, NEW where \in PcValue,
         Become(r, where), UNCHANGED <<defs, ask, writes>>,
         pc[r] \notin {"answered", "patch"},
         \A s \in Refreshes \ {r} :
           listed'[s] = listed[s] /\ next'[s] = next[s] /\ seen'[s] = seen[s],
         \A p \in Patches \ {r} : seen'[p] = seen[p],
         r \in Refreshes => \/ where \in {"queued", "listing"} /\ pc[r] \notin {"select", "write"}
                            \/ where = "select" /\ pc[r] = "listing" /\ next'[r] = 1
                            \/ /\ where = "write" /\ pc[r] = "select"
                               /\ next[r] <= Len(listed[r])
                               /\ next'[r] = next[r] /\ listed'[r] = listed[r]
                               /\ seen'[r] = defs[Current(r).name],
         r \in Patches => where # "patch" \/ (seen'[r] # NoTool /\ defs[ask[r].tool] # NoTool)
  PROVE  RegistryInv'
<1> USE Kinds
<1>0. RegistryTypeOK /\ LocksExclusive /\ WritesFit /\ SeenExists /\ DoneAreRegistered /\ RefreshRegistersAll
  BY DEF RegistryInv
<1>1. pc'[r] = where /\ \A s \in RegistryRequests \ {r} : pc'[s] = pc[s]
  BY <1>0 DEF Become, RegistryTypeOK
<1>2. LocksExclusive'
  BY <1>0 DEF LocksExclusive
<1>3. WritesFit'
  <2> SUFFICES ASSUME NEW s \in RegistryRequests, NEW t \in ToolNames, writes[s][t].cols # {}
               PROVE  pc'[s] \in {"select", "write"}
    BY <1>0 DEF WritesFit
  <2>1. s \in Refreshes /\ pc[s] \in {"select", "write"}
    BY <1>0 DEF WritesFit
  <2> QED
    BY <1>1, <2>1
<1>4. SeenExists'
  <2>1. ASSUME NEW s \in Refreshes, pc'[s] = "write"
        PROVE  next'[s] <= Len(listed'[s]) /\ (seen'[s] # NoTool => defs'[Current(s)'.name] # NoTool)
    <3>1. CASE s = r
      BY <1>1, <2>1, <3>1 DEF Current
    <3>2. CASE s # r
      BY <1>0, <1>1, <2>1, <3>2 DEF SeenExists, Current
    <3> QED
      BY <3>1, <3>2
  <2>2. ASSUME NEW p \in Patches, pc'[p] = "patch"
        PROVE  seen'[p] # NoTool /\ defs'[ask'[p].tool] # NoTool
    <3>1. CASE p = r
      BY <1>1, <2>2, <3>1
    <3>2. CASE p # r
      BY <1>0, <1>1, <2>2, <3>2 DEF SeenExists
    <3> QED
      BY <3>1, <3>2
  <2> QED
    BY <2>1, <2>2 DEF SeenExists
<1>5. DoneAreRegistered'
  <2> SUFFICES ASSUME NEW s \in Refreshes, pc'[s] \in {"select", "write"},
                      NEW i \in 1 .. Len(listed'[s]), i < next'[s]
               PROVE  \/ defs[listed'[s][i].name] # NoTool
                      \/ writes[s][listed'[s][i].name].cols = Columns
    BY DEF DoneAreRegistered
  <2>1. CASE s = r /\ next'[r] = 1
    BY <2>1
  <2>2. CASE listed'[s] = listed[s] /\ next'[s] = next[s] /\ pc[s] \in {"select", "write"}
    BY <1>0, <2>2 DEF DoneAreRegistered
  <2> QED
    BY <1>1, <2>1, <2>2
<1>6. RefreshRegistersAll'
  <2> SUFFICES ASSUME NEW s \in Refreshes, pc'[s] = "answered"
               PROVE  \A i \in 1 .. Len(listed'[s]) : defs[listed'[s][i].name] # NoTool
    BY DEF RefreshRegistersAll
  <2>1. s # r
    BY <1>1
  <2> QED
    BY <1>0, <1>1, <2>1 DEF RefreshRegistersAll
<1> QED
  BY <1>2, <1>3, <1>4, <1>5, <1>6 DEF RegistryInv

\* A refresh writes its current tool, in a way that WritesFit allows and, if it
\* sets any column, into a row that nobody else has written.
LEMMA FlushStep ==
  ASSUME RegistryInv, NEW r \in Refreshes, pc[r] = "write", NEW w \in Uncommitted, Flush(r, w),
         UNCHANGED ask,
         w.cols # {} =>
           /\ ~Locked(r, Current(r).name)
           /\ w.row # NoTool
           /\ \/ /\ w.cols = Columns
                 /\ defs[Current(r).name] = NoTool
                 /\ w.row.status = "disabled" /\ w.row.risk = "critical"
              \/ /\ w.cols \subseteq {"schema", "hash"}
                 /\ defs[Current(r).name] # NoTool,
         w.cols = Columns \/ defs[Current(r).name] # NoTool
  PROVE  RegistryInv'
<1> USE Kinds
<1> DEFINE t == Current(r).name
<1>0. RegistryTypeOK /\ LocksExclusive /\ WritesFit /\ SeenExists /\ DoneAreRegistered /\ RefreshRegistersAll
  BY DEF RegistryInv
<1>1. /\ pc' = [pc EXCEPT ![r] = "select"]
      /\ writes' = [writes EXCEPT ![r][t] = w]
      /\ next' = [next EXCEPT ![r] = next[r] + 1]
      /\ UNCHANGED <<server, defs, listed, seen, ask>>
  BY DEF Flush, Become
<1>2. t \in ToolNames
  BY <1>0, CurrentListed DEF SeenExists
<1>3. RegistryTypeOK'
  BY <1>0, <1>1, <1>2 DEF RegistryTypeOK, PcValue, LoopHeld
<1>4. \A s \in RegistryRequests : pc'[s] = IF s = r THEN "select" ELSE pc[s]
  BY <1>0, <1>1 DEF RegistryTypeOK
<1>5. \A s \in RegistryRequests, u \in ToolNames :
        writes'[s][u] = IF s = r /\ u = t THEN w ELSE writes[s][u]
  BY <1>0, <1>1, <1>2 DEF RegistryTypeOK
<1>6. w.cols # {} => \A s \in RegistryRequests \ {r} : writes[s][t].cols = {}
  <2> SUFFICES ASSUME w.cols # {}, NEW s \in RegistryRequests \ {r} PROVE writes[s][t].cols = {}
    OBVIOUS
  <2>1. s \in Refreshes => writes[s][t].cols = {}
    BY DEF Locked
  <2>2. s \notin Refreshes => writes[s][t].cols = {}
    BY <1>0, <1>2 DEF WritesFit
  <2> QED
    BY <2>1, <2>2
<1>7. LocksExclusive'
  BY <1>0, <1>5, <1>6 DEF LocksExclusive
<1>8. WritesFit'
  <2> SUFFICES ASSUME NEW s \in RegistryRequests, NEW u \in ToolNames, writes'[s][u].cols # {}
               PROVE  /\ s \in Refreshes
                      /\ pc'[s] \in {"select", "write"}
                      /\ writes'[s][u].row # NoTool
                      /\ \/ /\ writes'[s][u].cols = Columns
                            /\ defs'[u] = NoTool
                            /\ writes'[s][u].row.status = "disabled"
                            /\ writes'[s][u].row.risk = "critical"
                         \/ /\ writes'[s][u].cols \subseteq {"schema", "hash"}
                            /\ defs'[u] # NoTool
    BY DEF WritesFit, Columns
  <2>1. CASE s = r /\ u = t
    BY <1>1, <1>4, <1>5, <2>1
  <2>2. CASE ~(s = r /\ u = t)
    <3>1. writes'[s][u] = writes[s][u] /\ defs' = defs
      BY <1>1, <1>5, <2>2
    <3>2. s \in Refreshes /\ pc[s] \in {"select", "write"}
      BY <1>0, <3>1 DEF WritesFit
    <3> QED
      BY <1>0, <1>4, <3>1, <3>2 DEF WritesFit
  <2> QED
    BY <2>1, <2>2
<1>9. SeenExists'
  BY <1>0, <1>1, <1>4 DEF SeenExists, Current, RegistryTypeOK
<1>10. DoneAreRegistered'
  <2> SUFFICES ASSUME NEW s \in Refreshes, pc'[s] \in {"select", "write"},
                      NEW i \in 1 .. Len(listed[s]), i < next'[s]
               PROVE  \/ defs[listed[s][i].name] # NoTool
                      \/ writes'[s][listed[s][i].name].cols = Columns
    BY <1>1 DEF DoneAreRegistered
  <2>0. listed[s][i].name \in ToolNames
    BY <1>0, ListedNames
  <2>1. CASE s = r /\ listed[s][i].name = t
    BY <1>2, <1>5, <2>1
  <2>2. CASE s = r /\ listed[s][i].name # t
    <3>1. i # next[r]
      BY <2>2 DEF Current
    <3>2. i < next[r]
      BY <1>0, <1>1, <2>2, <3>1 DEF RegistryTypeOK
    <3> QED
      BY <1>0, <1>5, <2>0, <2>2, <3>2 DEF DoneAreRegistered
  <2>3. CASE s # r
    <3>1. next'[s] = next[s] /\ pc'[s] = pc[s]
      BY <1>0, <1>1, <1>4, <2>3 DEF RegistryTypeOK
    <3> QED
      BY <1>0, <1>5, <2>0, <2>3, <3>1 DEF DoneAreRegistered
  <2> QED
    BY <2>1, <2>2, <2>3
<1>11. RefreshRegistersAll'
  BY <1>0, <1>1, <1>4 DEF RefreshRegistersAll
<1> QED
  BY <1>3, <1>7, <1>8, <1>9, <1>10, <1>11 DEF RegistryInv

\* What a commit makes of a row: nothing, a new closed row, or a row with the
\* same classification.
LEMMA RowAfterFits ==
  ASSUME RegistryInv, NEW r \in Refreshes, NEW t \in ToolNames
  PROVE  LET row == RowAfter(defs[t], writes[r][t])
         IN  /\ row \in Definition \cup {NoTool}
             /\ writes[r][t].cols = {} => row = defs[t]
             /\ writes[r][t].cols # {} => row # NoTool
             /\ defs[t] = NoTool /\ row # NoTool => row.status = "disabled" /\ row.risk = "critical"
             /\ defs[t] # NoTool => /\ row # NoTool
                                    /\ row.status = defs[t].status
                                    /\ row.risk = defs[t].risk
<1> USE Kinds
<1> DEFINE w == writes[r][t]
           row == RowAfter(defs[t], w)
<1>0. RegistryTypeOK /\ WritesFit
  BY DEF RegistryInv
<1>1. /\ w \in Uncommitted
      /\ defs[t] \in Definition \cup {NoTool}
      /\ w.row \in Definition \cup {NoTool}
  BY <1>0 DEF RegistryTypeOK, Uncommitted
<1>2. CASE w.cols = {}
  BY <1>1, <1>2 DEF RowAfter
<1>3. CASE w.cols = Columns
  <2>1. w.cols # {} /\ ~(w.cols \subseteq {"schema", "hash"})
    BY <1>3 DEF Columns
  <2>2. defs[t] = NoTool /\ w.row # NoTool /\ w.row.status = "disabled" /\ w.row.risk = "critical"
    BY <1>0, <2>1 DEF WritesFit
  <2>3. row = w.row
    BY <1>3, <2>1 DEF RowAfter
  <2> QED
    BY <1>1, <2>1, <2>2, <2>3
<1>4. CASE w.cols # {} /\ w.cols # Columns
  <2>1. w.cols \subseteq {"schema", "hash"} /\ defs[t] # NoTool /\ w.row # NoTool
    BY <1>0, <1>4 DEF WritesFit
  <2>2. row = [status |-> defs[t].status, risk |-> defs[t].risk,
               schema |-> IF "schema" \in w.cols THEN w.row.schema ELSE defs[t].schema,
               hash |-> IF "hash" \in w.cols THEN w.row.hash ELSE defs[t].hash]
    BY <1>4, <2>1 DEF RowAfter
  <2>3. defs[t] \in Definition /\ w.row \in Definition
    BY <1>1, <2>1
  <2>4. row \in Definition
    BY <2>2, <2>3 DEF Definition
  <2> QED
    BY <1>4, <2>1, <2>2, <2>4, NoToolIsNoRow
<1> QED
  BY <1>2, <1>3, <1>4

\* The commit of a refresh publishes what it has written.
LEMMA CommitStep ==
  ASSUME RegistryInv, NEW r \in Refreshes, CommitRefresh(r), UNCHANGED ask
  PROVE  RegistryInv'
<1> USE Kinds
<1>0. RegistryTypeOK /\ LocksExclusive /\ WritesFit /\ SeenExists /\ DoneAreRegistered /\ RefreshRegistersAll
  BY DEF RegistryInv
<1>1. /\ pc[r] = "select"
      /\ next[r] > Len(listed[r])
      /\ defs' = [t \in ToolNames |-> RowAfter(defs[t], writes[r][t])]
      /\ writes' = [writes EXCEPT ![r] = NothingYet]
      /\ pc' = [pc EXCEPT ![r] = "answered"]
      /\ UNCHANGED <<server, listed, next, seen, ask>>
  BY DEF CommitRefresh, Proceeds, Become
<1>2. \A t \in ToolNames :
        /\ defs'[t] \in Definition \cup {NoTool}
        /\ writes[r][t].cols = {} => defs'[t] = defs[t]
        /\ writes[r][t].cols # {} => defs'[t] # NoTool
        /\ defs[t] # NoTool => defs'[t] # NoTool
  BY <1>1, RowAfterFits
<1>3. RegistryTypeOK'
  <2>1. defs' \in [ToolNames -> Definition \cup {NoTool}]
    BY <1>1, <1>2
  <2> QED
    BY <1>0, <1>1, <2>1 DEF RegistryTypeOK, PcValue
<1>4. \A s \in RegistryRequests :
        /\ pc'[s] = IF s = r THEN "answered" ELSE pc[s]
        /\ writes'[s] = IF s = r THEN NothingYet ELSE writes[s]
  BY <1>0, <1>1 DEF RegistryTypeOK
<1>5. LocksExclusive'
  BY <1>0, <1>4 DEF LocksExclusive
<1>6. WritesFit'
  <2> SUFFICES ASSUME NEW s \in RegistryRequests, NEW t \in ToolNames, writes'[s][t].cols # {}
               PROVE  /\ s # r /\ writes'[s] = writes[s] /\ pc'[s] = pc[s]
                      /\ defs'[t] = defs[t]
    BY <1>0 DEF WritesFit
  <2>1. s # r /\ writes'[s] = writes[s] /\ pc'[s] = pc[s]
    BY <1>4
  <2>2. writes[r][t].cols = {}
    BY <1>0, <2>1 DEF LocksExclusive
  <2> QED
    BY <1>2, <2>1, <2>2
<1>7. \A s \in Refreshes : \A i \in 1 .. Len(listed[s]) : listed[s][i].name \in ToolNames
  BY <1>0, ListedNames
<1>8. SeenExists'
  <2>1. ASSUME NEW s \in Refreshes, pc'[s] = "write"
        PROVE  next'[s] <= Len(listed'[s]) /\ (seen'[s] # NoTool => defs'[Current(s)'.name] # NoTool)
    <3>1. pc[s] = "write" /\ Current(s)' = Current(s)
      BY <1>1, <1>4, <2>1 DEF Current
    <3>2. next[s] <= Len(listed[s]) /\ (seen[s] # NoTool => defs[Current(s).name] # NoTool)
      BY <1>0, <3>1 DEF SeenExists
    <3>3. Current(s).name \in ToolNames
      BY <1>0, <3>2, CurrentListed
    <3> QED
      BY <1>1, <1>2, <3>1, <3>2, <3>3
  <2>2. ASSUME NEW p \in Patches, pc'[p] = "patch"
        PROVE  seen'[p] # NoTool /\ defs'[ask'[p].tool] # NoTool
    <3>1. ask[p].tool \in ToolNames
      BY <1>0 DEF RegistryTypeOK, Update
    <3>2. pc[p] = "patch"
      BY <1>4, <2>2
    <3> QED
      BY <1>0, <1>1, <1>2, <3>1, <3>2 DEF SeenExists
  <2> QED
    BY <2>1, <2>2 DEF SeenExists
<1>9. DoneAreRegistered'
  <2> SUFFICES ASSUME NEW s \in Refreshes, pc'[s] \in {"select", "write"},
                      NEW i \in 1 .. Len(listed[s]), i < next[s]
               PROVE  \/ defs'[listed[s][i].name] # NoTool
                      \/ writes'[s][listed[s][i].name].cols = Columns
    BY <1>1 DEF DoneAreRegistered
  <2>1. s # r /\ pc[s] \in {"select", "write"} /\ writes'[s] = writes[s]
    BY <1>4
  <2> QED
    BY <1>0, <1>2, <1>7, <2>1 DEF DoneAreRegistered
<1>10. RefreshRegistersAll'
  <2> SUFFICES ASSUME NEW s \in Refreshes, pc'[s] = "answered", NEW i \in 1 .. Len(listed[s])
               PROVE  defs'[listed[s][i].name] # NoTool
    BY <1>1 DEF RefreshRegistersAll
  <2>1. CASE s # r
    BY <1>0, <1>2, <1>4, <1>7, <2>1 DEF RefreshRegistersAll
  <2>2. CASE s = r
    <3>1. i < next[r]
      <4>1. next[r] \in Nat /\ Len(listed[r]) \in Nat
        BY <1>0 DEF RegistryTypeOK
      <4> QED
        BY <1>1, <2>2, <4>1
    <3>2. defs[listed[s][i].name] # NoTool \/ writes[s][listed[s][i].name].cols = Columns
      BY <1>0, <1>1, <2>2, <3>1 DEF DoneAreRegistered
    <3> QED
      BY <1>2, <1>7, <2>2, <3>2 DEF Columns
  <2> QED
    BY <2>1, <2>2
<1> QED
  BY <1>3, <1>5, <1>6, <1>8, <1>9, <1>10 DEF RegistryInv

\* A PATCH sets fields of a row that exists.
LEMMA PatchStep ==
  ASSUME RegistryInv, NEW p \in Patches, UpdateToolDefinition(p), UNCHANGED ask
  PROVE  RegistryInv'
<1> USE Kinds
<1> DEFINE t == ask[p].tool
<1>0. RegistryTypeOK /\ LocksExclusive /\ WritesFit /\ SeenExists /\ DoneAreRegistered /\ RefreshRegistersAll
  BY DEF RegistryInv
<1>1. /\ pc[p] = "patch"
      /\ pc' = [pc EXCEPT ![p] = "answered"]
      /\ UNCHANGED <<server, listed, next, seen, writes, ask>>
  BY DEF UpdateToolDefinition, Proceeds, Become
<1>2. t \in ToolNames /\ ask[p] \in Update /\ defs[t] \in Definition
  BY <1>0, <1>1 DEF RegistryTypeOK, Update, SeenExists
<1>3. PICK status \in EntityStatus, risk \in RiskLevel :
        defs' = [defs EXCEPT ![t].status = status, ![t].risk = risk]
  <2>1. "status" \in ToSet(p) => ask[p].status \in EntityStatus
    BY <1>2 DEF ToSet, Update
  <2>2. "risk" \in ToSet(p) => ask[p].risk \in RiskLevel
    BY <1>2 DEF ToSet, Update
  <2>3. defs[t].status \in EntityStatus /\ defs[t].risk \in RiskLevel
    BY <1>2 DEF Definition
  <2>4. defs' = [defs EXCEPT ![t].status = IF "status" \in ToSet(p) THEN ask[p].status ELSE @,
                             ![t].risk   = IF "risk"   \in ToSet(p) THEN ask[p].risk   ELSE @]
    BY DEF UpdateToolDefinition
  <2>5. defs' = [defs EXCEPT ![t].status = IF "status" \in ToSet(p) THEN ask[p].status ELSE defs[t].status,
                             ![t].risk   = IF "risk"   \in ToSet(p) THEN ask[p].risk   ELSE defs[t].risk]
    BY <1>0, <1>2, <2>4 DEF RegistryTypeOK, Definition
  <2> QED
    BY <2>1, <2>2, <2>3, <2>5
<1>4. /\ defs' \in [ToolNames -> Definition \cup {NoTool}]
      /\ defs'[t] \in Definition
      /\ \A u \in ToolNames \ {t} : defs'[u] = defs[u]
  <2>1. defs'[t] = [defs[t] EXCEPT !.status = status, !.risk = risk]
    BY <1>0, <1>2, <1>3 DEF RegistryTypeOK
  <2>2. defs'[t] \in Definition
    BY <1>2, <2>1 DEF Definition
  <2>3. \A u \in ToolNames \ {t} : defs'[u] = defs[u]
    BY <1>0, <1>3 DEF RegistryTypeOK
  <2>4. defs' = [u \in ToolNames |-> IF u = t THEN defs'[t] ELSE defs[u]]
    BY <1>0, <1>2, <1>3 DEF RegistryTypeOK
  <2> QED
    BY <1>0, <2>2, <2>3, <2>4 DEF RegistryTypeOK
<1>5. \A u \in ToolNames : defs'[u] = NoTool <=> defs[u] = NoTool
  BY <1>2, <1>4, NoToolIsNoRow
<1>6. \A s \in RegistryRequests : pc'[s] = IF s = p THEN "answered" ELSE pc[s]
  BY <1>0, <1>1 DEF RegistryTypeOK
<1>7. RegistryTypeOK'
  BY <1>0, <1>1, <1>4 DEF RegistryTypeOK, PcValue
<1>8. LocksExclusive' /\ WritesFit'
  BY <1>0, <1>1, <1>5, <1>6 DEF LocksExclusive, WritesFit
<1>9. \A s \in Refreshes : \A i \in 1 .. Len(listed[s]) : listed[s][i].name \in ToolNames
  BY <1>0, ListedNames
<1>10. SeenExists'
  <2>1. ASSUME NEW s \in Refreshes, pc'[s] = "write"
        PROVE  next'[s] <= Len(listed'[s]) /\ (seen'[s] # NoTool => defs'[Current(s)'.name] # NoTool)
    <3>1. pc[s] = "write" /\ Current(s)' = Current(s)
      BY <1>1, <1>6, <2>1 DEF Current
    <3>2. next[s] <= Len(listed[s]) /\ (seen[s] # NoTool => defs[Current(s).name] # NoTool)
      BY <1>0, <3>1 DEF SeenExists
    <3>3. Current(s).name \in ToolNames
      BY <1>0, <3>2, CurrentListed
    <3> QED
      BY <1>1, <1>5, <3>1, <3>2, <3>3
  <2>2. ASSUME NEW q \in Patches, pc'[q] = "patch"
        PROVE  seen'[q] # NoTool /\ defs'[ask'[q].tool] # NoTool
    <3>1. ask[q].tool \in ToolNames
      BY <1>0 DEF RegistryTypeOK, Update
    <3>2. pc[q] = "patch"
      BY <1>6, <2>2
    <3> QED
      BY <1>0, <1>1, <1>5, <3>1, <3>2 DEF SeenExists
  <2> QED
    BY <2>1, <2>2 DEF SeenExists
<1>11. DoneAreRegistered' /\ RefreshRegistersAll'
  BY <1>0, <1>1, <1>5, <1>6, <1>9 DEF DoneAreRegistered, RefreshRegistersAll
<1> QED
  BY <1>7, <1>8, <1>10, <1>11 DEF RegistryInv

\* Every step of a refresh preserves the invariant.
LEMMA RefreshSteps ==
  ASSUME RegistryInv, NEW r \in Refreshes, Refresh(r), UNCHANGED ask
  PROVE  RegistryInv'
<1> USE Kinds
<1>0. RegistryTypeOK /\ WritesFit /\ SeenExists
  BY DEF RegistryInv
<1>1. CASE Refuse(r)
  BY <1>1, RefuseStep
<1>2. CASE StartRefresh(r) /\ ~Refuse(r)
  <2>1. /\ pc[r] = "queued" /\ Become(r, "listing")
        /\ UNCHANGED <<server, defs, listed, next, seen, writes>>
    BY <1>2 DEF StartRefresh, Proceeds
  <2>2. RegistryTypeOK'
    BY <1>0, <2>1 DEF RegistryTypeOK, Become, PcValue
  <2> QED
    BY <2>1, <2>2, MoveStep DEF PcValue
<1>3. CASE ListTools(r)
  <2>1. PICK list \in Discoveries : listed' = [listed EXCEPT ![r] = list]
    BY <1>3 DEF ListTools
  <2>2. /\ pc[r] = "listing" /\ Become(r, "select")
        /\ next' = [next EXCEPT ![r] = 1]
        /\ UNCHANGED <<server, defs, seen, writes>>
    BY <1>3 DEF ListTools, Proceeds
  <2>3. list \in Seq(Discovered)
    BY DiscoveriesType
  <2>4. RegistryTypeOK'
    BY <1>0, <2>1, <2>2, <2>3 DEF RegistryTypeOK, Become, PcValue, LoopHeld
  <2>5. /\ next'[r] = 1
        /\ \A s \in Refreshes \ {r} : listed'[s] = listed[s] /\ next'[s] = next[s]
    BY <1>0, <2>1, <2>2 DEF RegistryTypeOK
  <2> QED
    BY <2>2, <2>4, <2>5, MoveStep DEF PcValue, LoopHeld
<1>4. CASE SelectTool(r)
  <2>1. /\ pc[r] = "select" /\ Become(r, "write")
        /\ next[r] <= Len(listed[r])
        /\ seen' = [seen EXCEPT ![r] = defs[Current(r).name]]
        /\ UNCHANGED <<server, defs, listed, next, writes>>
    BY <1>4 DEF SelectTool, Proceeds
  <2>2. Current(r).name \in ToolNames
    BY <1>0, <2>1, CurrentListed
  <2>3. RegistryTypeOK'
    BY <1>0, <2>1, <2>2 DEF RegistryTypeOK, Become, PcValue, LoopHeld
  <2>4. /\ seen'[r] = defs[Current(r).name]
        /\ \A s \in (Refreshes \cup Patches) \ {r} : seen'[s] = seen[s]
    BY <1>0, <2>1 DEF RegistryTypeOK
  <2> QED
    BY <2>1, <2>3, <2>4, MoveStep DEF PcValue, LoopHeld
<1>5. CASE RegisterTool(r)
  <2> DEFINE w == [cols |-> Columns,
                   row  |-> [status |-> "disabled", risk |-> "critical",
                             schema |-> Current(r).schema, hash |-> Current(r).schema]]
  <2>1. /\ pc[r] = "write" /\ ~Locked(r, Current(r).name)
        /\ defs[Current(r).name] = NoTool /\ Flush(r, w)
    BY <1>5 DEF RegisterTool, Proceeds
  <2>2. Current(r) \in Discovered
    BY <1>0, <2>1, CurrentListed DEF SeenExists
  <2>3. w.row \in Definition
    BY <2>2 DEF Definition, Discovered, EntityStatus, RiskLevel
  <2>4. w \in Uncommitted /\ w.row # NoTool
    BY <2>3, NoToolIsNoRow DEF Uncommitted
  <2> HIDE DEF w
  <2>5. w.cols = Columns /\ w.row.status = "disabled" /\ w.row.risk = "critical"
    BY DEF w
  <2> QED
    BY <2>1, <2>4, <2>5, FlushStep
<1>6. CASE UpdateTool(r)
  <2> DEFINE cols == Changed(Current(r), seen[r])
             w == IF cols = {} THEN Untouched
                  ELSE [cols |-> cols,
                        row  |-> [seen[r] EXCEPT !.schema = Current(r).schema,
                                                 !.hash = Current(r).schema]]
  <2>1. /\ pc[r] = "write" /\ seen[r] # NoTool
        /\ cols # {} => ~Locked(r, Current(r).name)
        /\ Flush(r, w)
    BY <1>6 DEF UpdateTool, Proceeds
  <2>2. Current(r) \in Discovered
    BY <1>0, <2>1, CurrentListed DEF SeenExists
  <2>3. seen[r] \in Definition
    BY <1>0, <2>1 DEF RegistryTypeOK
  <2>4. defs[Current(r).name] # NoTool
    BY <1>0, <2>1 DEF SeenExists
  <2>5. cols \subseteq {"schema", "hash"}
    BY DEF Changed
  <2>6. /\ w \in Uncommitted
        /\ w.cols # {} => w.cols = cols /\ w.row # NoTool
    <3>1. CASE cols = {}
      BY <3>1 DEF Untouched, Uncommitted
    <3>2. CASE cols # {}
      <4>1. [seen[r] EXCEPT !.schema = Current(r).schema, !.hash = Current(r).schema] \in Definition
        BY <2>2, <2>3 DEF Definition, Discovered
      <4> QED
        BY <2>5, <3>2, <4>1, NoToolIsNoRow DEF Uncommitted, Columns
    <3> QED
      BY <3>1, <3>2
  <2> HIDE DEF w, cols
  <2> QED
    BY <2>1, <2>4, <2>5, <2>6, FlushStep
<1>7. CASE CommitRefresh(r)
  BY <1>7, CommitStep
<1>8. Refuse(r) \/ (StartRefresh(r) /\ ~Refuse(r)) \/ ListTools(r) \/ SelectTool(r)
        \/ RegisterTool(r) \/ UpdateTool(r) \/ CommitRefresh(r)
  BY DEF Refresh, ListToolsFails, RegisterFails, DeadlockVictim
<1> QED
  BY <1>1, <1>2, <1>3, <1>4, <1>5, <1>6, <1>7, <1>8

\* RegistryInv is inductive.
LEMMA RegistryInvStep == RegistryInv /\ [RegistryNext]_registryVars => RegistryInv'
<1> USE Kinds
<1> SUFFICES ASSUME RegistryInv, [RegistryNext]_registryVars PROVE RegistryInv'
  OBVIOUS
<1>0. RegistryTypeOK
  BY DEF RegistryInv
<1>1. CASE UNCHANGED registryVars
  <2>1. UNCHANGED <<server, defs, ask, pc, listed, next, seen, writes>>
    BY <1>1 DEF registryVars
  <2>2. RegistryTypeOK'
    BY <1>0, <2>1 DEF RegistryTypeOK
  <2>3. LocksExclusive' /\ WritesFit'
    BY <2>1 DEF RegistryInv, LocksExclusive, WritesFit
  <2>4. SeenExists'
    BY <2>1 DEF RegistryInv, SeenExists, Current
  <2>5. DoneAreRegistered' /\ RefreshRegistersAll'
    BY <2>1 DEF RegistryInv, DoneAreRegistered, RefreshRegistersAll
  <2> QED
    BY <2>2, <2>3, <2>4, <2>5 DEF RegistryInv
<1>2. ASSUME NEW r \in RegistryRequests, Send(r), UNCHANGED ask PROVE RegistryInv'
  <2>1. /\ pc[r] = "idle" /\ Become(r, "queued")
        /\ UNCHANGED <<server, defs, listed, next, seen, writes>>
    BY <1>2 DEF Send
  <2>2. RegistryTypeOK'
    BY <1>0, <1>2, <2>1 DEF RegistryTypeOK, Become, PcValue
  <2> QED
    BY <1>2, <2>1, <2>2, MoveStep DEF PcValue
<1>3. ASSUME NEW r \in Creations, CreateToolServer(r), UNCHANGED ask PROVE RegistryInv'
  <2>1. CASE Refuse(r)
    BY <1>3, <2>1, RefuseStep
  <2>2. CASE ~Refuse(r)
    <3>1. /\ pc[r] = "queued" /\ Become(r, "answered") /\ server' = "active"
          /\ UNCHANGED <<defs, listed, next, seen, writes>>
      BY <1>3, <2>2 DEF CreateToolServer, Proceeds
    <3>2. RegistryTypeOK'
      BY <1>0, <1>3, <3>1 DEF RegistryTypeOK, Become, PcValue
    <3>3. r \notin Refreshes /\ r \notin Patches
      BY KindsDisjoint
    <3> QED
      BY <1>3, <3>1, <3>2, <3>3, MoveStep DEF PcValue
  <2> QED
    BY <2>1, <2>2
<1>4. ASSUME NEW p \in Patches, StartPatch(p), UNCHANGED ask PROVE RegistryInv'
  <2>1. CASE Refuse(p)
    BY <1>4, <2>1, RefuseStep
  <2>2. CASE ~Refuse(p)
    <3>1. /\ pc[p] = "queued" /\ Become(p, "patch")
          /\ defs[ask[p].tool] # NoTool
          /\ seen' = [seen EXCEPT ![p] = defs[ask[p].tool]]
          /\ UNCHANGED <<server, defs, listed, next, writes>>
      BY <1>4, <2>2 DEF StartPatch, Proceeds
    <3>2. ask[p].tool \in ToolNames
      BY <1>0 DEF RegistryTypeOK, Update
    <3>3. RegistryTypeOK'
      BY <1>0, <1>4, <3>1, <3>2 DEF RegistryTypeOK, Become, PcValue, LoopHeld
    <3>4. /\ seen'[p] # NoTool
          /\ \A s \in (Refreshes \cup Patches) \ {p} : seen'[s] = seen[s]
      BY <1>0, <3>1 DEF RegistryTypeOK
    <3> QED
      BY <1>4, <3>1, <3>3, <3>4, MoveStep DEF PcValue, LoopHeld
  <2> QED
    BY <2>1, <2>2
<1>5. CASE RegistryNext
  BY <1>1, <1>2, <1>3, <1>4, <1>5, RefreshSteps, PatchStep
     DEF RegistryNext, Handle, Patch, AllAnswered
<1> QED
  BY <1>1, <1>5

\* Only two kinds of steps touch definitions: the commit of a refresh and the
\* UPDATE of a PATCH.
LEMMA DefsWriters ==
  ASSUME RegistryNext, defs' # defs
  PROVE  \/ \E r \in Refreshes : CommitRefresh(r)
         \/ \E p \in Patches : UpdateToolDefinition(p)
  BY DEF RegistryNext, Send, Handle, CreateToolServer, Refresh, Patch, StartRefresh, ListToolsFails,
         ListTools, SelectTool, RegisterTool, RegisterFails, UpdateTool, DeadlockVictim, StartPatch,
         Flush, Refuse, AllAnswered, registryVars

\* The row after the UPDATE of a PATCH.
LEMMA PatchedRow ==
  ASSUME RegistryInv, NEW p \in Patches, UpdateToolDefinition(p), NEW t \in ToolNames
  PROVE  /\ defs[t] # NoTool <=> defs'[t] # NoTool
         /\ t # ask[p].tool => defs'[t] = defs[t]
         /\ t = ask[p].tool =>
              /\ defs'[t].status # defs[t].status => defs'[t].status = ask[p].status
              /\ defs'[t].risk # defs[t].risk => defs'[t].risk = ask[p].risk
              /\ defs'[t].schema = defs[t].schema /\ defs'[t].hash = defs[t].hash
<1>0. RegistryTypeOK /\ SeenExists
  BY DEF RegistryInv
<1>1. pc[p] = "patch" /\ ask[p] \in Update
  BY <1>0 DEF UpdateToolDefinition, Proceeds, RegistryTypeOK
<1>2. defs[ask[p].tool] \in Definition /\ ask[p].tool \in ToolNames
  BY <1>0, <1>1 DEF RegistryTypeOK, SeenExists, Update
<1>3. defs' = [defs EXCEPT
        ![ask[p].tool].status = IF "status" \in ToSet(p) THEN ask[p].status ELSE @,
        ![ask[p].tool].risk   = IF "risk"   \in ToSet(p) THEN ask[p].risk   ELSE @]
  BY DEF UpdateToolDefinition
<1>4. CASE t # ask[p].tool
  BY <1>0, <1>3, <1>4 DEF RegistryTypeOK
<1>5. CASE t = ask[p].tool
  <2>1. defs'[t] = [defs[t] EXCEPT
          !.status = IF "status" \in ToSet(p) THEN ask[p].status ELSE @,
          !.risk   = IF "risk"   \in ToSet(p) THEN ask[p].risk   ELSE @]
    BY <1>0, <1>2, <1>3, <1>5 DEF RegistryTypeOK
  <2>2. /\ "status" \in ToSet(p) => ask[p].status \in EntityStatus
        /\ "risk" \in ToSet(p) => ask[p].risk \in RiskLevel
    BY <1>1 DEF ToSet, Update
  <2>3. defs'[t] \in Definition
    BY <1>2, <1>5, <2>1, <2>2 DEF Definition
  <2>4. /\ defs'[t].status = IF "status" \in ToSet(p) THEN ask[p].status ELSE defs[t].status
        /\ defs'[t].risk = IF "risk" \in ToSet(p) THEN ask[p].risk ELSE defs[t].risk
        /\ defs'[t].schema = defs[t].schema /\ defs'[t].hash = defs[t].hash
    BY <1>2, <1>5, <2>1 DEF Definition
  <2> QED
    BY <1>2, <1>5, <2>3, <2>4, NoToolIsNoRow
<1> QED
  BY <1>4, <1>5

\* The invariant of the registry holds in every reachable state.
THEOREM RegistryInvariant == RegistrySpec => []RegistryInv
<1> QED
  BY RegistryInvInit, RegistryInvStep, PTL DEF RegistrySpec

\* Types, in every reachable state.
THEOREM RegistryTypeCorrect == RegistrySpec => []RegistryTypeOK
<1>1. RegistryInv => RegistryTypeOK
  BY DEF RegistryInv
<1> QED
  BY <1>1, RegistryInvariant, PTL

\* A refresh that answers has registered all it was told of (refresh_tools).
THEOREM RefreshComplete == RegistrySpec => []RefreshRegistersAll
<1>1. RegistryInv => RefreshRegistersAll
  BY DEF RegistryInv
<1> QED
  BY <1>1, RegistryInvariant, PTL

\* Classification is the administrators' alone, in every step (refresh_tools,
\* update_tool_definition).
THEOREM AdminsClassify == RegistrySpec => OnlyAdminsClassify
<1> DEFINE Classified ==
      \A t \in ToolNames :
        /\ defs[t] = NoTool /\ defs'[t] # NoTool =>
             defs'[t].status = "disabled" /\ defs'[t].risk = "critical"
        /\ defs[t] # NoTool =>
             /\ defs'[t] # NoTool
             /\ defs'[t].status # defs[t].status =>
                  \E p \in Patches : Answers(p) /\ ask[p].tool = t /\ ask[p].status = defs'[t].status
             /\ defs'[t].risk # defs[t].risk =>
                  \E p \in Patches : Answers(p) /\ ask[p].tool = t /\ ask[p].risk = defs'[t].risk
<1>1. RegistryInv /\ [RegistryNext]_registryVars => [Classified]_registryVars
  <2> SUFFICES ASSUME RegistryInv, RegistryNext, NEW t \in ToolNames
      PROVE  /\ defs[t] = NoTool /\ defs'[t] # NoTool =>
                  defs'[t].status = "disabled" /\ defs'[t].risk = "critical"
             /\ defs[t] # NoTool =>
                  /\ defs'[t] # NoTool
                  /\ defs'[t].status # defs[t].status =>
                       \E p \in Patches : Answers(p) /\ ask[p].tool = t /\ ask[p].status = defs'[t].status
                  /\ defs'[t].risk # defs[t].risk =>
                       \E p \in Patches : Answers(p) /\ ask[p].tool = t /\ ask[p].risk = defs'[t].risk
    OBVIOUS
  <2>1. CASE defs' = defs
    BY <2>1
  <2>2. ASSUME NEW r \in Refreshes, CommitRefresh(r)
        PROVE  /\ defs[t] = NoTool /\ defs'[t] # NoTool =>
                    defs'[t].status = "disabled" /\ defs'[t].risk = "critical"
               /\ defs[t] # NoTool => /\ defs'[t] # NoTool
                                      /\ defs'[t].status = defs[t].status
                                      /\ defs'[t].risk = defs[t].risk
    <3>1. defs'[t] = RowAfter(defs[t], writes[r][t])
      BY <2>2 DEF CommitRefresh
    <3> QED
      BY <3>1, RowAfterFits
  <2>3. ASSUME NEW p \in Patches, UpdateToolDefinition(p)
        PROVE  /\ defs[t] # NoTool <=> defs'[t] # NoTool
               /\ defs'[t].status # defs[t].status =>
                    Answers(p) /\ ask[p].tool = t /\ ask[p].status = defs'[t].status
               /\ defs'[t].risk # defs[t].risk =>
                    Answers(p) /\ ask[p].tool = t /\ ask[p].risk = defs'[t].risk
    <3>1. pc[p] = "patch" /\ pc' = [pc EXCEPT ![p] = "answered"]
      BY <2>3 DEF UpdateToolDefinition, Proceeds, Become
    <3>2. Answers(p)
      BY <3>1, Kinds DEF Answers, RegistryInv, RegistryTypeOK
    <3> QED
      BY <2>3, <3>2, PatchedRow
  <2> QED
    BY <2>1, <2>2, <2>3, DefsWriters
<1> QED
  BY <1>1, RegistryInvariant, PTL DEF RegistrySpec, OnlyAdminsClassify

-----------------------------------------------------------------------------
\* Schemas and hashes, for schemas that Python tells apart: rows read and rows
\* written agree too, and a schema is never written without its hash.
HashInv ==
  /\ HashMatchesSchema
  /\ \A r \in Refreshes : seen[r] # NoTool => seen[r].hash = seen[r].schema
  /\ \A r \in RegistryRequests, t \in ToolNames :
       LET w == writes[r][t]
       IN  w.cols # {} => {"schema", "hash"} \subseteq w.cols /\ w.row.hash = w.row.schema

\* A statement of a refresh writes schema and hash together.
LEMMA HashFlush ==
  ASSUME RegistryInv, HashInv, NEW r \in Refreshes, pc[r] = "write", NEW w \in Uncommitted, Flush(r, w),
         w.cols # {} => {"schema", "hash"} \subseteq w.cols /\ w.row.hash = w.row.schema
  PROVE  HashInv'
<1>1. /\ writes' = [writes EXCEPT ![r][Current(r).name] = w]
      /\ UNCHANGED <<defs, seen>>
  BY DEF Flush
<1>2. \A s \in RegistryRequests, t \in ToolNames : writes'[s][t] = w \/ writes'[s][t] = writes[s][t]
  BY <1>1, Kinds DEF RegistryInv, RegistryTypeOK
<1> QED
  BY <1>1, <1>2 DEF HashInv, HashMatchesSchema

\* HashInv is inductive relative to RegistryInv.
LEMMA HashInvStep ==
  ASSUME LooselyEqual = {}, RegistryInv, HashInv, [RegistryNext]_registryVars
  PROVE  HashInv'
<1>0. RegistryTypeOK
  BY DEF RegistryInv
<1>1. CASE UNCHANGED <<defs, seen, writes>>
  BY <1>1 DEF HashInv, HashMatchesSchema
<1>2. ASSUME NEW r \in RegistryRequests, Refuse(r) PROVE HashInv'
  <2>1. \A s \in RegistryRequests, t \in ToolNames :
          writes'[s][t].cols = {} \/ writes'[s][t] = writes[s][t]
    BY <1>0, <1>2, Kinds DEF Refuse, RegistryTypeOK
  <2> QED
    BY <1>2, <2>1 DEF Refuse, HashInv, HashMatchesSchema
<1>3. ASSUME NEW r \in Refreshes, SelectTool(r) PROVE HashInv'
  <2>1. /\ pc[r] = "select" /\ next[r] <= Len(listed[r])
        /\ seen' = [seen EXCEPT ![r] = defs[Current(r).name]]
        /\ UNCHANGED <<defs, writes>>
    BY <1>3 DEF SelectTool, Proceeds
  <2>2. Current(r).name \in ToolNames
    BY <1>0, <2>1, CurrentListed
  <2>3. \A s \in Refreshes : seen'[s] = seen[s] \/ seen'[s] = defs[Current(r).name]
    BY <1>0, <2>1 DEF RegistryTypeOK
  <2> QED
    BY <2>1, <2>2, <2>3 DEF HashInv, HashMatchesSchema
<1>4. ASSUME NEW r \in Refreshes, RegisterTool(r) PROVE HashInv'
  <2> DEFINE w == [cols |-> Columns,
                   row  |-> [status |-> "disabled", risk |-> "critical",
                             schema |-> Current(r).schema, hash |-> Current(r).schema]]
  <2>1. pc[r] = "write" /\ Flush(r, w)
    BY <1>4 DEF RegisterTool, Proceeds
  <2>2. Current(r) \in Discovered
    BY <1>0, <2>1, CurrentListed DEF RegistryInv, SeenExists
  <2>3. w \in Uncommitted
    BY <2>2 DEF Uncommitted, Definition, Discovered, EntityStatus, RiskLevel
  <2>4. {"schema", "hash"} \subseteq w.cols /\ w.row.hash = w.row.schema
    BY DEF Columns
  <2> HIDE DEF w
  <2> QED
    BY <2>1, <2>3, <2>4, HashFlush
<1>5. ASSUME NEW r \in Refreshes, UpdateTool(r) PROVE HashInv'
  <2> DEFINE cols == Changed(Current(r), seen[r])
             w == IF cols = {} THEN Untouched
                  ELSE [cols |-> cols,
                        row  |-> [seen[r] EXCEPT !.schema = Current(r).schema,
                                                 !.hash = Current(r).schema]]
  <2>1. pc[r] = "write" /\ seen[r] # NoTool /\ Flush(r, w)
    BY <1>5 DEF UpdateTool, Proceeds
  <2>2. Current(r) \in Discovered
    BY <1>0, <2>1, CurrentListed DEF RegistryInv, SeenExists
  <2>3. seen[r] \in Definition /\ seen[r].hash = seen[r].schema
    BY <1>0, <2>1 DEF RegistryTypeOK, HashInv
  <2>4. cols = {} \/ cols = {"schema", "hash"}
    BY <2>3 DEF Changed
  <2>5. w \in Uncommitted /\ (w.cols # {} => {"schema", "hash"} \subseteq w.cols /\ w.row.hash = w.row.schema)
    <3>1. CASE cols = {}
      BY <3>1 DEF Untouched, Uncommitted
    <3>2. CASE cols = {"schema", "hash"}
      <4> DEFINE row == [seen[r] EXCEPT !.schema = Current(r).schema, !.hash = Current(r).schema]
      <4>1. row \in Definition /\ row.hash = row.schema
        BY <2>2, <2>3 DEF Definition, Discovered
      <4>2. w = [cols |-> cols, row |-> row]
        BY <3>2
      <4> HIDE DEF row
      <4> QED
        BY <3>2, <4>1, <4>2 DEF Uncommitted, Columns
    <3> QED
      BY <2>4, <3>1, <3>2
  <2> HIDE DEF w, cols
  <2> QED
    BY <2>1, <2>5, HashFlush
<1>6. ASSUME NEW r \in Refreshes, CommitRefresh(r) PROVE HashInv'
  <2>1. /\ defs' = [t \in ToolNames |-> RowAfter(defs[t], writes[r][t])]
        /\ writes' = [writes EXCEPT ![r] = NothingYet]
        /\ seen' = seen
    BY <1>6 DEF CommitRefresh
  <2>2. \A t \in ToolNames : defs'[t] # NoTool => defs'[t].hash = defs'[t].schema
    <3> SUFFICES ASSUME NEW t \in ToolNames, defs'[t] # NoTool PROVE defs'[t].hash = defs'[t].schema
      OBVIOUS
    <3> DEFINE w == writes[r][t]
    <3>1. defs'[t] = RowAfter(defs[t], w)
      BY <2>1
    <3>2. CASE w.cols = {}
      BY <3>1, <3>2 DEF RowAfter, HashInv, HashMatchesSchema
    <3>3. CASE w.cols # {}
      <4>1. {"schema", "hash"} \subseteq w.cols /\ w.row.hash = w.row.schema
        BY <3>3, Kinds DEF HashInv
      <4>2. defs'[t].hash = w.row.hash /\ defs'[t].schema = w.row.schema
        BY <3>1, <3>3, <4>1 DEF RowAfter
      <4> QED
        BY <4>1, <4>2
    <3> QED
      BY <3>2, <3>3
  <2>3. \A s \in RegistryRequests, t \in ToolNames :
          writes'[s][t].cols = {} \/ writes'[s][t] = writes[s][t]
    BY <1>0, <2>1, Kinds DEF RegistryTypeOK
  <2> QED
    BY <2>1, <2>2, <2>3 DEF HashInv, HashMatchesSchema
<1>7. ASSUME NEW p \in Patches, StartPatch(p), ~Refuse(p) PROVE HashInv'
  <2>1. /\ seen' = [seen EXCEPT ![p] = defs[ask[p].tool]]
        /\ UNCHANGED <<defs, writes>>
    BY <1>7 DEF StartPatch
  <2>2. \A s \in Refreshes : seen'[s] = seen[s]
    BY <1>0, <2>1, Kinds DEF RegistryTypeOK
  <2> QED
    BY <2>1, <2>2 DEF HashInv, HashMatchesSchema
<1>8. ASSUME NEW p \in Patches, UpdateToolDefinition(p) PROVE HashInv'
  <2>1. UNCHANGED <<seen, writes>>
    BY <1>8 DEF UpdateToolDefinition
  <2>2. \A t \in ToolNames : defs'[t] # NoTool =>
          defs[t] # NoTool /\ defs'[t].hash = defs[t].hash /\ defs'[t].schema = defs[t].schema
    BY <1>8, PatchedRow
  <2> QED
    BY <2>1, <2>2 DEF HashInv, HashMatchesSchema
<1>9. CASE RegistryNext
  <2>1. ASSUME NEW r \in RegistryRequests, Send(r) PROVE HashInv'
    BY <1>1, <2>1 DEF Send
  <2>2. ASSUME NEW r \in Creations, CreateToolServer(r) PROVE HashInv'
    BY <1>1, <1>2, <2>2, Kinds DEF CreateToolServer
  <2>3. ASSUME NEW r \in Refreshes, Refresh(r) PROVE HashInv'
    <3>1. CASE StartRefresh(r) \/ ListToolsFails(r) \/ ListTools(r) \/ RegisterFails(r) \/ DeadlockVictim(r)
      BY <1>1, <1>2, <3>1, Kinds DEF StartRefresh, ListToolsFails, ListTools, RegisterFails, DeadlockVictim
    <3> QED
      BY <1>3, <1>4, <1>5, <1>6, <2>3, <3>1 DEF Refresh
  <2>4. ASSUME NEW p \in Patches, Patch(p) PROVE HashInv'
    BY <1>2, <1>7, <1>8, <2>4, Kinds DEF Patch
  <2>5. CASE AllAnswered
    BY <1>1, <2>5 DEF AllAnswered, registryVars
  <2> QED
    BY <1>9, <2>1, <2>2, <2>3, <2>4, <2>5 DEF RegistryNext, Handle
<1> QED
  BY <1>1, <1>9 DEF registryVars

\* Where Python tells all schemas apart, schema and hash on record agree
\* (refresh_tools, schema_hash_for).
THEOREM HashesMatch ==
  ASSUME LooselyEqual = {}
  PROVE  RegistrySpec => []HashMatchesSchema
<1>1. RegistryInit => HashInv
  <2> SUFFICES ASSUME RegistryInit PROVE HashInv
    OBVIOUS
  <2>1. HashMatchesSchema
    BY DEF RegistryInit, HashMatchesSchema
  <2>2. \A r \in Refreshes : seen[r] = NoTool
    BY DEF RegistryInit
  <2>3. \A r \in RegistryRequests, t \in ToolNames : writes[r][t].cols = {}
    BY Kinds DEF RegistryInit
  <2> QED
    BY <2>1, <2>2, <2>3 DEF HashInv
<1>2. RegistryInv /\ HashInv /\ [RegistryNext]_registryVars => HashInv'
  BY HashInvStep
<1>3. HashInv => HashMatchesSchema
  BY DEF HashInv
<1> QED
  BY <1>1, <1>2, <1>3, RegistryInvariant, PTL DEF RegistrySpec
===============================================================================
