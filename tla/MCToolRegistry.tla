---------------------------- MODULE MCToolRegistry ----------------------------
(***************************************************************************)
(* Instances of ToolRegistry for TLC: two tools that two refreshes may     *)
(* find in either order, and PATCHes of them.                              *)
(***************************************************************************)
EXTENDS ToolRegistry, TLC

CONSTANTS c1, f1, f2, p1, p2, w1, w2, t1, t2, s1, s2

TwoWorkers == (c1 :> w1) @@ (f1 :> w1) @@ (f2 :> w2) @@ (p1 :> w1) @@ (p2 :> w2)

WorkerOfRequest == [r \in RegistryRequests |-> TwoWorkers[r]]

Tool(t, s) == [name |-> t, schema |-> s]

\* One tool or both, in either order, with the old schema or a new one.
SomeDiscoveries ==
  {<<Tool(t1, s1), Tool(t2, s2)>>, <<Tool(t2, s2), Tool(t1, s2)>>, <<Tool(t1, s1)>>}

NoLoosePairs == {}
LoosePairs   == {<<s1, s2>>, <<s2, s1>>}

\* The first tool is unknown, as registered, or enabled at low risk; the second
\* is unknown or as registered.
SomeRows ==
  /\ RegistryInit
  /\ defs[t1] \in {NoTool,
                   [status |-> "disabled", risk |-> "critical", schema |-> s1, hash |-> s1],
                   [status |-> "active", risk |-> "low", schema |-> s2, hash |-> s2]}
  /\ defs[t2] \in {NoTool,
                   [status |-> "disabled", risk |-> "critical", schema |-> s1, hash |-> s1]}

\* PATCHes enable or disable the first tool; its risk level they lower or leave
\* alone.
MCRegistryInit ==
  /\ SomeRows
  /\ \A p \in Patches : /\ ask[p].tool = t1
                         /\ ask[p].status # Unset
                         /\ ask[p].risk \in {Unset, "low"}

MCRegistrySpec == MCRegistryInit /\ [][RegistryNext]_registryVars /\ RegistryFairness
===============================================================================
