---------------------------- MODULE MCAgentService ----------------------------
(***************************************************************************)
(* An instance of AgentService for TLC: two creations, two disablings and  *)
(* an agent's request on two workers with one connection each.             *)
(***************************************************************************)
EXTENDS AgentService, TLC

CONSTANTS c1, c2, d1, d2, u1, w1, w2, t1, n1

WorkerOfRequest == c1 :> w1 @@ d1 :> w1 @@ u1 :> w1 @@ c2 :> w2 @@ d2 :> w2

\* Everybody is after the first agent, and the second creation asks for its name;
\* or the second creation is in a tenant nobody knows, and the use and a disabling
\* are of an agent nobody knows.
MCAccessInit ==
  /\ AccessInit
  /\ wants[c1] = [tenant |-> t1, name |-> n1] /\ wants[c2].name = n1
  /\ names[d2] = c1
  /\ \/ wants[c2].tenant = t1 /\ names[d1] = c1 /\ names[u1] = c1
     \/ wants[c2].tenant = UnknownTenant /\ names[d1] = NoAgent /\ names[u1] = NoAgent

MCAccessSpec == MCAccessInit /\ [][AccessNext]_accessVars /\ AccessFairness
=============================================================================
