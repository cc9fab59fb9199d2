--------------------------- MODULE MCPolicyService ---------------------------
(***************************************************************************)
(* Instances of PolicyService for TLC: lists of up to three policies whose *)
(* conditions differ in the ways the matcher tells apart, and arguments    *)
(* nested up to three levels deep, with secrets at every level.            *)
(***************************************************************************)
EXTENDS PolicyService, TLC

CONSTANTS n1, res1, k1, p1, plain, secret, Redacted, one, true

\* JSON's 1 and true, which Python takes for equal.
OneIsTrue == [scalar \in Scalars |-> IF scalar = true THEN one ELSE scalar]
Booleans  == {Object(k1 :> one), Object(k1 :> true)}

\* The JSON values: leaves; objects and arrays of up to two of them; these in
\* an object or an array of their own; and one level more.
SomeLeaves == {plain, secret, Redacted, None}
Level1 == {Object(o) : o \in UNION {[keys -> SomeLeaves] : keys \in SUBSET {k1, p1}}}
            \cup {Array(a) : a \in UNION {[1 .. n -> SomeLeaves] : n \in 0 .. 2}}
Nest(values) == UNION {{Object(k1 :> v), Object(p1 :> v), Array(<<v>>)} : v \in values}
Level2 == Nest(Level1) \cup {Object(k1 :> v @@ p1 :> v) : v \in Level1}
            \cup {Object(k1 :> v @@ p1 :> Redacted) : v \in Level1}
            \cup {Array(<<v, secret>>) : v \in Level1} \cup {Array(<<v, Redacted>>) : v \in Level1}
Level3 == Nest(Level2)
SomeJson == SomeLeaves \cup {one, true} \cup Booleans \cup Level1 \cup Level2 \cup Level3

DepthOfSome == [v \in SomeJson |-> IF v \in SomeLeaves \cup {one, true} THEN 0
                                   ELSE IF v \in Level1 \cup Booleans THEN 1
                                   ELSE IF v \in Level2 THEN 2 ELSE 3]

\* Unconstrained; by role; by an empty list; by a resource; by an argument that
\* is expected to have a value, to be 1 or to be null; by one that must be there; and
\* unreadable for three reasons: no object, a field nobody knows, a field that is
\* not of its shape.
Everything == [roles |-> None]
OfAdmins   == [roles |-> {"admin"}]

SomeConditions ==
  {Everything, OfAdmins,
   [tool_names |-> {}],
   [resource_patterns |-> {{res1}}, risk_levels |-> {"low", "medium"}],
   [argument_equals |-> Object(k1 :> plain)],
   [argument_equals |-> Object(k1 :> one)],
   [argument_equals |-> Object(k1 :> None)],
   [argument_contains_keys |-> {k1}],
   Malformed,
   [tool_name |-> {n1}],
   [roles |-> Malformed]}

PoliciesOf(conditions) == [conditions : conditions, effect : PolicyEffect \cup {"unknown"}]

UpToThreePolicies ==
  {<<>>} \cup [1 .. 1 -> PoliciesOf(SomeConditions)]
    \cup [1 .. 2 -> PoliciesOf(SomeConditions \ {Malformed, [tool_name |-> {n1}]})]
    \cup [1 .. 3 -> [conditions : {Everything, OfAdmins, Malformed}, effect : PolicyEffect]]

\* Few arguments under every combination of the rest; every object under one
\* combination that no policy is read for.
SomeContexts ==
  [agent_id : {n1}, role : AgentRole, target_server : {n1}, target_tool : {n1},
   risk_level : RiskLevel, action_type : {"read", "write", "destructive"},
   arguments : {Object(<<>>), Object(k1 :> plain), Object(k1 :> true), Object(k1 :> None)},
   resource : {None, res1}]
  \cup
  [agent_id : {n1}, role : {"agent"}, target_server : {n1}, target_tool : {n1},
   risk_level : {"high"}, action_type : {"read"}, arguments : Objects, resource : {None}]
=============================================================================
