---------------------------- MODULE PolicyService ----------------------------
(***************************************************************************)
(* application/services/policy_engine.py: PolicyService.evaluate, from the *)
(* context of one tool call to its decision.                               *)
(*                                                                         *)
(* The configured policies are read once, by ascending priority; rows of   *)
(* equal priority come in any order, so the list read is any list.  A row  *)
(* is its conditions and its effect, each as stored: the conditions are a  *)
(* JSON object nobody has validated, the effect is a string column.        *)
(***************************************************************************)
EXTENDS ArgumentRedaction, GatewayTypes

CONSTANTS Names,        \* agents, tools and servers a condition can name
          Resources,    \* the resource a call addresses
          None,         \* Python's None, JSON's null
          EqualTo,      \* one of the scalars each is equal to: 1 == 1.0 == True
          Malformed,    \* a JSON value that is not of the shape its place asks for
          Conditions,   \* conditions as the rows hold them
          Contexts,     \* the contexts that are evaluated
          PolicyLists   \* what list_active_by_tenant_ordered can return

AgentRole  == {"agent", "admin"}
ActionType == {"read", "write", "destructive", "external_send", "privileged"}

PolicyContext ==
  [agent_id : Names, role : AgentRole, target_server : Names, target_tool : Names,
   risk_level : RiskLevel, action_type : ActionType, arguments : Objects,
   resource : Resources \cup {None}]

\* The fields a condition may have and their well-formed values.  A glob pattern
\* stands for the set of resources fnmatchcase lets it match.
ConditionFields ==
  [roles                  |-> SUBSET AgentRole,
   agent_ids              |-> SUBSET Names,
   tool_names             |-> SUBSET Names,
   target_servers         |-> SUBSET Names,
   risk_levels            |-> SUBSET RiskLevel,
   action_types           |-> SUBSET ActionType,
   resource_patterns      |-> SUBSET (SUBSET Resources),
   argument_equals        |-> Objects,
   argument_contains_keys |-> SUBSET ArgKeys]

ALLOWED_CONDITION_FIELDS == DOMAIN ConditionFields

Policy == [conditions : Conditions, effect : PolicyEffect \cup {"unknown"}]

ASSUME NullIsScalar    == None \in Scalars
ASSUME EqualToType     == EqualTo \in [Scalars -> Scalars]
ASSUME ConditionsType  ==
  \A c \in Conditions \ {Malformed} : \A f \in DOMAIN c \cap ALLOWED_CONDITION_FIELDS :
     c[f] \in ConditionFields[f] \cup {None, Malformed}
ASSUME ContextsType    == Contexts \subseteq PolicyContext
ASSUME PolicyListsType == PolicyLists \subseteq Seq(Policy)

VARIABLES
  at,            \* the step of evaluate that is next
  context,       \* its argument
  arguments_redacted,  \* redact_arguments of its arguments, None before
  secret_findings,     \* the findings of the scan
  policies,      \* the rows read, in the order of the query
  next,          \* position of the row the loop looks at next
  allow_result,  \* position of the first allow that matched, 0 for None
  decision,      \* the decision returned
  matched        \* position of matched_policy_id, 0 for None

resultVars == <<arguments_redacted, secret_findings>>
policyVars == <<at, context, resultVars, policies, next, allow_result, decision, matched>>

-----------------------------------------------------------------------------
\* parse_policy_conditions accepts an object that has no other fields, each of
\* the shape it should have.
Parses(conditions) ==
  /\ conditions # Malformed
  /\ DOMAIN conditions \subseteq ALLOWED_CONDITION_FIELDS
  /\ \A f \in DOMAIN conditions : conditions[f] # Malformed

\* A field that is absent, or null, does not constrain; an empty list matches nothing.
Constrains(conditions, f) == f \in DOMAIN conditions /\ conditions[f] # None

Admits(conditions, f, value) == Constrains(conditions, f) => value \in conditions[f]

\* dict.get: a missing key reads as None.
ArgumentOf(arguments, key) == IF key \in DOMAIN arguments THEN arguments[key] ELSE None

\* What Python's == compares, down to the scalars of objects and arrays.
python_value[value \in Json] ==
  IF value \in Objects
  THEN Object([k \in DOMAIN value.object |-> python_value[value.object[k]]])
  ELSE IF value \in Arrays
  THEN Array([i \in 1 .. Len(value.array) |-> python_value[value.array[i]]])
  ELSE IF value \in Scalars THEN EqualTo[value] ELSE value

policy_matches(ctx, c) ==
  LET arguments == ctx.arguments.object
  IN  /\ Admits(c, "roles", ctx.role)
      /\ Admits(c, "agent_ids", ctx.agent_id)
      /\ Admits(c, "tool_names", ctx.target_tool)
      /\ Admits(c, "target_servers", ctx.target_server)
      /\ Admits(c, "risk_levels", ctx.risk_level)
      /\ Admits(c, "action_types", ctx.action_type)
      /\ Constrains(c, "resource_patterns") =>
           \E pattern \in c.resource_patterns : ctx.resource \in pattern
      /\ Constrains(c, "argument_equals") =>
           LET expected == c.argument_equals.object
           IN  \A key \in DOMAIN expected :
                 python_value[ArgumentOf(arguments, key)] = python_value[expected[key]]
      /\ Constrains(c, "argument_contains_keys") =>
           c.argument_contains_keys \subseteq DOMAIN arguments

Matches(ctx, policy) == Parses(policy.conditions) /\ policy_matches(ctx, policy.conditions)

\* The loop returns at this row: it cannot be parsed, or it matches and its
\* effect is a restriction or no effect at all.
Decisive(ctx, policy) ==
  ~Parses(policy.conditions) \/ (Matches(ctx, policy) /\ policy.effect # "allow")

-----------------------------------------------------------------------------
Return(effect, position) == at' = "returned" /\ decision' = effect /\ matched' = position

Deny == Return("deny", 0)

\* _safe_redact, _safe_hash and _safe_scan: a scanner or a hash that fails denies,
\* and so does a finding.  The redaction of an object is an object, and never fails.
ScanArguments ==
  /\ at = "scan"
  /\ arguments_redacted' = redact_arguments(context.arguments)
  /\ \/ Deny /\ secret_findings' = {}
     \/ /\ secret_findings' = scan(context.arguments)
        /\ IF secret_findings' # {}
           THEN Deny
           ELSE at' = "built_in" /\ UNCHANGED <<decision, matched>>
  /\ UNCHANGED <<context, policies, next, allow_result>>

\* Mutant: high risk is looked at before destructive actions.
HighRiskFirst ==
  /\ at = "built_in"
  /\ IF context.risk_level = "critical"
     THEN Deny
     ELSE IF context.risk_level = "high"
     THEN Return("require_approval", 0)
     ELSE IF context.action_type = "destructive" /\ context.role # "admin"
     THEN Deny
     ELSE at' = "read" /\ UNCHANGED <<decision, matched>>
  /\ UNCHANGED <<context, resultVars, policies, next, allow_result>>

\* Mutant: the configured policies come before the critical deny.
CriticalIsOverridable ==
  /\ at = "built_in"
  /\ IF context.action_type = "destructive" /\ context.role # "admin"
     THEN Deny
     ELSE IF context.risk_level = "high"
     THEN Return("require_approval", 0)
     ELSE at' = "read" /\ UNCHANGED <<decision, matched>>
  /\ UNCHANGED <<context, resultVars, policies, next, allow_result>>

\* _evaluate_non_overridable_built_in_rules
BuiltInRules ==
  /\ at = "built_in"
  /\ IF \/ context.risk_level = "critical"
        \/ context.action_type = "destructive" /\ context.role # "admin"
     THEN Deny
     ELSE IF context.risk_level = "high"
     THEN Return("require_approval", 0)
     ELSE at' = "read" /\ UNCHANGED <<decision, matched>>
  /\ UNCHANGED <<context, resultVars, policies, next, allow_result>>

\* list_active_by_tenant_ordered, or a PolicyRepositoryError.
ReadPolicies ==
  /\ at = "read"
  /\ \/ Deny /\ UNCHANGED policies
     \/ /\ policies' \in PolicyLists
        /\ at' = "loop"
        /\ UNCHANGED <<decision, matched>>
  /\ UNCHANGED <<context, resultVars, next, allow_result>>

\* Mutant: the last allow is kept.
KeepLastAllow(policy) ==
  allow_result' = IF Matches(context, policy) THEN next ELSE allow_result

\* The first allow that matches is kept, the loop goes on.
KeepFirstAllow(policy) ==
  allow_result' = IF Matches(context, policy) /\ allow_result = 0 THEN next ELSE allow_result

\* Mutants: any row that matches ends the loop, an allow like the others; an
\* effect that is none of the three is returned as it is stored; the effect is
\* converted before the row is known to match.
EvaluatePolicyFirstMatch ==
  /\ at = "loop" /\ next <= Len(policies)
  /\ LET policy == policies[next]
     IN  IF Decisive(context, policy) \/ Matches(context, policy)
         THEN IF ~Parses(policy.conditions) \/ policy.effect = "unknown"
              THEN Deny
              ELSE Return(policy.effect, next)
         ELSE UNCHANGED <<at, decision, matched>>
  /\ next' = next + 1
  /\ UNCHANGED <<context, resultVars, policies, allow_result>>

EvaluatePolicyUnchecked ==
  /\ at = "loop" /\ next <= Len(policies)
  /\ LET policy == policies[next]
     IN  IF Decisive(context, policy)
         THEN /\ IF ~Parses(policy.conditions) THEN Deny ELSE Return(policy.effect, next)
              /\ UNCHANGED allow_result
         ELSE KeepFirstAllow(policy) /\ UNCHANGED <<at, decision, matched>>
  /\ next' = next + 1
  /\ UNCHANGED <<context, resultVars, policies>>

EvaluatePolicyConvertsFirst ==
  /\ at = "loop" /\ next <= Len(policies)
  /\ LET policy == policies[next]
     IN  IF Decisive(context, policy) \/ policy.effect = "unknown"
         THEN /\ IF ~Parses(policy.conditions) \/ policy.effect = "unknown"
                 THEN Deny
                 ELSE Return(policy.effect, next)
              /\ UNCHANGED allow_result
         ELSE KeepFirstAllow(policy) /\ UNCHANGED <<at, decision, matched>>
  /\ next' = next + 1
  /\ UNCHANGED <<context, resultVars, policies>>

\* One round of the loop in _evaluate_configured_policies.
EvaluatePolicy ==
  /\ at = "loop" /\ next <= Len(policies)
  /\ LET policy == policies[next]
     IN  IF Decisive(context, policy)
         THEN /\ IF ~Parses(policy.conditions) \/ policy.effect = "unknown"
                 THEN Deny
                 ELSE Return(policy.effect, next)
              /\ UNCHANGED allow_result
         ELSE KeepFirstAllow(policy) /\ UNCHANGED <<at, decision, matched>>
  /\ next' = next + 1
  /\ UNCHANGED <<context, resultVars, policies>>

\* The end of the loop, _evaluate_low_risk_read_allow and the default.
AfterPolicies ==
  /\ at = "loop" /\ next > Len(policies)
  /\ IF \/ allow_result # 0
        \/ context.risk_level = "low" /\ context.action_type = "read"
     THEN Return("allow", allow_result)
     ELSE Deny
  /\ UNCHANGED <<context, resultVars, policies, next, allow_result>>

Returned == at = "returned" /\ UNCHANGED policyVars

PolicyInit ==
  /\ at = "scan"
  /\ context \in Contexts
  /\ arguments_redacted = None
  /\ secret_findings = {}
  /\ policies = <<>>
  /\ next = 1
  /\ allow_result = 0
  /\ decision = "none"
  /\ matched = 0

PolicyNext == \/ ScanArguments
              \/ BuiltInRules
              \/ ReadPolicies
              \/ EvaluatePolicy
              \/ AfterPolicies
              \/ Returned

PolicySpec == PolicyInit /\ [][PolicyNext]_policyVars

-----------------------------------------------------------------------------
PolicyTypeOK ==
  /\ at \in {"scan", "built_in", "read", "loop", "returned"}
  /\ context \in PolicyContext
  /\ policies \in Seq(Policy)
  /\ next \in Nat \ {0}
  /\ allow_result \in Nat
  /\ decision \in PolicyEffect \cup {"none"}
  /\ matched \in Nat

\* What call_tool may rely on: no configured policy and no order of the checks
\* widens what the risk level of the tool leaves open.
WithinRisk == at = "returned" => decision \in Decisions(context.risk_level)

\* A destructive action of an agent without the admin role is denied: neither
\* a high risk level nor a policy turns it into an approval or an allow.
DestructiveNeedsAdmin ==
  (at = "returned" /\ context.action_type = "destructive" /\ context.role # "admin")
    => decision = "deny"

\* An allow is unopposed and earned: whatever the priorities, no policy that was
\* read is broken, asks for an approval, denies or has an unknown effect for this
\* call, and either one allows it or it is a low-risk read no policy speaks of.
AllowIsEarned ==
  (at = "returned" /\ decision = "allow") =>
    /\ \A i \in 1 .. Len(policies) : ~Decisive(context, policies[i])
    /\ IF matched # 0
       THEN matched \in 1 .. Len(policies) /\ Matches(context, policies[matched])
       ELSE /\ context.risk_level = "low"
            /\ context.action_type = "read"
            /\ \A i \in 1 .. Len(policies) : ~Matches(context, policies[i])

\* The policy on record is the one that decided: it matches and has the effect
\* returned, and it is the first by priority that could decide that way.
MatchedPolicyDecided ==
  (at = "returned" /\ matched # 0) =>
    /\ matched \in 1 .. Len(policies)
    /\ Matches(context, policies[matched])
    /\ policies[matched].effect = decision
    /\ \A i \in 1 .. matched - 1 :
         ~Decisive(context, policies[i]) /\ (decision = "allow" => ~Matches(context, policies[i]))

\* A call is denied or postponed in the name of a policy, or of a rule that comes
\* before all policies, never because of a row that does not match it: if every
\* row read can be parsed and none restricts the call, a matching allow counts.
NoSpuriousDeny ==
  (at = "returned" /\ policies # <<>> /\ decision # "allow") =>
    \/ \E i \in 1 .. Len(policies) : Decisive(context, policies[i])
    \/ \A i \in 1 .. Len(policies) : ~Matches(context, policies[i])

\* Redaction hides every secret and nothing else, at any depth: below a sensitive
\* key nothing is left of the arguments, elsewhere everything but the strings that
\* look like secrets is as it was sent (redact_arguments).
RedactionIsComplete == at # "scan" => Redacts(arguments_redacted, context.arguments)

\* The scan reports every secret of the arguments at its place, those under a
\* sensitive key too, and nothing else; only when it failed, which denies the
\* call, does it report nothing (SecretScanner.scan).
FindingsAreExact ==
  at # "scan" => \/ Finds(secret_findings, context.arguments)
                 \/ decision = "deny" /\ secret_findings = {}

\* The scan and the redaction, two walks written apart, agree on what a secret is:
\* of a call that is allowed or put before a reviewer nothing has been redacted, so
\* the reviewer sees, and the audit trail shows, exactly the arguments that are sent.
ReviewersSeeEverything ==
  (at = "returned" /\ decision # "deny") => arguments_redacted = context.arguments

-----------------------------------------------------------------------------
\* What the loop has established: no row so far is decisive, and allow_result is
\* the first of them that matches.
LoopInv ==
  /\ at \in {"scan", "built_in", "read"} => allow_result = 0 /\ next = 1 /\ policies = <<>>
  /\ at # "returned" => matched = 0
  /\ at \in {"read", "loop"} =>
       /\ context.risk_level \notin {"critical", "high"}
       /\ ~(context.action_type = "destructive" /\ context.role # "admin")
  /\ at = "loop" =>
       /\ next <= Len(policies) + 1
       /\ \A i \in 1 .. next - 1 : ~Decisive(context, policies[i])
       /\ IF allow_result = 0
          THEN \A i \in 1 .. next - 1 : ~Matches(context, policies[i])
          ELSE /\ allow_result \in 1 .. next - 1
               /\ Matches(context, policies[allow_result])
               /\ \A i \in 1 .. allow_result - 1 : ~Matches(context, policies[i])

PolicyInv == /\ PolicyTypeOK
             /\ LoopInv
             /\ WithinRisk
             /\ DestructiveNeedsAdmin
             /\ AllowIsEarned
             /\ MatchedPolicyDecided
             /\ NoSpuriousDeny
=============================================================================
