------------------------- MODULE PolicyServiceProofs -------------------------
(***************************************************************************)
(* Theorems about PolicyService for every set of contexts and every list   *)
(* of policies, of any length.  What makes a policy match is not opened:   *)
(* they hold for any matcher and any parser of conditions.  What the two   *)
(* walks over the arguments do comes from ArgumentRedactionProofs.         *)
(***************************************************************************)
EXTENDS PolicyService, ArgumentRedactionProofs

\* PolicyInv holds when evaluate is entered.
LEMMA PolicyInvInit == PolicyInit => PolicyInv
<1> SUFFICES ASSUME PolicyInit PROVE PolicyInv
  OBVIOUS
<1>1. PolicyTypeOK
  BY ContextsType DEF PolicyInit, PolicyTypeOK
<1>2. at = "scan" /\ policies = <<>> /\ next = 1 /\ allow_result = 0 /\ matched = 0
  BY DEF PolicyInit
<1> QED
  BY <1>1, <1>2 DEF PolicyInv, LoopInv, WithinRisk, DestructiveNeedsAdmin, AllowIsEarned,
                    MatchedPolicyDecided, NoSpuriousDeny

\* A denial that no policy decided needs a reason only if policies were read.
LEMMA DenyStep ==
  ASSUME PolicyInv, Deny, PolicyTypeOK', context' = context, policies' = policies,
         policies # <<>> => \/ \E i \in 1 .. Len(policies) : Decisive(context, policies[i])
                            \/ \A i \in 1 .. Len(policies) : ~Matches(context, policies[i])
  PROVE  PolicyInv'
<1>1. at' = "returned" /\ decision' = "deny" /\ matched' = 0
  BY DEF Deny, Return
<1>2. WithinRisk'
  <2>1. context.risk_level \in RiskLevel
    BY DEF PolicyInv, PolicyTypeOK, PolicyContext
  <2>2. CASE context.risk_level = "critical"
    BY <1>1, <2>2 DEF WithinRisk, Decisions
  <2>3. CASE context.risk_level = "high"
    BY <1>1, <2>3 DEF WithinRisk, Decisions
  <2>4. CASE context.risk_level \notin {"critical", "high"}
    BY <1>1, <2>4 DEF WithinRisk, Decisions, PolicyEffect
  <2> QED
    BY <2>2, <2>3, <2>4
<1>3. LoopInv' /\ DestructiveNeedsAdmin' /\ AllowIsEarned' /\ MatchedPolicyDecided'
  BY <1>1 DEF LoopInv, DestructiveNeedsAdmin, AllowIsEarned, MatchedPolicyDecided
<1>4. NoSpuriousDeny'
  BY <1>1 DEF NoSpuriousDeny
<1> QED
  BY <1>2, <1>3, <1>4 DEF PolicyInv

\* PolicyInv is inductive: every step of evaluate preserves it.
LEMMA PolicyInvStep == PolicyInv /\ [PolicyNext]_policyVars => PolicyInv'
<1> SUFFICES ASSUME PolicyInv, [PolicyNext]_policyVars PROVE PolicyInv'
  OBVIOUS
<1>0. PolicyTypeOK /\ LoopInv
  BY DEF PolicyInv
<1>1. CASE UNCHANGED policyVars
  BY <1>1 DEF policyVars, PolicyInv, PolicyTypeOK, LoopInv, WithinRisk, DestructiveNeedsAdmin,
              AllowIsEarned, MatchedPolicyDecided, NoSpuriousDeny
<1>2. CASE ScanArguments
  <2>1. CASE Deny
    <3>1. PolicyTypeOK'
      BY <1>0, <1>2, <2>1 DEF ScanArguments, Deny, Return, PolicyTypeOK, PolicyEffect
    <3>2. policies = <<>> /\ context' = context /\ policies' = policies
      BY <1>0, <1>2 DEF ScanArguments, LoopInv
    <3> QED
      BY <2>1, <3>1, <3>2, DenyStep
  <2>2. CASE at' = "built_in" /\ UNCHANGED <<decision, matched>>
    BY <1>0, <1>2, <2>2 DEF ScanArguments, PolicyInv, PolicyTypeOK, LoopInv, WithinRisk,
       DestructiveNeedsAdmin, AllowIsEarned, MatchedPolicyDecided, NoSpuriousDeny
  <2> QED
    BY <1>2, <2>1, <2>2 DEF ScanArguments
<1>3. CASE BuiltInRules
  <2>0. /\ at = "built_in" /\ UNCHANGED <<context, policies, next, allow_result>>
        /\ policies = <<>> /\ matched = 0
    BY <1>0, <1>3 DEF BuiltInRules, LoopInv
  <2>1. CASE Deny
    <3>1. PolicyTypeOK'
      BY <1>0, <2>0, <2>1 DEF Deny, Return, PolicyTypeOK, PolicyEffect
    <3> QED
      BY <2>0, <2>1, <3>1, DenyStep
  <2>2. CASE /\ ~(\/ context.risk_level = "critical"
                  \/ context.action_type = "destructive" /\ context.role # "admin")
             /\ context.risk_level = "high" /\ Return("require_approval", 0)
    <3>1. at' = "returned" /\ decision' = "require_approval" /\ matched' = 0
      BY <2>2 DEF Return
    <3>2. PolicyTypeOK'
      BY <1>0, <2>0, <3>1 DEF PolicyTypeOK, PolicyEffect
    <3>3. WithinRisk' /\ DestructiveNeedsAdmin'
      BY <2>0, <2>2, <3>1 DEF WithinRisk, Decisions, DestructiveNeedsAdmin
    <3>4. LoopInv' /\ AllowIsEarned' /\ MatchedPolicyDecided' /\ NoSpuriousDeny'
      BY <2>0, <3>1 DEF LoopInv, AllowIsEarned, MatchedPolicyDecided, NoSpuriousDeny
    <3> QED
      BY <3>2, <3>3, <3>4 DEF PolicyInv
  <2>3. CASE /\ ~(\/ context.risk_level = "critical"
                  \/ context.action_type = "destructive" /\ context.role # "admin")
             /\ context.risk_level # "high"
             /\ at' = "read" /\ UNCHANGED <<decision, matched>>
    BY <1>0, <2>0, <2>3 DEF PolicyInv, PolicyTypeOK, LoopInv, WithinRisk,
       DestructiveNeedsAdmin, AllowIsEarned, MatchedPolicyDecided, NoSpuriousDeny
  <2> QED
    BY <1>3, <2>1, <2>2, <2>3 DEF BuiltInRules
<1>4. CASE ReadPolicies
  <2>0. /\ at = "read" /\ UNCHANGED <<context, next, allow_result>>
        /\ policies = <<>> /\ matched = 0 /\ next = 1 /\ allow_result = 0
    BY <1>0, <1>4 DEF ReadPolicies, LoopInv
  <2>1. CASE Deny /\ UNCHANGED policies
    <3>1. PolicyTypeOK'
      BY <1>0, <2>0, <2>1 DEF Deny, Return, PolicyTypeOK, PolicyEffect
    <3> QED
      BY <2>0, <2>1, <3>1, DenyStep
  <2>2. CASE policies' \in PolicyLists /\ at' = "loop" /\ UNCHANGED <<decision, matched>>
    <3>1. policies' \in Seq(Policy)
      BY <2>2, PolicyListsType
    <3>2. Len(policies') \in Nat
      BY <3>1
    <3>3. LoopInv'
      BY <1>0, <2>0, <2>2, <3>2 DEF LoopInv
    <3> QED
      BY <1>0, <2>0, <2>2, <3>1, <3>3 DEF PolicyInv, PolicyTypeOK, WithinRisk,
         DestructiveNeedsAdmin, AllowIsEarned, MatchedPolicyDecided, NoSpuriousDeny
  <2> QED
    BY <1>4, <2>1, <2>2 DEF ReadPolicies
<1>5. CASE EvaluatePolicy
  <2> DEFINE policy == policies[next]
  <2>0. /\ at = "loop" /\ next \in 1 .. Len(policies) /\ next' = next + 1
        /\ UNCHANGED <<context, policies>> /\ Len(policies) \in Nat /\ matched = 0
        /\ policy \in Policy
    BY <1>0, <1>5 DEF EvaluatePolicy, PolicyTypeOK, LoopInv
  <2>1. CASE Decisive(context, policy) /\ Deny /\ UNCHANGED allow_result
    <3>1. PolicyTypeOK'
      BY <1>0, <2>0, <2>1 DEF Deny, Return, PolicyTypeOK, PolicyEffect
    <3> QED
      BY <2>0, <2>1, <3>1, DenyStep
  <2>2. CASE /\ Decisive(context, policy) /\ Parses(policy.conditions)
             /\ policy.effect # "unknown" /\ Return(policy.effect, next)
             /\ UNCHANGED allow_result
    <3>1. at' = "returned" /\ decision' = policy.effect /\ matched' = next
      BY <2>2 DEF Return
    <3>2. Matches(context, policy) /\ policy.effect \in {"deny", "require_approval"}
      BY <2>0, <2>2 DEF Decisive, Policy, PolicyEffect
    <3>3. PolicyTypeOK'
      BY <1>0, <2>0, <2>2, <3>1, <3>2 DEF PolicyTypeOK, PolicyEffect
    <3>4. WithinRisk'
      BY <1>0, <2>0, <3>1, <3>2 DEF LoopInv, WithinRisk, Decisions, PolicyEffect
    <3>5. DestructiveNeedsAdmin'
      BY <1>0, <2>0 DEF LoopInv, DestructiveNeedsAdmin
    <3>6. LoopInv'
      BY <3>1 DEF LoopInv
    <3>7. AllowIsEarned'
      BY <3>1, <3>2 DEF AllowIsEarned
    <3>8. MatchedPolicyDecided'
      BY <1>0, <2>0, <3>1, <3>2 DEF MatchedPolicyDecided, LoopInv
    <3>9. NoSpuriousDeny'
      BY <2>0, <2>2, <3>1 DEF NoSpuriousDeny
    <3> QED
      BY <3>3, <3>4, <3>5, <3>6, <3>7, <3>8, <3>9 DEF PolicyInv
  <2>3. CASE ~Decisive(context, policy) /\ KeepFirstAllow(policy) /\ UNCHANGED <<at, decision, matched>>
    <3>1. allow_result' = IF Matches(context, policy) /\ allow_result = 0 THEN next ELSE allow_result
      BY <2>3 DEF KeepFirstAllow
    <3>2. PolicyTypeOK'
      BY <1>0, <2>0, <2>3, <3>1 DEF PolicyTypeOK
    <3>3. LoopInv'
      <4>1. \A i \in 1 .. next : ~Decisive(context, policies[i])
        BY <1>0, <2>0, <2>3 DEF LoopInv
      <4>2. CASE Matches(context, policy) /\ allow_result = 0
        BY <1>0, <2>0, <2>3, <3>1, <4>1, <4>2 DEF LoopInv
      <4>3. CASE ~Matches(context, policy) /\ allow_result = 0
        BY <1>0, <2>0, <2>3, <3>1, <4>1, <4>3 DEF LoopInv
      <4>4. CASE allow_result # 0
        BY <1>0, <2>0, <2>3, <3>1, <4>1, <4>4 DEF LoopInv
      <4> QED
        BY <4>2, <4>3, <4>4
    <3> QED
      BY <2>0, <2>3, <3>2, <3>3 DEF PolicyInv, WithinRisk, DestructiveNeedsAdmin,
         AllowIsEarned, MatchedPolicyDecided, NoSpuriousDeny
  <2> QED
    BY <1>5, <2>1, <2>2, <2>3 DEF EvaluatePolicy
<1>6. CASE AfterPolicies
  <2>0. /\ at = "loop" /\ next = Len(policies) + 1 /\ Len(policies) \in Nat
        /\ UNCHANGED <<context, policies, next, allow_result>>
    BY <1>0, <1>6 DEF AfterPolicies, PolicyTypeOK, LoopInv
  <2>1. \A i \in 1 .. Len(policies) : ~Decisive(context, policies[i])
    BY <1>0, <2>0 DEF LoopInv
  <2>2. CASE Return("allow", allow_result) /\ allow_result # 0
    <3>1. at' = "returned" /\ decision' = "allow" /\ matched' = allow_result
      BY <2>2 DEF Return
    <3>2. /\ allow_result \in 1 .. Len(policies)
          /\ Matches(context, policies[allow_result])
          /\ \A i \in 1 .. allow_result - 1 : ~Matches(context, policies[i])
      BY <1>0, <2>0, <2>2 DEF LoopInv
    <3>3. policies[allow_result].effect = "allow"
      BY <2>1, <3>2 DEF Decisive
    <3>4. PolicyTypeOK'
      BY <1>0, <2>0, <3>1 DEF PolicyTypeOK, PolicyEffect
    <3>5. WithinRisk' /\ DestructiveNeedsAdmin'
      BY <1>0, <2>0, <3>1 DEF LoopInv, WithinRisk, DestructiveNeedsAdmin, Decisions, PolicyEffect
    <3>6. LoopInv' /\ AllowIsEarned' /\ NoSpuriousDeny'
      BY <2>0, <2>1, <2>2, <3>1, <3>2 DEF LoopInv, AllowIsEarned, NoSpuriousDeny
    <3>7. MatchedPolicyDecided'
      BY <2>0, <2>1, <3>1, <3>2, <3>3 DEF MatchedPolicyDecided
    <3> QED
      BY <3>4, <3>5, <3>6, <3>7 DEF PolicyInv
  <2>3. CASE /\ allow_result = 0 /\ Return("allow", allow_result)
             /\ context.risk_level = "low" /\ context.action_type = "read"
    <3>1. at' = "returned" /\ decision' = "allow" /\ matched' = 0
      BY <2>3 DEF Return
    <3>2. \A i \in 1 .. Len(policies) : ~Matches(context, policies[i])
      BY <1>0, <2>0, <2>3 DEF LoopInv
    <3>3. PolicyTypeOK'
      BY <1>0, <2>0, <3>1 DEF PolicyTypeOK, PolicyEffect
    <3>4. WithinRisk' /\ DestructiveNeedsAdmin'
      BY <2>0, <2>3, <3>1 DEF WithinRisk, DestructiveNeedsAdmin, Decisions, PolicyEffect
    <3>5. LoopInv' /\ AllowIsEarned' /\ MatchedPolicyDecided' /\ NoSpuriousDeny'
      BY <2>0, <2>1, <2>3, <3>1, <3>2
         DEF LoopInv, AllowIsEarned, MatchedPolicyDecided, NoSpuriousDeny
    <3> QED
      BY <3>3, <3>4, <3>5 DEF PolicyInv
  <2>4. CASE allow_result = 0 /\ Deny
    <3>1. \A i \in 1 .. Len(policies) : ~Matches(context, policies[i])
      BY <1>0, <2>0, <2>4 DEF LoopInv
    <3>2. PolicyTypeOK'
      BY <1>0, <2>0, <2>4 DEF Deny, Return, PolicyTypeOK, PolicyEffect
    <3> QED
      BY <2>0, <2>4, <3>1, <3>2, DenyStep
  <2> QED
    BY <1>6, <2>2, <2>3, <2>4 DEF AfterPolicies
<1>7. CASE Returned
  BY <1>1, <1>7 DEF Returned
<1> QED
  BY <1>1, <1>2, <1>3, <1>4, <1>5, <1>6, <1>7 DEF PolicyNext

LEMMA PolicyInvHolds == PolicySpec => []PolicyInv
BY PolicyInvInit, PolicyInvStep, PTL DEF PolicySpec

\* The types of everything evaluate reads and decides.
THEOREM PolicyTypes == PolicySpec => []PolicyTypeOK
<1>1. PolicyInv => PolicyTypeOK
  BY DEF PolicyInv
<1> QED
  BY <1>1, PolicyInvHolds, PTL

\* What the loop of evaluate has established at each row, for lists of any length:
\* no row so far decides by itself, and the allow that is kept is the first match.
THEOREM LoopEstablishes == PolicySpec => []LoopInv
<1>1. PolicyInv => LoopInv
  BY DEF PolicyInv
<1> QED
  BY <1>1, PolicyInvHolds, PTL

\* The built-in rules prevail over every configuration: the decision is one the
\* risk level leaves open.
THEOREM RiskPrevails == PolicySpec => []WithinRisk
<1>1. PolicyInv => WithinRisk
  BY DEF PolicyInv
<1> QED
  BY <1>1, PolicyInvHolds, PTL

\* No configuration and no risk level lets a destructive action of an agent without
\* the admin role through, or before a reviewer.
THEOREM DestructiveDenied == PolicySpec => []DestructiveNeedsAdmin
<1>1. PolicyInv => DestructiveNeedsAdmin
  BY DEF PolicyInv
<1> QED
  BY <1>1, PolicyInvHolds, PTL

\* Evaluation fails closed and restrictions win: an allow means that no policy
\* of the list is unreadable, denies, or asks for an approval.
THEOREM AllowEarned == PolicySpec => []AllowIsEarned
<1>1. PolicyInv => AllowIsEarned
  BY DEF PolicyInv
<1> QED
  BY <1>1, PolicyInvHolds, PTL

\* The policy the record names is the first by priority that decides that way.
THEOREM DecisionExplained == PolicySpec => []MatchedPolicyDecided
<1>1. PolicyInv => MatchedPolicyDecided
  BY DEF PolicyInv
<1> QED
  BY <1>1, PolicyInvHolds, PTL

\* Nothing is denied or postponed because of a row that does not match it.
THEOREM DenialsExplained == PolicySpec => []NoSpuriousDeny
<1>1. PolicyInv => NoSpuriousDeny
  BY DEF PolicyInv
<1> QED
  BY <1>1, PolicyInvHolds, PTL

-----------------------------------------------------------------------------
\* Once the arguments have been looked at, the redaction and the findings are those
\* of the two walks, and a call that is not denied there has no findings: with a
\* finding, or after a failure of the scanner, evaluate has returned a denial.
ScanInv ==
  at # "scan" =>
    /\ arguments_redacted = redact_arguments(context.arguments)
    /\ \/ scan(context.arguments) = {} /\ secret_findings = {}
       \/ /\ at = "returned" /\ decision = "deny"
          /\ secret_findings \in {{}, scan(context.arguments)}

LEMMA ScanInvStep == ScanInv /\ [PolicyNext]_policyVars => ScanInv'
<1> SUFFICES ASSUME ScanInv, [PolicyNext]_policyVars PROVE ScanInv'
  OBVIOUS
<1>1. CASE UNCHANGED policyVars
  BY <1>1 DEF policyVars, resultVars, ScanInv
<1>2. CASE ScanArguments
  <2>1. UNCHANGED context /\ arguments_redacted' = redact_arguments(context.arguments)
    BY <1>2 DEF ScanArguments
  <2>2. CASE Deny /\ secret_findings' = {}
    BY <2>1, <2>2 DEF Deny, Return, ScanInv
  <2>3. CASE /\ secret_findings' = scan(context.arguments)
             /\ IF secret_findings' # {}
                THEN Deny
                ELSE at' = "built_in" /\ UNCHANGED <<decision, matched>>
    BY <2>1, <2>3 DEF Deny, Return, ScanInv
  <2> QED
    BY <1>2, <2>2, <2>3 DEF ScanArguments
<1>3. CASE BuiltInRules \/ ReadPolicies \/ EvaluatePolicy \/ AfterPolicies
  <2>1. at \in {"built_in", "read", "loop"} /\ UNCHANGED <<context, arguments_redacted, secret_findings>>
    BY <1>3 DEF BuiltInRules, ReadPolicies, EvaluatePolicy, AfterPolicies, resultVars
  <2>2. /\ arguments_redacted = redact_arguments(context.arguments)
        /\ scan(context.arguments) = {} /\ secret_findings = {}
    BY <2>1 DEF ScanInv
  <2> QED
    BY <2>1, <2>2 DEF ScanInv
<1>4. CASE Returned
  BY <1>1, <1>4 DEF Returned
<1> QED
  BY <1>1, <1>2, <1>3, <1>4 DEF PolicyNext

LEMMA ScanInvHolds == PolicySpec => []ScanInv
<1>1. PolicyInit => ScanInv
  BY DEF PolicyInit, ScanInv
<1> QED
  BY <1>1, ScanInvStep, PTL DEF PolicySpec

LEMMA ArgumentsAreJson == PolicyTypeOK => context.arguments \in Json
BY DEF PolicyTypeOK, PolicyContext, Objects

\* Whatever the arguments of the call, redaction hides every secret in them and
\* changes nothing else (redact_arguments).
THEOREM SecretsAreHidden == PolicySpec => []RedactionIsComplete
<1>1. PolicyTypeOK /\ ScanInv => RedactionIsComplete
  BY ArgumentsAreJson, RedactExact DEF ScanInv, RedactionIsComplete
<1> QED
  BY <1>1, PolicyTypes, ScanInvHolds, PTL

\* Every secret in the arguments is reported at its place and nothing else is,
\* unless the scanner failed, which denies the call (SecretScanner.scan).
THEOREM SecretsAreFound == PolicySpec => []FindingsAreExact
<1>1. PolicyTypeOK /\ ScanInv => FindingsAreExact
  BY ArgumentsAreJson, ScanExact DEF ScanInv, FindingsAreExact
<1> QED
  BY <1>1, PolicyTypes, ScanInvHolds, PTL

\* The two walks agree on what a secret is: of a call that is not denied nothing is
\* redacted, so that the reviewer sees the arguments that are sent.
THEOREM NothingIsWithheld == PolicySpec => []ReviewersSeeEverything
<1>1. PolicyTypeOK /\ ScanInv => ReviewersSeeEverything
  BY ArgumentsAreJson, CleanIsUnredacted DEF ScanInv, ReviewersSeeEverything, redact_arguments, scan
<1> QED
  BY <1>1, PolicyTypes, ScanInvHolds, PTL
=============================================================================
