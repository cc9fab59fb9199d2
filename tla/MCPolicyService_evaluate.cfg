SPECIFICATION PolicySpec
CONSTANTS
  n1 = n1
  res1 = res1
  k1 = k1
  p1 = p1
  plain = plain
  secret = secret
  Redacted = Redacted
  one = one
  true = true
  Names = {n1}
  Resources = {res1}
  ArgKeys = {k1, p1}
  SecretKeys = {p1}
  Strings = {plain, secret, Redacted}
  SecretStrings = {secret}
  RedactedValue = Redacted
  None = None
  Scalars = {None, one, true}
  EqualTo <- OneIsTrue
  Json <- SomeJson
  Depth <- DepthOfSome
  MaxDepth = 3
  Malformed = Malformed
  Conditions <- SomeConditions
  Contexts <- SomeContexts
  PolicyLists <- UpToThreePolicies
INVARIANTS PolicyTypeOK LoopInv WithinRisk DestructiveNeedsAdmin AllowIsEarned MatchedPolicyDecided NoSpuriousDeny RedactionIsComplete FindingsAreExact ReviewersSeeEverything
