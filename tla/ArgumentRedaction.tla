-------------------------- MODULE ArgumentRedaction --------------------------
(***************************************************************************)
(* The walks over the arguments of a tool call in                          *)
(* application/services/policy_engine.py: SecretScanner.scan, which finds  *)
(* secrets, and redact_arguments, which hides them, two recursions written *)
(* apart that have to agree.                                               *)
(*                                                                         *)
(* A JSON value is a scalar, a string, an object or an array.  Which keys  *)
(* contain a sensitive word and which strings match a pattern is left to   *)
(* the sets SecretKeys and SecretStrings.                                  *)
(***************************************************************************)
EXTENDS Naturals, Sequences

CONSTANTS
  ArgKeys,        \* keys of objects
  SecretKeys,     \* those _is_secret_key accepts
  Strings,
  SecretStrings,  \* those with a _value_secret_reason
  RedactedValue,  \* "[REDACTED]"
  Scalars,        \* numbers, booleans and null
  Json,           \* the values considered: these, and objects and arrays of them
  Depth,          \* how deep the members of each nest
  MaxDepth        \* and how deep a value may, which Python's recursion limit bounds

Object(entries) == [object |-> entries]
Array(items)    == [array |-> items]

Leaves  == Strings \cup Scalars
Objects == {v \in Json \ Leaves : DOMAIN v = {"object"}}
Arrays  == {v \in Json \ Leaves : DOMAIN v = {"array"}}

\* The steps from a value to its members.
Steps(v) == IF v \in Objects THEN DOMAIN v.object
            ELSE IF v \in Arrays THEN 1 .. Len(v.array) ELSE {}

Member(v, step) == IF v \in Objects THEN v.object[step] ELSE v.array[step]

ASSUME SecretKeysType    == SecretKeys \subseteq ArgKeys
ASSUME KeysAreNoIndexes  == ArgKeys \cap Nat = {}
ASSUME SecretStringsType == SecretStrings \subseteq Strings
ASSUME RedactedIsPlain   == RedactedValue \in Strings \ SecretStrings
\* A value is a leaf, an object or an array, and its members are values.
ASSUME JsonClosed ==
  /\ Strings \cap Scalars = {} /\ Leaves \subseteq Json
  /\ Json = Leaves \cup Objects \cup Arrays
  /\ \A v \in Objects : /\ v = Object(v.object) /\ DOMAIN v.object \subseteq ArgKeys
                        /\ v.object \in [DOMAIN v.object -> Json]
  /\ \A v \in Arrays : v = Array(v.array) /\ v.array \in Seq(Json)
\* Values are finite: a member nests less deep than what it is a member of.
ASSUME JsonIsFinite ==
  /\ MaxDepth \in Nat /\ Depth \in [Json -> 0 .. MaxDepth]
  /\ \A v \in Json : \A step \in Steps(v) : Depth[Member(v, step)] < Depth[v]

-----------------------------------------------------------------------------
\* Mutant: an array is kept as it is.
RedactSkipsArrays(value) ==
  LET redact[v \in Json] ==
        IF v \in Objects
        THEN Object([k \in DOMAIN v.object |->
                       IF k \in SecretKeys THEN RedactedValue ELSE redact[v.object[k]]])
        ELSE IF v \in SecretStrings THEN RedactedValue ELSE v
  IN  redact[value]

\* Whatever a secret key holds goes, and below other keys every secret string.
redact[value \in Json] ==
  IF value \in Objects
  THEN Object([k \in DOMAIN value.object |->
                 IF k \in SecretKeys THEN RedactedValue ELSE redact[value.object[k]]])
  ELSE IF value \in Arrays
  THEN Array([i \in 1 .. Len(value.array) |-> redact[value.array[i]]])
  ELSE IF value \in SecretStrings THEN RedactedValue ELSE value

redact_arguments(value) == redact[value]

\* The values considered include what redaction makes of them, and what is no leaf
\* is none after it: no leaf is a record of the form of an object or an array.
ASSUME JsonRedacted ==
  \A v \in Json : LET redacted == redact[v]
                  IN  redacted \in Json /\ (redacted \in Leaves => v \in Leaves)

\* A SecretFinding, without its wording: where, and what gave it away.
Finding(path, kind) == [path |-> path, kind |-> kind]

\* The findings of a member, seen from the value it is a member of.
Below(step, findings) == {Finding(<<step>> \o f.path, f.kind) : f \in findings}

\* Mutants: the value of a secret key is not looked at; array members are not.
ScanStopsAtKeys(value) ==
  LET found[v \in Json] ==
        IF v \in Objects
        THEN UNION {IF k \in SecretKeys THEN {Finding(<<k>>, "key_name")}
                    ELSE Below(k, found[v.object[k]]) : k \in DOMAIN v.object}
        ELSE IF v \in Arrays
        THEN UNION {Below(i, found[v.array[i]]) : i \in 1 .. Len(v.array)}
        ELSE IF v \in SecretStrings THEN {Finding(<<>>, "value_pattern")} ELSE {}
  IN  found[value]

ScanSkipsArrays(value) ==
  LET found[v \in Json] ==
        IF v \in Objects
        THEN UNION {(IF k \in SecretKeys THEN {Finding(<<k>>, "key_name")} ELSE {})
                      \cup Below(k, found[v.object[k]]) : k \in DOMAIN v.object}
        ELSE IF v \in SecretStrings THEN {Finding(<<>>, "value_pattern")} ELSE {}
  IN  found[value]

\* Every secret key, and every secret string, those below a secret key included.
scan_value[value \in Json] ==
  IF value \in Objects
  THEN UNION {(IF k \in SecretKeys THEN {Finding(<<k>>, "key_name")} ELSE {})
                \cup Below(k, scan_value[value.object[k]]) : k \in DOMAIN value.object}
  ELSE IF value \in Arrays
  THEN UNION {Below(i, scan_value[value.array[i]]) : i \in 1 .. Len(value.array)}
  ELSE IF value \in SecretStrings THEN {Finding(<<>>, "value_pattern")} ELSE {}

scan(value) == scan_value[value]

-----------------------------------------------------------------------------
\* The reference: a value as the set of its places, each with the path that leads
\* there and the value that is found there.
Place(path, value) == [path |-> path, value |-> value]

Places[v \in Json] ==
  {Place(<<>>, v)}
    \cup UNION {{Place(<<step>> \o p.path, p.value) : p \in Places[Member(v, step)]} :
                  step \in Steps(v)}

\* A secret key ends the path, or is on the way to its end.
EndsSecret(path) == path # <<>> /\ path[Len(path)] \in SecretKeys
Beneath(path)    == \E i \in 1 .. Len(path) - 1 : path[i] \in SecretKeys

\* What redaction owes: below a secret key nothing is left, elsewhere everything
\* but the secret strings is as it was (redact_arguments).
Redacts(redacted, value) ==
  LET before == Places[value]
      after  == Places[redacted]
  IN  /\ {p.path : p \in after} = {p.path : p \in {q \in before : ~Beneath(q.path)}}
      /\ \A is \in after, was \in before : is.path = was.path =>
           IF EndsSecret(was.path) \/ was.value \in SecretStrings THEN is.value = RedactedValue
           ELSE IF was.value \in Leaves THEN is.value = was.value
           ELSE is.value \notin Leaves /\ (is.value \in Objects <=> was.value \in Objects)

\* What the scan owes: a finding for each secret key and each secret string,
\* and no other (SecretScanner.scan).
Finds(findings, value) ==
  LET places == Places[value]
  IN  findings = {Finding(p.path, "key_name") : p \in {q \in places : EndsSecret(q.path)}}
            \cup {Finding(p.path, "value_pattern") : p \in {q \in places : q.value \in SecretStrings}}
=============================================================================
