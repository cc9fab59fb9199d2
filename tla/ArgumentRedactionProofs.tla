----------------------- MODULE ArgumentRedactionProofs -----------------------
(***************************************************************************)
(* That the two walks over the arguments of a call do what they owe, for   *)
(* JSON values of any width and depth.  Induction over values goes by      *)
(* their depth.                                                            *)
(***************************************************************************)
EXTENDS ArgumentRedaction, SetInduction, SequenceTheorems, TLAPS

\* A member of a value is a value, and nests less deep.
LEMMA Members ==
  ASSUME NEW v \in Json, NEW step \in Steps(v)
  PROVE  Member(v, step) \in Json /\ Depth[Member(v, step)] < Depth[v]
<1>1. CASE v \in Objects
  BY <1>1, JsonClosed, JsonIsFinite DEF Steps, Member
<1>2. CASE v \in Arrays /\ v \notin Objects
  BY <1>2, JsonClosed, JsonIsFinite DEF Steps, Member
<1> QED
  BY <1>1, <1>2 DEF Steps

\* Induction over values: a set that has each value whose members it has, has all.
LEMMA SetOfAllValues ==
  ASSUME NEW S, \A v \in Json : (\A step \in Steps(v) : Member(v, step) \in S) => v \in S
  PROVE  Json \subseteq S
<1> DEFINE T == {n \in Nat : \A v \in Json : Depth[v] < n => v \in S}
<1>0. /\ MaxDepth \in Nat
      /\ \A v \in Json : Depth[v] \in Nat /\ Depth[v] < MaxDepth + 1
      /\ \A v \in Json : \A step \in Steps(v) : Depth[Member(v, step)] < Depth[v]
  BY JsonIsFinite
<1>m. \A v \in Json : \A step \in Steps(v) : Member(v, step) \in Json
  BY Members
<1>1. 0 \in T
  BY <1>0
<1>2. ASSUME NEW n \in Nat, n \in T PROVE n + 1 \in T
  <2> SUFFICES ASSUME NEW v \in Json, Depth[v] < n + 1 PROVE v \in S
    OBVIOUS
  <2>1. \A step \in Steps(v) : Member(v, step) \in S
    BY <1>0, <1>2, <1>m
  <2> QED
    BY <2>1
<1> HIDE DEF T
<1>3. Nat \subseteq T
  BY <1>1, <1>2, SetOfAllNaturals
<1>4. MaxDepth + 1 \in T
  BY <1>0, <1>3
<1> QED
  BY <1>0, <1>4 DEF T

-----------------------------------------------------------------------------
\* Each walk is defined by recursion over the members, so that there is such a
\* function is itself a matter of induction.

\* The values that nest less than n deep.
Shallow(n) == {v \in Json : Depth[v] < n}

LEMMA ShallowMembers ==
  ASSUME NEW n \in Nat, NEW v \in Shallow(n + 1), NEW step \in Steps(v)
  PROVE  Member(v, step) \in Shallow(n)
BY Members, JsonIsFinite DEF Shallow

LEMMA AllShallow == Shallow(MaxDepth + 1) = Json /\ Shallow(0) = {}
BY JsonIsFinite DEF Shallow

RedactBody(f, value) ==
  IF value \in Objects
  THEN Object([k \in DOMAIN value.object |->
                 IF k \in SecretKeys THEN RedactedValue ELSE f[value.object[k]]])
  ELSE IF value \in Arrays
  THEN Array([i \in 1 .. Len(value.array) |-> f[value.array[i]]])
  ELSE IF value \in SecretStrings THEN RedactedValue ELSE value

LEMMA RedactBodyLocal ==
  ASSUME NEW f, NEW g, NEW v, \A step \in Steps(v) : f[Member(v, step)] = g[Member(v, step)]
  PROVE  RedactBody(f, v) = RedactBody(g, v)
<1>1. CASE v \in Objects
  BY <1>1 DEF Steps, Member, RedactBody
<1>2. CASE v \in Arrays /\ v \notin Objects
  BY <1>2 DEF Steps, Member, RedactBody
<1> QED
  BY <1>1, <1>2 DEF RedactBody

LEMMA RedactRecursion == \A v \in Json : redact[v] = RedactBody(redact, v)
<1> DEFINE Solves(f, S) == f = [v \in S |-> RedactBody(f, v)]
           T == {n \in Nat : \E f : Solves(f, Shallow(n))}
<1>1. 0 \in T
  <2>1. Solves([v \in Shallow(0) |-> v], Shallow(0))
    BY AllShallow
  <2> QED
    BY <2>1
<1>2. ASSUME NEW n \in Nat, n \in T PROVE n + 1 \in T
  <2>1. PICK f : Solves(f, Shallow(n))
    BY <1>2
  <2> DEFINE g == [v \in Shallow(n + 1) |-> RedactBody(f, v)]
  <2>2. ASSUME NEW v \in Shallow(n + 1) PROVE RedactBody(f, v) = RedactBody(g, v)
    <3>1. ASSUME NEW step \in Steps(v) PROVE f[Member(v, step)] = g[Member(v, step)]
      <4>1. Member(v, step) \in Shallow(n)
        BY ShallowMembers
      <4>2. Member(v, step) \in Shallow(n + 1)
        BY <4>1, JsonIsFinite DEF Shallow
      <4> QED
        BY <2>1, <4>1, <4>2
    <3> HIDE DEF g
    <3> QED
      BY <3>1, RedactBodyLocal
  <2>3. Solves(g, Shallow(n + 1))
    BY <2>2
  <2> HIDE DEF g, Solves
  <2>4. \E h : Solves(h, Shallow(n + 1))
    BY <2>3
  <2> QED
    BY <2>4
<1> HIDE DEF T
<1>3. MaxDepth + 1 \in T
  BY <1>1, <1>2, SetOfAllNaturals, JsonIsFinite
<1>4. \E f : Solves(f, Json)
  BY <1>3, AllShallow DEF T
<1>5. redact = CHOOSE f : Solves(f, Json)
  BY DEF redact, RedactBody
<1> HIDE DEF Solves
<1>6. Solves(redact, Json)
  BY <1>4, <1>5
<1> QED
  BY <1>6 DEF Solves

ScanBody(f, value) ==
  IF value \in Objects
  THEN UNION {(IF k \in SecretKeys THEN {Finding(<<k>>, "key_name")} ELSE {})
                \cup Below(k, f[value.object[k]]) : k \in DOMAIN value.object}
  ELSE IF value \in Arrays
  THEN UNION {Below(i, f[value.array[i]]) : i \in 1 .. Len(value.array)}
  ELSE IF value \in SecretStrings THEN {Finding(<<>>, "value_pattern")} ELSE {}

LEMMA ScanBodyLocal ==
  ASSUME NEW f, NEW g, NEW v, \A step \in Steps(v) : f[Member(v, step)] = g[Member(v, step)]
  PROVE  ScanBody(f, v) = ScanBody(g, v)
<1>1. CASE v \in Objects
  BY <1>1 DEF Steps, Member, ScanBody
<1>2. CASE v \in Arrays /\ v \notin Objects
  BY <1>2 DEF Steps, Member, ScanBody
<1> QED
  BY <1>1, <1>2 DEF ScanBody

LEMMA ScanRecursion == \A v \in Json : scan_value[v] = ScanBody(scan_value, v)
<1> DEFINE Solves(f, S) == f = [v \in S |-> ScanBody(f, v)]
           T == {n \in Nat : \E f : Solves(f, Shallow(n))}
<1>1. 0 \in T
  <2>1. Solves([v \in Shallow(0) |-> v], Shallow(0))
    BY AllShallow
  <2> QED
    BY <2>1
<1>2. ASSUME NEW n \in Nat, n \in T PROVE n + 1 \in T
  <2>1. PICK f : Solves(f, Shallow(n))
    BY <1>2
  <2> DEFINE g == [v \in Shallow(n + 1) |-> ScanBody(f, v)]
  <2>2. ASSUME NEW v \in Shallow(n + 1) PROVE ScanBody(f, v) = ScanBody(g, v)
    <3>1. ASSUME NEW step \in Steps(v) PROVE f[Member(v, step)] = g[Member(v, step)]
      <4>1. Member(v, step) \in Shallow(n)
        BY ShallowMembers
      <4>2. Member(v, step) \in Shallow(n + 1)
        BY <4>1, JsonIsFinite DEF Shallow
      <4> QED
        BY <2>1, <4>1, <4>2
    <3> HIDE DEF g
    <3> QED
      BY <3>1, ScanBodyLocal
  <2>3. Solves(g, Shallow(n + 1))
    BY <2>2
  <2> HIDE DEF g, Solves
  <2>4. \E h : Solves(h, Shallow(n + 1))
    BY <2>3
  <2> QED
    BY <2>4
<1> HIDE DEF T
<1>3. MaxDepth + 1 \in T
  BY <1>1, <1>2, SetOfAllNaturals, JsonIsFinite
<1>4. \E f : Solves(f, Json)
  BY <1>3, AllShallow DEF T
<1>5. scan_value = CHOOSE f : Solves(f, Json)
  BY DEF scan_value, ScanBody
<1> HIDE DEF Solves
<1>6. Solves(scan_value, Json)
  BY <1>4, <1>5
<1> QED
  BY <1>6 DEF Solves

PlacesBody(f, v) ==
  {Place(<<>>, v)}
    \cup UNION {{Place(<<step>> \o p.path, p.value) : p \in f[Member(v, step)]} : step \in Steps(v)}

LEMMA InPlacesBody ==
  ASSUME NEW f, NEW v, NEW x
  PROVE  x \in PlacesBody(f, v)
           <=> \/ x = Place(<<>>, v)
               \/ \E step \in Steps(v) : \E p \in f[Member(v, step)] :
                    x = Place(<<step>> \o p.path, p.value)
<1> DEFINE Under(step) == {Place(<<step>> \o p.path, p.value) : p \in f[Member(v, step)]}
<1>1. \A step : x \in Under(step)
                  <=> \E p \in f[Member(v, step)] : x = Place(<<step>> \o p.path, p.value)
  OBVIOUS
<1>2. PlacesBody(f, v) = {Place(<<>>, v)} \cup UNION {Under(step) : step \in Steps(v)}
  BY DEF PlacesBody
<1> HIDE DEF Under
<1>3. x \in UNION {Under(step) : step \in Steps(v)} <=> \E step \in Steps(v) : x \in Under(step)
  OBVIOUS
<1> QED
  BY <1>1, <1>2, <1>3

LEMMA PlacesBodyLocal ==
  ASSUME NEW f, NEW g, NEW v, \A step \in Steps(v) : f[Member(v, step)] = g[Member(v, step)]
  PROVE  PlacesBody(f, v) = PlacesBody(g, v)
<1> SUFFICES ASSUME NEW x PROVE x \in PlacesBody(f, v) <=> x \in PlacesBody(g, v)
  OBVIOUS
<1>1. (\E step \in Steps(v) : \E p \in f[Member(v, step)] : x = Place(<<step>> \o p.path, p.value))
        <=> \E step \in Steps(v) : \E p \in g[Member(v, step)] : x = Place(<<step>> \o p.path, p.value)
  OBVIOUS
<1> QED
  BY <1>1, InPlacesBody

LEMMA PlacesRecursion == \A v \in Json : Places[v] = PlacesBody(Places, v)
<1> DEFINE Solves(f, S) == f = [v \in S |-> PlacesBody(f, v)]
           T == {n \in Nat : \E f : Solves(f, Shallow(n))}
<1>1. 0 \in T
  <2>1. Solves([v \in Shallow(0) |-> v], Shallow(0))
    BY AllShallow
  <2> QED
    BY <2>1
<1>2. ASSUME NEW n \in Nat, n \in T PROVE n + 1 \in T
  <2>1. PICK f : Solves(f, Shallow(n))
    BY <1>2
  <2> DEFINE g == [v \in Shallow(n + 1) |-> PlacesBody(f, v)]
  <2>2. ASSUME NEW v \in Shallow(n + 1) PROVE PlacesBody(f, v) = PlacesBody(g, v)
    <3>1. ASSUME NEW step \in Steps(v) PROVE f[Member(v, step)] = g[Member(v, step)]
      <4>1. Member(v, step) \in Shallow(n)
        BY ShallowMembers
      <4>2. Member(v, step) \in Shallow(n + 1)
        BY <4>1, JsonIsFinite DEF Shallow
      <4> QED
        BY <2>1, <4>1, <4>2
    <3> HIDE DEF g
    <3> QED
      BY <3>1, PlacesBodyLocal
  <2>3. Solves(g, Shallow(n + 1))
    BY <2>2
  <2> HIDE DEF g, Solves
  <2>4. \E h : Solves(h, Shallow(n + 1))
    BY <2>3
  <2> QED
    BY <2>4
<1> HIDE DEF T
<1>3. MaxDepth + 1 \in T
  BY <1>1, <1>2, SetOfAllNaturals, JsonIsFinite
<1>4. \E f : Solves(f, Json)
  BY <1>3, AllShallow DEF T
<1>5. Places = CHOOSE f : Solves(f, Json)
  BY DEF Places, PlacesBody
<1> HIDE DEF Solves
<1>6. Solves(Places, Json)
  BY <1>4, <1>5
<1> QED
  BY <1>6 DEF Solves

-----------------------------------------------------------------------------
\* A value the scan finds nothing in is not changed by the redaction.
LEMMA CleanIsUnredacted == \A v \in Json : scan_value[v] = {} => redact[v] = v
<1> DEFINE S == {v \in Json : scan_value[v] = {} => redact[v] = v}
<1> SUFFICES ASSUME NEW v \in Json, \A step \in Steps(v) : Member(v, step) \in S,
                    scan_value[v] = {}
             PROVE  redact[v] = v
  <2> HIDE DEF S
  <2>1. (\A v \in Json : (\A step \in Steps(v) : Member(v, step) \in S) => v \in S) => Json \subseteq S
    BY SetOfAllValues
  <2> QED
    BY <2>1 DEF S
<1>0. ScanBody(scan_value, v) = {} /\ redact[v] = RedactBody(redact, v)
  BY ScanRecursion, RedactRecursion
<1>1. CASE v \in Objects
  <2>1. v = Object(v.object) /\ v.object = [k \in DOMAIN v.object |-> v.object[k]]
    BY <1>1, JsonClosed
  <2>2. ASSUME NEW k \in DOMAIN v.object
        PROVE  k \notin SecretKeys /\ redact[v.object[k]] = v.object[k]
    <3> DEFINE At(key) == (IF key \in SecretKeys THEN {Finding(<<key>>, "key_name")} ELSE {})
                            \cup Below(key, scan_value[v.object[key]])
    <3>0. UNION {At(key) : key \in DOMAIN v.object} = {} => At(k) = {}
      <4> HIDE DEF At
      <4> QED
        OBVIOUS
    <3>1. /\ (IF k \in SecretKeys THEN {Finding(<<k>>, "key_name")} ELSE {}) = {}
          /\ Below(k, scan_value[v.object[k]]) = {}
      BY <1>0, <1>1, <3>0 DEF ScanBody
    <3>2. scan_value[v.object[k]] = {}
      BY <3>1 DEF Below
    <3>3. v.object[k] \in S
      BY <1>1 DEF Steps, Member
    <3> QED
      BY <3>1, <3>2, <3>3
  <2>3. [k \in DOMAIN v.object |-> IF k \in SecretKeys THEN RedactedValue ELSE redact[v.object[k]]]
          = [k \in DOMAIN v.object |-> v.object[k]]
    BY <2>2
  <2> QED
    BY <1>0, <1>1, <2>1, <2>3 DEF RedactBody
<1>2. CASE v \in Arrays /\ v \notin Objects
  <2>1. v = Array(v.array) /\ v.array = [i \in 1 .. Len(v.array) |-> v.array[i]]
    BY <1>2, JsonClosed
  <2>2. ASSUME NEW i \in 1 .. Len(v.array) PROVE redact[v.array[i]] = v.array[i]
    <3>1. Below(i, scan_value[v.array[i]]) = {}
      BY <1>0, <1>2 DEF ScanBody
    <3>2. scan_value[v.array[i]] = {}
      BY <3>1 DEF Below
    <3>3. v.array[i] \in S
      BY <1>2 DEF Steps, Member
    <3> QED
      BY <3>2, <3>3
  <2>3. [i \in 1 .. Len(v.array) |-> redact[v.array[i]]] = [i \in 1 .. Len(v.array) |-> v.array[i]]
    BY <2>2
  <2> QED
    BY <1>0, <1>2, <2>1, <2>3 DEF RedactBody
<1>3. CASE v \notin Objects /\ v \notin Arrays
  BY <1>0, <1>3 DEF ScanBody, RedactBody
<1> QED
  BY <1>1, <1>2, <1>3

-----------------------------------------------------------------------------
\* Paths: sequences of keys and indexes.
PathSteps == ArgKeys \cup Nat

LEMMA StepsAreKeysOrIndexes ==
  ASSUME NEW v \in Json, NEW step \in Steps(v)
  PROVE  step \in PathSteps /\ (v \in Arrays /\ v \notin Objects => step \notin SecretKeys)
BY JsonClosed, KeysAreNoIndexes, SecretKeysType DEF Steps, PathSteps

LEMMA NothingIsSecret == ~EndsSecret(<<>>) /\ ~Beneath(<<>>)
<1>1. \A i \in 1 .. Len(<<>>) - 1 : FALSE
  <2>1. Len(<<>>) = 0
    BY EmptySeq
  <2> QED
    BY <2>1
<1> QED
  BY <1>1 DEF EndsSecret, Beneath

\* What a path with one more step in front is, ends in and leads through.
LEMMA LongerPath ==
  ASSUME NEW step \in PathSteps, NEW path \in Seq(PathSteps)
  PROVE  /\ <<step>> \o path \in Seq(PathSteps)
         /\ <<step>> \o path # <<>>
         /\ path = <<>> => <<step>> \o path = <<step>>
         /\ Len(<<step>> \o path) = Len(path) + 1
         /\ (<<step>> \o path)[1] = step
         /\ \A i \in 1 .. Len(path) : (<<step>> \o path)[i + 1] = path[i]
<1>1. <<step>> \in Seq(PathSteps) /\ Len(<<step>>) = 1 /\ <<step>>[1] = step
  OBVIOUS
<1>2. Len(path) \in Nat
  BY LenProperties
<1>3. /\ <<step>> \o path \in Seq(PathSteps)
      /\ Len(<<step>> \o path) = 1 + Len(path)
      /\ \A i \in 1 .. 1 + Len(path) :
           (<<step>> \o path)[i] = IF i <= 1 THEN <<step>>[i] ELSE path[i - 1]
  BY <1>1, ConcatProperties, Zenon
<1>4. (<<step>> \o path)[1] = step
  BY <1>1, <1>2, <1>3
<1>5. ASSUME NEW i \in 1 .. Len(path) PROVE (<<step>> \o path)[i + 1] = path[i]
  BY <1>2, <1>3
<1>6. <<step>> \o path # <<>>
  BY <1>2, <1>3, EmptySeq
<1>7. path = <<>> => <<step>> \o path = <<step>>
  BY <1>1, ConcatEmptySeq, Zenon
<1> QED
  BY <1>2, <1>3, <1>4, <1>5, <1>6, <1>7

LEMMA LongerPathsDiffer ==
  ASSUME NEW s \in PathSteps, NEW t \in PathSteps,
         NEW p \in Seq(PathSteps), NEW q \in Seq(PathSteps), <<s>> \o p = <<t>> \o q
  PROVE  s = t /\ p = q
<1>1. s = t
  BY LongerPath
<1>2. Len(p) \in Nat /\ Len(q) \in Nat /\ Len(p) + 1 = Len(q) + 1
  BY LongerPath, LenProperties
<1>3. ASSUME NEW i \in 1 .. Len(p) PROVE p[i] = q[i]
  <2>1. i \in 1 .. Len(q)
    BY <1>2
  <2>2. p[i] = (<<s>> \o p)[i + 1] /\ q[i] = (<<t>> \o q)[i + 1]
    BY <2>1, LongerPath
  <2> QED
    BY <2>2
<1> QED
  BY <1>1, <1>2, <1>3, SeqEqual

LEMMA LongerPathEndsSecret ==
  ASSUME NEW step \in PathSteps, NEW path \in Seq(PathSteps)
  PROVE  EndsSecret(<<step>> \o path)
           <=> (path = <<>> /\ step \in SecretKeys) \/ EndsSecret(path)
<1> DEFINE longer == <<step>> \o path
<1>1. /\ Len(path) \in Nat /\ longer # <<>> /\ Len(longer) = Len(path) + 1
      /\ longer[1] = step /\ \A i \in 1 .. Len(path) : longer[i + 1] = path[i]
  BY LongerPath, LenProperties
<1> HIDE DEF longer
<1>2. ASSUME path = <<>> PROVE (EndsSecret(longer) <=> step \in SecretKeys) /\ ~EndsSecret(path)
  BY <1>1, <1>2, EmptySeq DEF EndsSecret
<1>3. ASSUME path # <<>> PROVE EndsSecret(longer) <=> EndsSecret(path)
  <2>1. Len(path) \in 1 .. Len(path)
    BY <1>1, <1>3, EmptySeq
  <2>2. longer[Len(longer)] = path[Len(path)]
    BY <1>1, <2>1
  <2> QED
    BY <1>1, <1>3, <2>2 DEF EndsSecret
<1>4. EndsSecret(longer) <=> (path = <<>> /\ step \in SecretKeys) \/ EndsSecret(path)
  BY <1>2, <1>3
<1> QED
  BY <1>4 DEF longer

LEMMA LongerPathBeneath ==
  ASSUME NEW step \in PathSteps, NEW path \in Seq(PathSteps)
  PROVE  Beneath(<<step>> \o path)
           <=> (path # <<>> /\ step \in SecretKeys) \/ Beneath(path)
<1> DEFINE longer == <<step>> \o path
<1>1. /\ Len(path) \in Nat /\ Len(longer) = Len(path) + 1 /\ (path # <<>> => Len(path) # 0)
      /\ longer[1] = step /\ \A i \in 1 .. Len(path) : longer[i + 1] = path[i]
  BY LongerPath, LenProperties, EmptySeq
<1>0. path = <<>> => Len(path) = 0
  BY EmptySeq
<1> HIDE DEF longer
<1>2. ASSUME NEW i \in 1 .. Len(longer) - 1, longer[i] \in SecretKeys
      PROVE  (path # <<>> /\ step \in SecretKeys) \/ Beneath(path)
  <2>1. CASE i = 1
    BY <1>0, <1>1, <1>2, <2>1
  <2>2. CASE i # 1
    <3>1. i - 1 \in 1 .. Len(path) - 1 /\ i - 1 \in 1 .. Len(path) /\ (i - 1) + 1 = i
      BY <1>1, <1>2, <2>2
    <3>2. path[i - 1] = longer[i]
      BY <1>1, <3>1
    <3> QED
      BY <1>2, <3>1, <3>2 DEF Beneath
  <2> QED
    BY <2>1, <2>2
<1>3. ASSUME path # <<>>, step \in SecretKeys PROVE Beneath(longer)
  <2>1. 1 \in 1 .. Len(longer) - 1
    BY <1>1, <1>3
  <2> QED
    BY <1>1, <1>3, <2>1 DEF Beneath
<1>4. ASSUME NEW i \in 1 .. Len(path) - 1, path[i] \in SecretKeys PROVE Beneath(longer)
  <2>1. i \in 1 .. Len(path) /\ i + 1 \in 1 .. Len(longer) - 1
    BY <1>1
  <2>2. longer[i + 1] \in SecretKeys
    BY <1>1, <1>4, <2>1
  <2> QED
    BY <2>1, <2>2 DEF Beneath
<1>5. Beneath(longer) <=> (path # <<>> /\ step \in SecretKeys) \/ Beneath(path)
  BY <1>2, <1>3, <1>4 DEF Beneath
<1> QED
  BY <1>5 DEF longer

-----------------------------------------------------------------------------
\* The places of a value: its own, and those of its members one step further.
LEMMA InPlaces ==
  ASSUME NEW v \in Json, NEW x
  PROVE  x \in Places[v]
           <=> \/ x = Place(<<>>, v)
               \/ \E step \in Steps(v) : \E p \in Places[Member(v, step)] :
                    x = Place(<<step>> \o p.path, p.value)
<1>1. Places[v] = PlacesBody(Places, v)
  BY PlacesRecursion
<1> QED
  BY <1>1, InPlacesBody

LEMMA PlacesType == \A v \in Json : \A p \in Places[v] : p.path \in Seq(PathSteps)
<1> DEFINE S == {v \in Json : \A p \in Places[v] : p.path \in Seq(PathSteps)}
<1>1. ASSUME NEW v \in Json, \A step \in Steps(v) : Member(v, step) \in S PROVE v \in S
  <2> SUFFICES ASSUME NEW p \in Places[v] PROVE p.path \in Seq(PathSteps)
    OBVIOUS
  <2>1. CASE p = Place(<<>>, v)
    BY <2>1, EmptySeq DEF Place
  <2>2. ASSUME NEW step \in Steps(v), NEW q \in Places[Member(v, step)],
               p = Place(<<step>> \o q.path, q.value)
        PROVE  p.path \in Seq(PathSteps)
    <3>1. step \in PathSteps /\ q.path \in Seq(PathSteps)
      BY <1>1, StepsAreKeysOrIndexes
    <3>2. <<step>> \o q.path \in Seq(PathSteps)
      BY <3>1, LongerPath
    <3> QED
      BY <2>2, <3>2 DEF Place
  <2> QED
    BY <2>1, <2>2, InPlaces
<1> HIDE DEF S
<1>2. Json \subseteq S
  BY <1>1, SetOfAllValues
<1> QED
  BY <1>2 DEF S

\* What lies at the end of the empty path is the value itself.
LEMMA OwnPlace ==
  ASSUME NEW v \in Json
  PROVE  Place(<<>>, v) \in Places[v] /\ \A p \in Places[v] : p.path = <<>> => p = Place(<<>>, v)
<1>1. Place(<<>>, v) \in Places[v]
  BY InPlaces
<1>2. ASSUME NEW p \in Places[v], p.path = <<>> PROVE p = Place(<<>>, v)
  <2>1. ASSUME NEW step \in Steps(v), NEW q \in Places[Member(v, step)],
               p = Place(<<step>> \o q.path, q.value)
        PROVE  FALSE
    <3>1. step \in PathSteps /\ q.path \in Seq(PathSteps)
      BY Members, PlacesType, StepsAreKeysOrIndexes
    <3>2. <<step>> \o q.path # <<>>
      BY <3>1, LongerPath
    <3> QED
      BY <1>2, <2>1, <3>2 DEF Place
  <2> QED
    BY <2>1, InPlaces
<1> QED
  BY <1>1, <1>2

-----------------------------------------------------------------------------
\* The findings of a value: its own, those its secret keys give, and those of its
\* members one step further.
LEMMA InScan ==
  ASSUME NEW v \in Json, NEW x
  PROVE  x \in scan_value[v]
           <=> \/ v \in SecretStrings /\ x = Finding(<<>>, "value_pattern")
               \/ \E step \in Steps(v) :
                    \/ step \in SecretKeys /\ x = Finding(<<step>>, "key_name")
                    \/ \E f \in scan_value[Member(v, step)] : x = Finding(<<step>> \o f.path, f.kind)
<1> DEFINE key(step) == IF step \in SecretKeys THEN {Finding(<<step>>, "key_name")} ELSE {}
           below(step) == Below(step, scan_value[Member(v, step)])
           Goal == \/ v \in SecretStrings /\ x = Finding(<<>>, "value_pattern")
                   \/ \E step \in Steps(v) :
                        \/ step \in SecretKeys /\ x = Finding(<<step>>, "key_name")
                        \/ \E f \in scan_value[Member(v, step)] :
                             x = Finding(<<step>> \o f.path, f.kind)
<1>0. scan_value[v] = ScanBody(scan_value, v)
  BY ScanRecursion
<1>1. \A step : x \in key(step) <=> step \in SecretKeys /\ x = Finding(<<step>>, "key_name")
  OBVIOUS
<1>2. \A step : x \in below(step)
                  <=> \E f \in scan_value[Member(v, step)] : x = Finding(<<step>> \o f.path, f.kind)
  BY DEF Below
<1>3. CASE v \in Objects
  <2>1. v \notin SecretStrings /\ Steps(v) = DOMAIN v.object
    BY <1>3, SecretStringsType DEF Objects, Leaves, Steps
  <2>2. scan_value[v] = UNION {key(step) \cup below(step) : step \in Steps(v)}
    BY <1>0, <1>3 DEF ScanBody, Steps, Member
  <2> HIDE DEF key, below
  <2>3. x \in scan_value[v] <=> \E step \in Steps(v) : x \in key(step) \/ x \in below(step)
    BY <2>2
  <2> QED
    BY <1>1, <1>2, <2>1, <2>3
<1>4. CASE v \in Arrays /\ v \notin Objects
  <2>1. v \notin SecretStrings /\ Steps(v) = 1 .. Len(v.array)
    BY <1>4, SecretStringsType DEF Arrays, Leaves, Steps
  <2>2. scan_value[v] = UNION {below(step) : step \in Steps(v)}
    BY <1>0, <1>4 DEF ScanBody, Steps, Member
  <2> HIDE DEF key, below
  <2>3. x \in scan_value[v] <=> \E step \in Steps(v) : x \in below(step)
    BY <2>2
  <2>4. \A step \in Steps(v) : step \notin SecretKeys
    BY <1>4, StepsAreKeysOrIndexes
  <2> QED
    BY <1>2, <2>1, <2>3, <2>4
<1>5. CASE v \notin Arrays /\ v \notin Objects
  <2>1. Steps(v) = {}
    BY <1>5 DEF Steps
  <2> QED
    BY <1>0, <1>5, <2>1 DEF ScanBody
<1> QED
  BY <1>3, <1>4, <1>5

\* The finding that a place gives cause for.
Gives(p, x) == \/ EndsSecret(p.path) /\ x = Finding(p.path, "key_name")
               \/ p.value \in SecretStrings /\ x = Finding(p.path, "value_pattern")

LEMMA FindsAll ==
  ASSUME NEW v, NEW findings, \A x : x \in findings <=> \E p \in Places[v] : Gives(p, x)
  PROVE  Finds(findings, v)
<1> DEFINE keys == {Finding(p.path, "key_name") : p \in {q \in Places[v] : EndsSecret(q.path)}}
           strings == {Finding(p.path, "value_pattern") : p \in {q \in Places[v] : q.value \in SecretStrings}}
<1>1. \A x : x \in keys <=> \E p \in Places[v] : EndsSecret(p.path) /\ x = Finding(p.path, "key_name")
  OBVIOUS
<1>2. \A x : x \in strings
               <=> \E p \in Places[v] : p.value \in SecretStrings /\ x = Finding(p.path, "value_pattern")
  OBVIOUS
<1> HIDE DEF keys, strings
<1>3. \A x : x \in findings <=> x \in keys \cup strings
  BY <1>1, <1>2 DEF Gives
<1>4. findings = keys \cup strings
  BY <1>3
<1> QED
  BY <1>4 DEF Finds, keys, strings

LEMMA FindsOnly ==
  ASSUME NEW v, NEW findings, Finds(findings, v), NEW x
  PROVE  x \in findings <=> \E p \in Places[v] : Gives(p, x)
<1> DEFINE keys == {Finding(p.path, "key_name") : p \in {q \in Places[v] : EndsSecret(q.path)}}
           strings == {Finding(p.path, "value_pattern") : p \in {q \in Places[v] : q.value \in SecretStrings}}
<1>1. x \in keys <=> \E p \in Places[v] : EndsSecret(p.path) /\ x = Finding(p.path, "key_name")
  OBVIOUS
<1>2. x \in strings
        <=> \E p \in Places[v] : p.value \in SecretStrings /\ x = Finding(p.path, "value_pattern")
  OBVIOUS
<1>3. findings = keys \cup strings
  BY DEF Finds
<1> HIDE DEF keys, strings
<1> QED
  BY <1>1, <1>2, <1>3 DEF Gives

\* The scan reports every secret of a value at its place, those under a sensitive
\* key too, and nothing else, whatever the value (SecretScanner.scan).
THEOREM ScanExact == \A v \in Json : Finds(scan(v), v)
<1> DEFINE S == {v \in Json : Finds(scan_value[v], v)}
<1>1. ASSUME NEW v \in Json, \A step \in Steps(v) : Member(v, step) \in S PROVE v \in S
  <2> SUFFICES ASSUME NEW x
               PROVE  x \in scan_value[v] <=> \E p \in Places[v] : Gives(p, x)
    BY FindsAll
  <2>1. ASSUME v \in SecretStrings, x = Finding(<<>>, "value_pattern")
        PROVE  \E p \in Places[v] : Gives(p, x)
    BY <2>1, OwnPlace DEF Gives, Place
  <2>2. ASSUME NEW step \in Steps(v), step \in SecretKeys, x = Finding(<<step>>, "key_name")
        PROVE  \E p \in Places[v] : Gives(p, x)
    <3> DEFINE p == Place(<<step>> \o <<>>, Member(v, step))
    <3>1. Place(<<>>, Member(v, step)) \in Places[Member(v, step)]
      BY Members, OwnPlace
    <3>2. p \in Places[v]
      BY <3>1, InPlaces DEF Place
    <3>3. step \in PathSteps /\ <<>> \in Seq(PathSteps)
      BY StepsAreKeysOrIndexes, EmptySeq
    <3>4. EndsSecret(<<step>> \o <<>>) /\ <<step>> \o <<>> = <<step>>
      BY <2>2, <3>3, LongerPath, LongerPathEndsSecret
    <3> QED
      BY <2>2, <3>2, <3>4 DEF Gives, Place
  <2>3. ASSUME NEW step \in Steps(v), NEW f \in scan_value[Member(v, step)],
               x = Finding(<<step>> \o f.path, f.kind)
        PROVE  \E p \in Places[v] : Gives(p, x)
    <3>1. PICK q \in Places[Member(v, step)] : Gives(q, f)
      BY <1>1, FindsOnly
    <3> DEFINE p == Place(<<step>> \o q.path, q.value)
    <3>2. p \in Places[v]
      BY InPlaces
    <3>3. step \in PathSteps /\ q.path \in Seq(PathSteps)
      BY Members, PlacesType, StepsAreKeysOrIndexes
    <3>4. EndsSecret(q.path) => EndsSecret(<<step>> \o q.path)
      BY <3>3, LongerPathEndsSecret
    <3>5. p.path = <<step>> \o q.path /\ p.value = q.value
      BY DEF Place
    <3> HIDE DEF p
    <3>6. \A kind : f = Finding(q.path, kind) => x = Finding(p.path, kind)
      BY <2>3, <3>5 DEF Finding
    <3>7. Gives(p, x)
      BY <3>1, <3>4, <3>5, <3>6 DEF Gives
    <3> QED
      BY <3>2, <3>7
  <2>4. ASSUME NEW p \in Places[v], Gives(p, x) PROVE x \in scan_value[v]
    <3>1. CASE p = Place(<<>>, v)
      BY <2>4, <3>1, InScan, NothingIsSecret DEF Gives, Place
    <3>2. ASSUME NEW step \in Steps(v), NEW q \in Places[Member(v, step)],
                 p = Place(<<step>> \o q.path, q.value)
          PROVE  x \in scan_value[v]
      <4>1. step \in PathSteps /\ q.path \in Seq(PathSteps)
        BY Members, PlacesType, StepsAreKeysOrIndexes
      <4>2. p.path = <<step>> \o q.path /\ p.value = q.value
        BY <3>2 DEF Place
      <4>3. CASE q.path = <<>> /\ step \in SecretKeys /\ x = Finding(p.path, "key_name")
        <5>1. p.path = <<step>>
          BY <4>1, <4>2, <4>3, LongerPath
        <5> QED
          BY <4>3, <5>1, InScan
      <4>4. ASSUME NEW kind, Gives(q, Finding(q.path, kind)), x = Finding(p.path, kind)
            PROVE  x \in scan_value[v]
        <5>1. Finding(q.path, kind) \in scan_value[Member(v, step)]
          BY <1>1, <4>4, FindsOnly
        <5>2. x = Finding(<<step>> \o Finding(q.path, kind).path, Finding(q.path, kind).kind)
          BY <4>2, <4>4 DEF Finding
        <5> QED
          BY <5>1, <5>2, InScan
      <4>5. CASE p.value \in SecretStrings /\ x = Finding(p.path, "value_pattern")
        BY <4>2, <4>4, <4>5 DEF Gives
      <4>6. CASE EndsSecret(p.path) /\ x = Finding(p.path, "key_name")
        <5>1. (q.path = <<>> /\ step \in SecretKeys) \/ EndsSecret(q.path)
          BY <4>1, <4>2, <4>6, LongerPathEndsSecret
        <5>2. CASE EndsSecret(q.path)
          BY <4>4, <4>6, <5>2 DEF Gives
        <5> QED
          BY <4>3, <4>6, <5>1, <5>2
      <4> QED
        BY <2>4, <4>5, <4>6 DEF Gives
    <3> QED
      BY <3>1, <3>2, InPlaces
  <2>5. x \in scan_value[v] => \E p \in Places[v] : Gives(p, x)
    BY <2>1, <2>2, <2>3, InScan
  <2> QED
    BY <2>4, <2>5
<1> HIDE DEF S
<1>2. Json \subseteq S
  BY <1>1, SetOfAllValues
<1> QED
  BY <1>2 DEF S, scan

-----------------------------------------------------------------------------
\* A leaf has no members, a redacted value has the members of the value, each
\* hidden or redacted, and is an object if and only if the value is.
LEMMA LeafPlaces ==
  ASSUME NEW v \in Leaves
  PROVE  v \in Json /\ Steps(v) = {} /\ \A p : p \in Places[v] <=> p = Place(<<>>, v)
<1>1. v \in Json /\ Steps(v) = {}
  BY JsonClosed DEF Steps, Objects, Arrays
<1> QED
  BY <1>1, InPlaces

LEMMA RedactedShape ==
  ASSUME NEW v \in Json
  PROVE  /\ redact[v] \in Json
         /\ v \in SecretStrings => redact[v] = RedactedValue
         /\ v \in Leaves \ SecretStrings => redact[v] = v
         /\ v \notin Leaves => /\ redact[v] \notin Leaves
                               /\ redact[v] \in Objects <=> v \in Objects
         /\ Steps(redact[v]) = Steps(v)
         /\ \A step \in Steps(v) :
              Member(redact[v], step)
                = IF step \in SecretKeys THEN RedactedValue ELSE redact[Member(v, step)]
<1>0. /\ redact[v] \in Json /\ redact[v] = RedactBody(redact, v)
      /\ redact[v] \in Leaves => v \in Leaves
      /\ SecretStrings \subseteq Leaves /\ RedactedValue \in Leaves
  BY JsonRedacted, RedactRecursion, SecretStringsType, RedactedIsPlain DEF Leaves
<1>1. CASE v \in Objects
  <2> DEFINE entries == [k \in DOMAIN v.object |->
                           IF k \in SecretKeys THEN RedactedValue ELSE redact[v.object[k]]]
  <2>1. redact[v] = Object(entries) /\ v \notin Leaves /\ redact[v] \notin Leaves
    BY <1>0, <1>1 DEF RedactBody, Objects
  <2>2. redact[v].object = entries /\ DOMAIN redact[v] = {"object"}
    BY <2>1 DEF Object
  <2>3. redact[v] \in Objects
    BY <1>0, <2>1, <2>2 DEF Objects
  <2> QED
    BY <1>0, <1>1, <2>1, <2>2, <2>3 DEF Steps, Member
<1>2. CASE v \in Arrays /\ v \notin Objects
  <2> DEFINE items == [i \in 1 .. Len(v.array) |-> redact[v.array[i]]]
  <2>1. redact[v] = Array(items) /\ v \notin Leaves /\ redact[v] \notin Leaves
    BY <1>0, <1>2 DEF RedactBody, Arrays
  <2>2. redact[v].array = items /\ DOMAIN redact[v] = {"array"}
    BY <2>1 DEF Array
  <2>3. redact[v] \in Arrays /\ redact[v] \notin Objects
    BY <1>0, <2>1, <2>2 DEF Arrays, Objects
  <2>4. Len(v.array) \in Nat
    BY <1>2, JsonClosed
  <2>5. Len(items) = Len(v.array)
    BY <2>4
  <2>6. Steps(v) = 1 .. Len(v.array) /\ Steps(redact[v]) = Steps(v)
    BY <1>2, <2>2, <2>3, <2>5 DEF Steps
  <2>7. \A step \in Steps(v) : step \notin SecretKeys
    BY <1>2, StepsAreKeysOrIndexes
  <2> QED
    BY <1>0, <1>2, <2>1, <2>2, <2>3, <2>6, <2>7 DEF Member
<1>3. CASE v \in Leaves
  <2>1. v \notin Objects /\ v \notin Arrays
    BY <1>3 DEF Objects, Arrays
  <2>2. redact[v] = IF v \in SecretStrings THEN RedactedValue ELSE v
    BY <1>0, <2>1 DEF RedactBody
  <2>3. redact[v] \in Leaves
    BY <1>0, <1>3, <2>2
  <2>4. Steps(v) = {} /\ Steps(redact[v]) = {}
    BY <1>3, <2>3, LeafPlaces
  <2> QED
    BY <1>0, <1>3, <2>2, <2>4
<1> QED
  BY <1>1, <1>2, <1>3, JsonClosed

\* A path of the redacted value is one of the value, cut at the first secret key.
PathOf(t, v) == \E p \in Places[v] : p.path = t

LEMMA InPaths ==
  ASSUME NEW v \in Json, NEW t
  PROVE  PathOf(t, v) <=> \/ t = <<>>
                          \/ \E step \in Steps(v) : \E q :
                               PathOf(q, Member(v, step)) /\ t = <<step>> \o q
<1>1. \A q, value : Place(q, value).path = q
  BY DEF Place
<1>2. ASSUME PathOf(t, v)
      PROVE  \/ t = <<>>
             \/ \E step \in Steps(v) : \E q : PathOf(q, Member(v, step)) /\ t = <<step>> \o q
  <2>1. PICK p \in Places[v] : p.path = t
    BY <1>2 DEF PathOf
  <2>2. CASE p = Place(<<>>, v)
    BY <1>1, <2>1, <2>2
  <2>3. ASSUME NEW step \in Steps(v), NEW q \in Places[Member(v, step)],
               p = Place(<<step>> \o q.path, q.value)
        PROVE  PathOf(q.path, Member(v, step)) /\ t = <<step>> \o q.path
    <3>1. p.path = <<step>> \o q.path
      BY <1>1, <2>3
    <3> QED
      BY <2>1, <3>1 DEF PathOf
  <2> QED
    BY <2>2, <2>3, InPlaces
<1>3. t = <<>> => PathOf(t, v)
  BY <1>1, OwnPlace DEF PathOf
<1>4. ASSUME NEW step \in Steps(v), NEW q, PathOf(q, Member(v, step)), t = <<step>> \o q
      PROVE  PathOf(t, v)
  <2>1. PICK p \in Places[Member(v, step)] : p.path = q
    BY <1>4 DEF PathOf
  <2>2. Place(<<step>> \o p.path, p.value) \in Places[v]
    BY InPlaces
  <2> QED
    BY <1>1, <1>4, <2>1, <2>2 DEF PathOf
<1> QED
  BY <1>2, <1>3, <1>4

LEMMA RedactedPaths ==
  \A v \in Json : \A t : PathOf(t, redact[v]) <=> PathOf(t, v) /\ ~Beneath(t)
<1> DEFINE Reaches(t, w) == \/ t = <<>>
                            \/ \E step \in Steps(w) : \E q :
                                 PathOf(q, Member(w, step)) /\ t = <<step>> \o q
<1>0. \A w \in Json : \A t : PathOf(t, w) <=> Reaches(t, w)
  BY InPaths
<1> DEFINE S == {v \in Json : \A t : PathOf(t, redact[v]) <=> PathOf(t, v) /\ ~Beneath(t)}
<1>1. ASSUME NEW v \in Json, \A step \in Steps(v) : Member(v, step) \in S PROVE v \in S
  <2> SUFFICES ASSUME NEW t PROVE PathOf(t, redact[v]) <=> PathOf(t, v) /\ ~Beneath(t)
    OBVIOUS
  <2>0. /\ redact[v] \in Json /\ Steps(redact[v]) = Steps(v)
        /\ \A step \in Steps(v) :
             Member(redact[v], step)
               = IF step \in SecretKeys THEN RedactedValue ELSE redact[Member(v, step)]
    BY RedactedShape
  <2>1. ASSUME NEW step \in Steps(v), NEW q
        PROVE  PathOf(q, Member(redact[v], step))
                 <=> PathOf(q, Member(v, step)) /\ ~Beneath(<<step>> \o q)
    <3>1. step \in PathSteps /\ Member(v, step) \in Json
      BY Members, StepsAreKeysOrIndexes
    <3>2. PathOf(q, Member(v, step)) => q \in Seq(PathSteps)
      BY <3>1, PlacesType DEF PathOf
    <3>3. q \in Seq(PathSteps) =>
            (Beneath(<<step>> \o q) <=> (q # <<>> /\ step \in SecretKeys) \/ Beneath(q))
      BY <3>1, LongerPathBeneath
    <3>4. CASE step \in SecretKeys
      <4>1. PathOf(q, RedactedValue) <=> q = <<>>
        <5>1. \A p : p \in Places[RedactedValue] <=> p = Place(<<>>, RedactedValue)
          BY LeafPlaces, RedactedIsPlain DEF Leaves
        <5>2. Place(<<>>, RedactedValue).path = <<>>
          BY DEF Place
        <5> QED
          BY <5>1, <5>2 DEF PathOf
      <4>2. q = <<>> => PathOf(q, Member(v, step))
        BY <3>1, InPaths
      <4> QED
        BY <2>0, <3>2, <3>3, <3>4, <4>1, <4>2, NothingIsSecret
    <3>5. CASE step \notin SecretKeys
      <4>1. PathOf(q, redact[Member(v, step)]) <=> PathOf(q, Member(v, step)) /\ ~Beneath(q)
        BY <1>1
      <4> QED
        BY <2>0, <3>2, <3>3, <3>5, <4>1
    <3> QED
      BY <3>4, <3>5
  <2>2. PathOf(t, redact[v]) <=> Reaches(t, redact[v])
    <3> HIDE DEF Reaches
    <3> QED
      BY <1>0, <2>0
  <2>3. PathOf(t, v) <=> Reaches(t, v)
    <3> HIDE DEF Reaches
    <3> QED
      BY <1>0
  <2> QED
    BY <2>0, <2>1, <2>2, <2>3, NothingIsSecret
<1> HIDE DEF S
<1>2. Json \subseteq S
  BY <1>1, SetOfAllValues
<1> QED
  BY <1>2 DEF S

\* What is found at the end of a path before and after the redaction.
Shows(is, was) ==
  /\ EndsSecret(was.path) \/ was.value \in SecretStrings => is.value = RedactedValue
  /\ ~EndsSecret(was.path) /\ was.value \in Leaves \ SecretStrings => is.value = was.value
  /\ ~EndsSecret(was.path) /\ was.value \notin Leaves =>
       is.value \notin Leaves /\ (is.value \in Objects <=> was.value \in Objects)

LEMMA RedactedValues ==
  \A v \in Json : \A is \in Places[redact[v]], was \in Places[v] : is.path = was.path => Shows(is, was)
<1> DEFINE S == {v \in Json : \A is \in Places[redact[v]], was \in Places[v] :
                                is.path = was.path => Shows(is, was)}
<1>1. ASSUME NEW v \in Json, \A step \in Steps(v) : Member(v, step) \in S PROVE v \in S
  <2> SUFFICES ASSUME NEW is \in Places[redact[v]], NEW was \in Places[v], is.path = was.path
               PROVE  Shows(is, was)
    OBVIOUS
  <2>0. /\ redact[v] \in Json /\ Steps(redact[v]) = Steps(v)
        /\ \A step \in Steps(v) :
             Member(redact[v], step)
               = IF step \in SecretKeys THEN RedactedValue ELSE redact[Member(v, step)]
    BY RedactedShape
  <2>1. CASE was.path = <<>>
    <3>1. is = Place(<<>>, redact[v]) /\ was = Place(<<>>, v)
      BY <2>0, <2>1, OwnPlace
    <3>2. is.value = redact[v] /\ was.value = v
      BY <3>1 DEF Place
    <3> QED
      BY <2>1, <3>2, NothingIsSecret, RedactedShape, SecretStringsType DEF Shows, Leaves
  <2>2. CASE was.path # <<>>
    <3>0. \A w : Place(<<>>, w).path = <<>>
      BY DEF Place
    <3>a. PICK s \in Steps(v) : \E p \in Places[Member(v, s)] : was = Place(<<s>> \o p.path, p.value)
      BY <2>2, <3>0, InPlaces
    <3>b. PICK t \in Steps(v) : \E q \in Places[Member(redact[v], t)] :
            is = Place(<<t>> \o q.path, q.value)
      BY <2>0, <2>2, <3>0, InPlaces
    <3>1. PICK p \in Places[Member(v, s)] : was = Place(<<s>> \o p.path, p.value)
      BY <3>a
    <3>2. PICK q \in Places[Member(redact[v], t)] : is = Place(<<t>> \o q.path, q.value)
      BY <3>b
    <3>3. /\ s \in PathSteps /\ t \in PathSteps /\ p.path \in Seq(PathSteps)
          /\ Member(v, s) \in Json /\ Member(redact[v], t) \in Json
      BY <2>0, Members, PlacesType, StepsAreKeysOrIndexes
    <3>4. q.path \in Seq(PathSteps)
      BY <3>3, PlacesType
    <3>5. /\ was.path = <<s>> \o p.path /\ was.value = p.value
          /\ is.path = <<t>> \o q.path /\ is.value = q.value
      BY <3>1, <3>2 DEF Place
    <3>6. s = t /\ p.path = q.path
      <4>1. <<s>> \o p.path = <<t>> \o q.path
        BY <3>5
      <4> QED
        BY <3>3, <3>4, <4>1, LongerPathsDiffer
    <3>7. EndsSecret(was.path) <=> (p.path = <<>> /\ s \in SecretKeys) \/ EndsSecret(p.path)
      BY <3>3, <3>5, LongerPathEndsSecret
    <3>8. CASE s \in SecretKeys
      <4>1. q = Place(<<>>, RedactedValue)
        BY <2>0, <3>6, <3>8, LeafPlaces, RedactedIsPlain DEF Leaves
      <4>2. q.path = <<>> /\ q.value = RedactedValue
        BY <4>1 DEF Place
      <4> QED
        BY <3>5, <3>6, <3>7, <3>8, <4>2 DEF Shows
    <3>9. CASE s \notin SecretKeys
      <4>1. q \in Places[redact[Member(v, s)]]
        BY <2>0, <3>6, <3>9
      <4>2. Shows(q, p)
        BY <1>1, <3>6, <4>1
      <4> QED
        BY <3>5, <3>7, <3>9, <4>2 DEF Shows
    <3> QED
      BY <3>8, <3>9
  <2> QED
    BY <2>1, <2>2
<1> HIDE DEF S
<1>2. Json \subseteq S
  BY <1>1, SetOfAllValues
<1> QED
  BY <1>2 DEF S

\* Redaction hides every secret and nothing else, whatever the value: below a
\* sensitive key nothing is left, elsewhere everything but the strings that look
\* like secrets is as it was (redact_arguments).
THEOREM RedactExact == \A v \in Json : Redacts(redact_arguments(v), v)
<1> SUFFICES ASSUME NEW v \in Json PROVE Redacts(redact[v], v)
  BY DEF redact_arguments
<1>1. {p.path : p \in Places[redact[v]]} = {p.path : p \in {q \in Places[v] : ~Beneath(q.path)}}
  <2> SUFFICES ASSUME NEW t
               PROVE  PathOf(t, redact[v]) <=> \E p \in Places[v] : ~Beneath(p.path) /\ p.path = t
    BY DEF PathOf
  <2> QED
    BY RedactedPaths DEF PathOf
<1>2. ASSUME NEW is \in Places[redact[v]], NEW was \in Places[v], is.path = was.path
      PROVE  IF EndsSecret(was.path) \/ was.value \in SecretStrings THEN is.value = RedactedValue
             ELSE IF was.value \in Leaves THEN is.value = was.value
             ELSE is.value \notin Leaves /\ (is.value \in Objects <=> was.value \in Objects)
  BY <1>2, RedactedValues DEF Shows
<1> QED
  BY <1>1, <1>2 DEF Redacts
=============================================================================
