-------------------------- MODULE AgentServiceProofs --------------------------
(***************************************************************************)
(* Theorems about AgentService for any number of requests, workers and     *)
(* tenants, any assignment of requests to workers, and pools of any size.  *)
(***************************************************************************)
EXTENDS AgentService, FiniteSetTheorems, TLAPS

\* The kinds of requests, which every step needs.
LEMMA AccessKinds ==
  /\ Creations \subseteq AccessRequests /\ Disablings \subseteq AccessRequests
  /\ Uses \subseteq AccessRequests /\ Admins \subseteq AccessRequests
  /\ \A c \in Creations : c \notin Disablings /\ c \notin Uses /\ c \in Admins
  /\ \A d \in Disablings : d \notin Uses /\ d \in Admins
  /\ \A r \in Admins : r \notin Uses
  /\ \A r \in AccessRequests : r \in Creations \/ r \in Disablings \/ r \in Uses
BY AccessKindsDisjoint DEF AccessRequests, Admins

\* What the promises rest on, those of NoConnectionLeaks apart.
RequestsInv == PlacesFollow /\ AnswersFollow /\ AgentsInv /\ DisableIsEffective

\* What administrators and agents were told follows from it.
LEMMA PromisesFollow ==
  ASSUME AccessTypeOK, AnswersFollow, AgentsInv
  PROVE  AdminAnswersTrue /\ KeysWork
<1>1. AdminAnswersTrue
  BY DEF AdminAnswersTrue, AnswersFollow, AgentsInv, Answered
<1>2. KeysWork
  BY DEF KeysWork, AnswersFollow, Answered
<1> QED
  BY <1>1, <1>2

LEMMA AccessInvFollows ==
  ASSUME AccessTypeOK, NoConnectionLeaks, RequestsInv
  PROVE  AccessInv
BY PromisesFollow DEF AccessInv, RequestsInv

Silent == {"idle", "sent", "admitted", "upstream"} \cup LoopHeld \cup InThread

-----------------------------------------------------------------------------
\* The pool: a request keeps its connection, or its want of one; it takes one; it
\* gives back what it has.

\* r is, or is not, among the connections of its worker, and of no other.
LEMMA OwnPool ==
  ASSUME AccessTypeOK, NoConnectionLeaks, NEW r \in AccessRequests
  PROVE  /\ WorkerOf[r] \in Workers
         /\ r \in Of(WorkerOf[r])
         /\ \A w \in Workers : w # WorkerOf[r] => r \notin Of(w) /\ r \notin pool[w]
         /\ pc[r] \in Connected => r \in pool[WorkerOf[r]]
         /\ r \in pool[WorkerOf[r]] => pc[r] \in Connected \cup {"raised", "closing"}
<1>1. WorkerOf[r] \in Workers
  BY AccessWorkerOfType
<1>2. /\ r \in Of(WorkerOf[r])
      /\ \A w \in Workers : w # WorkerOf[r] => r \notin Of(w)
  BY DEF Of
<1> QED
  BY <1>1, <1>2 DEF NoConnectionLeaks

\* A pool with one connection more, or less.
LEMMA OneMore ==
  ASSUME NEW S, IsFiniteSet(S), NEW x
  PROVE  /\ IsFiniteSet(S \cup {x})
         /\ Cardinality(S) \in Nat /\ Cardinality(S \cup {x}) \in Nat
         /\ Cardinality(S \cup {x}) <= Cardinality(S) + 1
<1>1. /\ IsFiniteSet(S \cup {x})
      /\ Cardinality(S \cup {x}) = IF x \in S THEN Cardinality(S) ELSE Cardinality(S) + 1
  BY FS_AddElement
<1>2. Cardinality(S) \in Nat
  BY FS_CardinalityType
<1> QED
  BY <1>1, <1>2

LEMMA OneLess ==
  ASSUME NEW S, IsFiniteSet(S), NEW x
  PROVE  /\ IsFiniteSet(S \ {x})
         /\ Cardinality(S) \in Nat /\ Cardinality(S \ {x}) \in Nat
         /\ Cardinality(S \ {x}) <= Cardinality(S)
<1>1. /\ IsFiniteSet(S \ {x})
      /\ Cardinality(S \ {x}) = IF x \in S THEN Cardinality(S) - 1 ELSE Cardinality(S)
  BY FS_RemoveElement
<1>2. Cardinality(S) \in Nat
  BY FS_CardinalityType
<1>3. x \in S => Cardinality(S) # 0
  BY FS_EmptySet
<1> QED
  BY <1>1, <1>2, <1>3

LEMMA KeepsConnection ==
  ASSUME AccessTypeOK, NoConnectionLeaks, NEW r \in AccessRequests, NEW q \in Places,
         pc' = [pc EXCEPT ![r] = q], pool' = pool,
         q \in Connected => r \in pool[WorkerOf[r]],
         r \in pool[WorkerOf[r]] => q \in Connected \cup {"raised", "closing"}
  PROVE  NoConnectionLeaks'
<1>1. \A s \in AccessRequests : pc'[s] = IF s = r THEN q ELSE pc[s]
  BY DEF AccessTypeOK
<1>2. \A w \in Workers : \A s \in Of(w) : s \in AccessRequests
  BY DEF Of
<1> QED
  BY <1>1, <1>2, OwnPool DEF NoConnectionLeaks

LEMMA TakesConnection ==
  ASSUME AccessTypeOK, NoConnectionLeaks, NEW r \in AccessRequests, NEW q \in Connected,
         pc' = [pc EXCEPT ![r] = q], CheckOut(r), PoolFree(r)
  PROVE  /\ NoConnectionLeaks'
         /\ pool' \in [Workers -> {held \in SUBSET AccessRequests : IsFiniteSet(held)}]
<1> DEFINE w == WorkerOf[r]
<1>1. \A s \in AccessRequests : pc'[s] = IF s = r THEN q ELSE pc[s]
  BY DEF AccessTypeOK
<1>2. \A v \in Workers : \A s \in Of(v) : s \in AccessRequests
  BY DEF Of
<1>3. w \in Workers /\ pool[w] \in SUBSET AccessRequests /\ IsFiniteSet(pool[w])
  BY OwnPool DEF AccessTypeOK
<1>4. \A v \in Workers : pool'[v] = IF v = w THEN pool[w] \cup {r} ELSE pool[v]
  BY <1>3 DEF AccessTypeOK, CheckOut
<1>5. /\ IsFiniteSet(pool[w] \cup {r})
      /\ Cardinality(pool[w] \cup {r}) <= Cardinality(pool[w]) + 1
      /\ Cardinality(pool[w]) \in Nat
  BY <1>3, OneMore
<1>6. Cardinality(pool[w] \cup {r}) <= PoolSize
  <2>1. Cardinality(pool[w]) < PoolSize
    BY DEF PoolFree
  <2>2. Cardinality(pool[w] \cup {r}) \in Nat
    BY <1>3, OneMore
  <2> HIDE DEF w
  <2> QED
    BY <1>5, <2>1, <2>2, PoolSizeType
<1>7. pool' \in [Workers -> {held \in SUBSET AccessRequests : IsFiniteSet(held)}]
  BY <1>3, <1>4, <1>5 DEF AccessTypeOK, CheckOut
<1>8. NoConnectionLeaks'
  BY <1>1, <1>2, <1>3, <1>4, <1>6, OwnPool DEF NoConnectionLeaks, Of
<1> QED
  BY <1>7, <1>8

LEMMA ReleasesConnection ==
  ASSUME AccessTypeOK, NoConnectionLeaks, NEW r \in AccessRequests,
         NEW q \in Places \ Connected,
         pc' = [pc EXCEPT ![r] = q], Release(r)
  PROVE  /\ NoConnectionLeaks'
         /\ pool' \in [Workers -> {held \in SUBSET AccessRequests : IsFiniteSet(held)}]
<1> DEFINE w == WorkerOf[r]
<1>1. \A s \in AccessRequests : pc'[s] = IF s = r THEN q ELSE pc[s]
  BY DEF AccessTypeOK
<1>2. \A v \in Workers : \A s \in Of(v) : s \in AccessRequests
  BY DEF Of
<1>3. w \in Workers /\ pool[w] \in SUBSET AccessRequests /\ IsFiniteSet(pool[w])
  BY OwnPool DEF AccessTypeOK
<1>4. \A v \in Workers : pool'[v] = IF v = w THEN pool[w] \ {r} ELSE pool[v]
  BY <1>3 DEF AccessTypeOK, Release
<1>5. /\ IsFiniteSet(pool[w] \ {r})
      /\ Cardinality(pool[w] \ {r}) <= Cardinality(pool[w])
      /\ Cardinality(pool[w]) \in Nat
      /\ Cardinality(pool[w] \ {r}) \in Nat
  BY <1>3, OneLess
<1>6. Cardinality(pool[w] \ {r}) <= PoolSize
  BY <1>3, <1>5, PoolSizeType DEF NoConnectionLeaks
<1>7. pool' \in [Workers -> {held \in SUBSET AccessRequests : IsFiniteSet(held)}]
  BY <1>3, <1>4, <1>5 DEF AccessTypeOK, Release
<1>8. NoConnectionLeaks'
  BY <1>1, <1>2, <1>3, <1>4, <1>6, OwnPool DEF NoConnectionLeaks
<1> QED
  BY <1>7, <1>8

-----------------------------------------------------------------------------
\* A request moves on without a commit.

\* What its new place and answer have to be.
Legal(r, q, code) ==
  /\ pc[r] # "idle" /\ q # "idle"
  /\ q \in Silent => code = "none"
  /\ r \in Admins => q \notin InThread \cup {"raised", "admitted", "upstream"}
  /\ r \in Creations =>
       /\ q \notin {"update", "unchanged"}
       /\ q \in {"sent"} \cup LoopHeld => agents[r] = "absent"
       /\ q = "commit" => \A d \in Creations : SameName(r, d) => agents[d] = "absent" /\ pc[d] # "commit"
       /\ code = "ok" => agents[r] # "absent"
       /\ code = "agent_name_conflict" =>
            agents[r] = "absent" /\ \E d \in Creations : SameName(r, d) /\ agents[d] # "absent"
  /\ r \in Disablings =>
       /\ q \in {"update", "commit"} => names[r] # NoAgent /\ agents[names[r]] # "absent"
       /\ q = "unchanged" \/ code = "ok" => names[r] # NoAgent /\ agents[names[r]] = "disabled"
  /\ r \in Uses =>
       /\ q \notin LoopHeld \cup {"respond"}
       /\ code = "unauthenticated" => names[r] = NoAgent
       /\ code = "agent_disabled" => \E d \in Disablings : names[d] = names[r] /\ pc[d] # "idle"
       /\ r \in late => q \notin {"admitted", "upstream"} /\ code # "ok"

LEMMA MoveStep ==
  ASSUME AccessTypeOK, RequestsInv, NEW r \in AccessRequests, NEW q \in Places, NEW code \in Answers,
         pc' = [pc EXCEPT ![r] = q], answer' = [answer EXCEPT ![r] = code],
         UNCHANGED <<agents, wants, names, late>>, Legal(r, q, code)
  PROVE  RequestsInv'
<1>1. \A s \in AccessRequests : /\ pc'[s] = IF s = r THEN q ELSE pc[s]
                                /\ answer'[s] = IF s = r THEN code ELSE answer[s]
  BY DEF AccessTypeOK
<1>2. PlacesFollow'
  BY <1>1, AccessKinds DEF PlacesFollow, RequestsInv, Legal
<1>3. AnswersFollow'
  <2>1. \A s \in AccessRequests : pc'[s] \in Silent => answer'[s] = "none"
    BY <1>1 DEF RequestsInv, AnswersFollow, Legal, Silent
  <2>2. \A c \in Creations :
          /\ answer'[c] = "ok" => agents'[c] # "absent"
          /\ answer'[c] = "agent_name_conflict" =>
               agents'[c] = "absent" /\ \E d \in Creations : SameName(c, d)' /\ agents'[d] # "absent"
    BY <1>1, AccessKinds DEF RequestsInv, AnswersFollow, Legal, SameName
  <2>3. \A d \in Disablings :
          /\ pc'[d] \in {"update", "commit"} => names'[d] # NoAgent /\ agents'[names'[d]] # "absent"
          /\ pc'[d] = "unchanged" \/ answer'[d] = "ok" =>
               names'[d] # NoAgent /\ agents'[names'[d]] = "disabled"
    BY <1>1, AccessKinds DEF RequestsInv, AnswersFollow, Legal
  <2>4. \A u \in Uses :
          /\ pc'[u] # "idle" /\ names'[u] # NoAgent => agents'[names'[u]] # "absent"
          /\ answer'[u] = "unauthenticated" => names'[u] = NoAgent
          /\ u \in late' => names'[u] # NoAgent /\ agents'[names'[u]] = "disabled"
    BY <1>1, AccessKinds DEF RequestsInv, AnswersFollow, Legal
  <2>5. \A u \in Uses : answer'[u] = "agent_disabled" =>
          \E d \in Disablings : names'[d] = names'[u] /\ pc'[d] # "idle"
    BY <1>1, AccessKinds DEF RequestsInv, AnswersFollow, Legal
  <2> QED
    BY <2>1, <2>2, <2>3, <2>4, <2>5 DEF AnswersFollow, Silent
<1>4. AgentsInv'
  <2> SUFFICES ASSUME NEW c \in Creations
               PROVE  /\ agents[c] # "absent" => pc'[c] \notin {"idle", "sent"} \cup LoopHeld
                      /\ agents[c] # "absent" \/ pc'[c] = "commit" =>
                           \A d \in Creations : SameName(c, d) => agents[d] = "absent" /\ pc'[d] # "commit"
                      /\ agents[c] = "disabled" => \E d \in Disablings : names[d] = c /\ pc'[d] # "idle"
    BY DEF AgentsInv, SameName
  <2>1. agents[c] # "absent" => pc'[c] \notin {"idle", "sent"} \cup LoopHeld
    BY <1>1, AccessKinds DEF RequestsInv, AgentsInv, Legal
  <2>2. ASSUME agents[c] # "absent" \/ pc'[c] = "commit", NEW d \in Creations, SameName(c, d)
        PROVE  agents[d] = "absent" /\ pc'[d] # "commit"
    BY <1>1, <2>2, AccessKinds DEF RequestsInv, AgentsInv, Legal, SameName, LoopHeld
  <2>3. agents[c] = "disabled" => \E d \in Disablings : names[d] = c /\ pc'[d] # "idle"
    BY <1>1, AccessKinds DEF RequestsInv, AgentsInv, Legal
  <2> QED
    BY <2>1, <2>2, <2>3
<1>5. DisableIsEffective'
  BY <1>1, AccessKinds DEF RequestsInv, DisableIsEffective, Admitted, Legal, AccessTypeOK
<1> QED
  BY <1>2, <1>3, <1>4, <1>5 DEF RequestsInv

-----------------------------------------------------------------------------
\* The steps that are not moves of one request between two statements.

\* A request that is sent: if it presents the key of an agent that is disabled,
\* as those do that are late, it has been answered nothing yet.
LEMMA SubmitStep ==
  ASSUME AccessTypeOK, RequestsInv, NEW r \in AccessRequests, Submit(r)
  PROVE  AccessTypeOK' /\ RequestsInv'
<1>1. /\ \A s \in AccessRequests : pc'[s] = IF s = r THEN "sent" ELSE pc[s]
      /\ pc[r] = "idle" /\ answer[r] = "none"
  BY DEF AccessTypeOK, Submit, Become, RequestsInv, AnswersFollow
<1>2. AccessTypeOK'
  BY DEF AccessTypeOK, Submit, Become, Places
<1>3. \A u \in late' \ late : u = r /\ names[u] # NoAgent /\ agents[names[u]] = "disabled"
  BY DEF Submit, Answered, RequestsInv, AnswersFollow
<1>4. r \in Uses /\ names[r] # NoAgent => agents[names[r]] # "absent"
  <2>1. r \in Uses /\ names[r] # NoAgent => names[r] \in Creations
    BY DEF AccessTypeOK
  <2> QED
    BY <2>1 DEF Submit, Answered, RequestsInv, AnswersFollow
<1>5. PlacesFollow'
  BY <1>1, AccessKinds DEF PlacesFollow, RequestsInv, LoopHeld, InThread
<1>6. AnswersFollow'
  <2>1. \A s \in AccessRequests : pc'[s] \in Silent => answer'[s] = "none"
    BY <1>1 DEF RequestsInv, AnswersFollow, Silent, Submit
  <2>2. \A c \in Creations :
          /\ answer'[c] = "ok" => agents'[c] # "absent"
          /\ answer'[c] = "agent_name_conflict" =>
               agents'[c] = "absent" /\ \E d \in Creations : SameName(c, d)' /\ agents'[d] # "absent"
    BY DEF RequestsInv, AnswersFollow, SameName, Submit
  <2>3. \A d \in Disablings :
          /\ pc'[d] \in {"update", "commit"} => names'[d] # NoAgent /\ agents'[names'[d]] # "absent"
          /\ pc'[d] = "unchanged" \/ answer'[d] = "ok" =>
               names'[d] # NoAgent /\ agents'[names'[d]] = "disabled"
    BY <1>1, AccessKinds DEF RequestsInv, AnswersFollow, Submit
  <2>4. \A u \in Uses :
          /\ pc'[u] # "idle" /\ names'[u] # NoAgent => agents'[names'[u]] # "absent"
          /\ answer'[u] = "unauthenticated" => names'[u] = NoAgent
          /\ u \in late' => names'[u] # NoAgent /\ agents'[names'[u]] = "disabled"
    BY <1>1, <1>3, <1>4, AccessKinds DEF RequestsInv, AnswersFollow, Submit
  <2>5. \A u \in Uses : answer'[u] = "agent_disabled" =>
          \E d \in Disablings : names'[d] = names'[u] /\ pc'[d] # "idle"
    BY <1>1, AccessKinds DEF RequestsInv, AnswersFollow, Submit
  <2> QED
    BY <2>1, <2>2, <2>3, <2>4, <2>5 DEF AnswersFollow, Silent
<1>7. AgentsInv'
  <2>1. ASSUME NEW c \in Creations
        PROVE  /\ agents'[c] # "absent" => pc'[c] \notin {"idle", "sent"} \cup LoopHeld
               /\ agents'[c] = "disabled" => \E d \in Disablings : names'[d] = c /\ pc'[d] # "idle"
    BY <1>1, AccessKinds DEF RequestsInv, AgentsInv, Submit
  <2>2. ASSUME NEW c \in Creations, agents'[c] # "absent" \/ pc'[c] = "commit",
               NEW d \in Creations, SameName(c, d)'
        PROVE  agents'[d] = "absent" /\ pc'[d] # "commit"
    BY <1>1, <2>2, AccessKinds DEF RequestsInv, AgentsInv, SameName, Submit
  <2> QED
    BY <2>1, <2>2 DEF AgentsInv
<1>8. DisableIsEffective'
  BY <1>1, <1>3, AccessKinds DEF RequestsInv, DisableIsEffective, Admitted, Submit, AccessTypeOK
<1> QED
  BY <1>2, <1>5, <1>6, <1>7, <1>8 DEF RequestsInv

\* A transaction is carried out, and its request answered or failed: the name
\* is nobody else's, the agent is there.
LEMMA CommitStep ==
  ASSUME AccessTypeOK, RequestsInv, NEW r \in Admins, pc[r] = "commit",
         NEW q \in {"respond", "closing"}, NEW code \in {"ok", "internal_error"},
         pc' = [pc EXCEPT ![r] = q], answer' = [answer EXCEPT ![r] = code],
         agents' = Written(r), UNCHANGED <<wants, names, late>>
  PROVE  RequestsInv' /\ agents' \in [Creations -> {"absent", "active", "disabled"}]
<1>1. \A s \in AccessRequests : /\ pc'[s] = IF s = r THEN q ELSE pc[s]
                                /\ answer'[s] = IF s = r THEN code ELSE answer[s]
  BY DEF AccessTypeOK
<1>2. PICK a \in Creations, status \in {"active", "disabled"} :
        /\ agents' = [agents EXCEPT ![a] = status]
        /\ r \in Creations => a = r /\ status = "active" /\ agents[r] = "absent"
        /\ r \in Disablings => a = names[r] /\ status = "disabled" /\ agents[a] # "absent"
  <2>1. CASE r \in Creations
    <3>1. agents' = [agents EXCEPT ![r] = "active"] /\ r \notin Disablings
      BY <2>1, AccessKinds DEF Written
    <3>2. agents[r] = "absent"
      BY <2>1 DEF RequestsInv, AgentsInv, LoopHeld
    <3> QED
      BY <2>1, <3>1, <3>2
  <2>2. CASE r \in Disablings
    <3>1. names[r] \in Creations /\ agents[names[r]] # "absent"
      BY <2>2 DEF RequestsInv, AnswersFollow, AccessTypeOK
    <3>2. agents' = [agents EXCEPT ![names[r]] = "disabled"] /\ r \notin Creations
      BY <2>2, AccessKinds DEF Written
    <3> QED
      BY <2>2, <3>1, <3>2
  <2> QED
    BY <2>1, <2>2 DEF Admins
<1>3. /\ agents' \in [Creations -> {"absent", "active", "disabled"}]
      /\ \A c \in Creations : agents'[c] = IF c = a THEN status ELSE agents[c]
  BY <1>2 DEF AccessTypeOK
<1>4. \A c \in Creations : agents[c] # "absent" => agents'[c] # "absent"
  BY <1>2, <1>3
<1>5. \A c \in Creations : agents[c] = "disabled" => agents'[c] = "disabled"
  BY <1>2, <1>3, AccessKinds DEF Admins
<1>6. \A s \in Disablings \cup Uses : names[s] = NoAgent \/ names[s] \in Creations
  BY DEF AccessTypeOK
<1>7. PlacesFollow'
  BY <1>1, AccessKinds DEF PlacesFollow, RequestsInv, LoopHeld, InThread
<1>8. AnswersFollow'
  <2>1. \A s \in AccessRequests : pc'[s] \in Silent => answer'[s] = "none"
    BY <1>1 DEF RequestsInv, AnswersFollow, Silent, LoopHeld, InThread
  <2>2. ASSUME NEW c \in Creations
        PROVE  answer'[c] = "ok" => agents'[c] # "absent"
    BY <1>1, <1>2, <1>3, <1>4, AccessKinds DEF RequestsInv, AnswersFollow
  <2>3. ASSUME NEW c \in Creations, answer'[c] = "agent_name_conflict"
        PROVE  agents'[c] = "absent" /\ \E d \in Creations : SameName(c, d)' /\ agents'[d] # "absent"
    <3>1. c # r /\ answer[c] = "agent_name_conflict"
      BY <1>1, <2>3, AccessKinds
    <3>2. agents[c] = "absent" /\ \E d \in Creations : SameName(c, d) /\ agents[d] # "absent"
      BY <3>1 DEF RequestsInv, AnswersFollow
    <3>3. c # a
      BY <1>2, <3>1, <3>2 DEF Admins
    <3> QED
      BY <1>3, <1>4, <3>2, <3>3 DEF SameName
  <2>4. ASSUME NEW d \in Disablings
        PROVE  /\ pc'[d] \in {"update", "commit"} => names'[d] # NoAgent /\ agents'[names'[d]] # "absent"
               /\ pc'[d] = "unchanged" \/ answer'[d] = "ok" =>
                    names'[d] # NoAgent /\ agents'[names'[d]] = "disabled"
    BY <1>1, <1>2, <1>3, <1>4, <1>5, <1>6, AccessKinds DEF RequestsInv, AnswersFollow
  <2>5. ASSUME NEW u \in Uses
        PROVE  /\ pc'[u] # "idle" /\ names'[u] # NoAgent => agents'[names'[u]] # "absent"
               /\ answer'[u] = "unauthenticated" => names'[u] = NoAgent
               /\ u \in late' => names'[u] # NoAgent /\ agents'[names'[u]] = "disabled"
    BY <1>1, <1>4, <1>5, <1>6, AccessKinds DEF RequestsInv, AnswersFollow
  <2>6. \A u \in Uses : answer'[u] = "agent_disabled" =>
          \E d \in Disablings : names'[d] = names'[u] /\ pc'[d] # "idle"
    BY <1>1, AccessKinds DEF RequestsInv, AnswersFollow
  <2> QED
    BY <2>1, <2>2, <2>3, <2>4, <2>5, <2>6 DEF AnswersFollow, Silent
<1>9. AgentsInv'
  <2>1. ASSUME NEW c \in Creations, agents'[c] # "absent"
        PROVE  pc'[c] \notin {"idle", "sent"} \cup LoopHeld
    <3>1. CASE c = r
      BY <1>1, <3>1, AccessKinds DEF LoopHeld
    <3>2. CASE c # r
      <4>1. agents[c] # "absent"
        BY <1>2, <1>3, <2>1, <3>2 DEF Admins
      <4> QED
        BY <1>1, <3>2, <4>1, AccessKinds DEF RequestsInv, AgentsInv
    <3> QED
      BY <3>1, <3>2
  <2>2. ASSUME NEW c \in Creations, agents'[c] # "absent" \/ pc'[c] = "commit",
               NEW d \in Creations, SameName(c, d)'
        PROVE  agents'[d] = "absent" /\ pc'[d] # "commit"
    <3>1. \A b \in Creations : agents'[b] # "absent" \/ pc'[b] = "commit" =>
                                  agents[b] # "absent" \/ pc[b] = "commit"
      BY <1>1, <1>2, <1>3, AccessKinds DEF Admins
    <3>2. SameName(c, d)
      BY <2>2 DEF SameName
    <3>3. agents[d] = "absent" /\ pc[d] # "commit"
      BY <2>2, <3>1, <3>2 DEF RequestsInv, AgentsInv
    <3> QED
      BY <3>1, <3>3
  <2>3. ASSUME NEW c \in Creations, agents'[c] = "disabled"
        PROVE  \E d \in Disablings : names'[d] = c /\ pc'[d] # "idle"
    <3>1. CASE agents[c] = "disabled"
      BY <1>1, <3>1, AccessKinds DEF RequestsInv, AgentsInv
    <3>2. CASE agents[c] # "disabled"
      <4>1. c = a /\ status = "disabled"
        BY <1>3, <2>3, <3>2
      <4>2. r \in Disablings /\ names[r] = c
        BY <1>2, <4>1 DEF Admins
      <4> QED
        BY <1>1, <4>2, AccessKinds
    <3> QED
      BY <3>1, <3>2
  <2> QED
    BY <2>1, <2>2, <2>3 DEF AgentsInv
<1>10. DisableIsEffective'
  BY <1>1, AccessKinds DEF RequestsInv, DisableIsEffective, Admitted, AccessTypeOK
<1> QED
  BY <1>3, <1>7, <1>8, <1>9, <1>10 DEF RequestsInv

\* A worker dies: what it has answered stays, its connections are closed.
LEMMA CrashStep ==
  ASSUME AccessTypeOK, NoConnectionLeaks, RequestsInv, NEW w \in Unreliable, Crash(w)
  PROVE  AccessTypeOK' /\ NoConnectionLeaks' /\ RequestsInv'
<1>1. \A s \in AccessRequests :
        /\ pc'[s] \in {pc[s], "lost"} /\ pc[s] \in {"idle", "done"} => pc'[s] = pc[s]
        /\ s \in Of(w) /\ pc[s] \notin {"idle", "done"} => pc'[s] = "lost"
        /\ s \notin Of(w) => pc'[s] = pc[s]
        /\ pc'[s] # "lost" => pc'[s] = pc[s]
        /\ pc[s] # "idle" => pc'[s] # "idle"
  BY DEF Crash
<1>2. AccessTypeOK'
  <2>1. pc' \in [AccessRequests -> Places]
    BY DEF AccessTypeOK, Crash, Places
  <2>2. pool' \in [Workers -> {held \in SUBSET AccessRequests : IsFiniteSet(held)}]
    BY FS_EmptySet, UnreliableType DEF AccessTypeOK, Crash
  <2> QED
    BY <2>1, <2>2 DEF AccessTypeOK, Crash
<1>3. NoConnectionLeaks'
  <2>1. \A v \in Workers : pool'[v] = IF v = w THEN {} ELSE pool[v]
    BY UnreliableType DEF AccessTypeOK, Crash
  <2>2. Cardinality({}) <= PoolSize
    BY FS_EmptySet, PoolSizeType
  <2>3. \A v \in Workers : \A s \in Of(v) : s \in AccessRequests /\ (s \in Of(w) <=> v = w)
    BY UnreliableType DEF Of
  <2>4. \A s \in Of(w) : pc'[s] \notin Connected
    BY <1>1 DEF Of, Connected
  <2> QED
    BY <1>1, <2>1, <2>2, <2>3, <2>4 DEF NoConnectionLeaks
<1>4. PlacesFollow'
  BY <1>1, AccessKinds DEF PlacesFollow, RequestsInv, LoopHeld, InThread
<1>5. AnswersFollow'
  <2>1. \A s \in AccessRequests : pc'[s] \in Silent => answer'[s] = "none"
    BY <1>1 DEF RequestsInv, AnswersFollow, Silent, LoopHeld, InThread, Crash
  <2>2. \A c \in Creations :
          /\ answer'[c] = "ok" => agents'[c] # "absent"
          /\ answer'[c] = "agent_name_conflict" =>
               agents'[c] = "absent" /\ \E d \in Creations : SameName(c, d)' /\ agents'[d] # "absent"
    BY DEF RequestsInv, AnswersFollow, SameName, Crash
  <2>3. \A d \in Disablings :
          /\ pc'[d] \in {"update", "commit"} => names'[d] # NoAgent /\ agents'[names'[d]] # "absent"
          /\ pc'[d] = "unchanged" \/ answer'[d] = "ok" =>
               names'[d] # NoAgent /\ agents'[names'[d]] = "disabled"
    BY <1>1, AccessKinds DEF RequestsInv, AnswersFollow, Crash
  <2>4. \A u \in Uses :
          /\ pc'[u] # "idle" /\ names'[u] # NoAgent => agents'[names'[u]] # "absent"
          /\ answer'[u] = "unauthenticated" => names'[u] = NoAgent
          /\ u \in late' => names'[u] # NoAgent /\ agents'[names'[u]] = "disabled"
    BY <1>1, AccessKinds DEF RequestsInv, AnswersFollow, Crash
  <2>5. \A u \in Uses : answer'[u] = "agent_disabled" =>
          \E d \in Disablings : names'[d] = names'[u] /\ pc'[d] # "idle"
    BY <1>1, AccessKinds DEF RequestsInv, AnswersFollow, Crash
  <2> QED
    BY <2>1, <2>2, <2>3, <2>4, <2>5 DEF AnswersFollow, Silent
<1>6. AgentsInv'
  <2>1. ASSUME NEW c \in Creations
        PROVE  /\ agents'[c] # "absent" => pc'[c] \notin {"idle", "sent"} \cup LoopHeld
               /\ agents'[c] = "disabled" => \E d \in Disablings : names'[d] = c /\ pc'[d] # "idle"
    BY <1>1, AccessKinds DEF RequestsInv, AgentsInv, Crash, LoopHeld
  <2>2. ASSUME NEW c \in Creations, agents'[c] # "absent" \/ pc'[c] = "commit",
               NEW d \in Creations, SameName(c, d)'
        PROVE  agents'[d] = "absent" /\ pc'[d] # "commit"
    BY <1>1, <2>2, AccessKinds DEF RequestsInv, AgentsInv, SameName, Crash
  <2> QED
    BY <2>1, <2>2 DEF AgentsInv
<1>7. DisableIsEffective'
  BY <1>1, AccessKinds DEF RequestsInv, DisableIsEffective, Admitted, Crash, AccessTypeOK
<1> QED
  BY <1>2, <1>3, <1>4, <1>5, <1>6, <1>7 DEF RequestsInv

-----------------------------------------------------------------------------
\* Every step of a request, by what it does to the pool.

SafeInv == AccessTypeOK /\ NoConnectionLeaks /\ RequestsInv

\* A legal move that leaves the pool alone.
LEMMA MoveKeeps ==
  ASSUME SafeInv, NEW r \in AccessRequests, NEW q \in Places, NEW code \in Answers,
         pc' = [pc EXCEPT ![r] = q], answer' = [answer EXCEPT ![r] = code],
         UNCHANGED <<agents, wants, names, pool, late>>, Legal(r, q, code),
         q \in Connected => r \in pool[WorkerOf[r]],
         r \in pool[WorkerOf[r]] => q \in Connected \cup {"raised", "closing"}
  PROVE  SafeInv'
<1>1. RequestsInv'
  BY MoveStep DEF SafeInv
<1>2. NoConnectionLeaks'
  BY KeepsConnection DEF SafeInv
<1>3. AccessTypeOK'
  BY DEF SafeInv, AccessTypeOK
<1> QED
  BY <1>1, <1>2, <1>3 DEF SafeInv

\* One that takes a connection.
LEMMA MoveTakes ==
  ASSUME SafeInv, NEW r \in AccessRequests, NEW q \in Connected,
         pc' = [pc EXCEPT ![r] = q], CheckOut(r), PoolFree(r),
         UNCHANGED <<agents, wants, names, answer, late>>, Legal(r, q, answer[r])
  PROVE  SafeInv'
<1>1. q \in Places /\ answer[r] \in Answers /\ answer' = [answer EXCEPT ![r] = answer[r]]
  BY DEF SafeInv, AccessTypeOK, Places
<1>2. RequestsInv'
  BY <1>1, MoveStep DEF SafeInv
<1>3. NoConnectionLeaks' /\ pool' \in [Workers -> {held \in SUBSET AccessRequests : IsFiniteSet(held)}]
  BY TakesConnection DEF SafeInv
<1>4. AccessTypeOK'
  BY <1>1, <1>3 DEF SafeInv, AccessTypeOK
<1> QED
  BY <1>2, <1>3, <1>4 DEF SafeInv

\* One that gives it back.
LEMMA MoveReleases ==
  ASSUME SafeInv, NEW r \in AccessRequests, NEW q \in Places \ Connected, NEW code \in Answers,
         pc' = [pc EXCEPT ![r] = q], answer' = [answer EXCEPT ![r] = code], Release(r),
         UNCHANGED <<agents, wants, names, late>>, Legal(r, q, code)
  PROVE  SafeInv'
<1>1. RequestsInv'
  BY MoveStep DEF SafeInv
<1>2. NoConnectionLeaks' /\ pool' \in [Workers -> {held \in SUBSET AccessRequests : IsFiniteSet(held)}]
  BY ReleasesConnection DEF SafeInv
<1>3. AccessTypeOK'
  BY <1>2 DEF SafeInv, AccessTypeOK
<1> QED
  BY <1>1, <1>2, <1>3 DEF SafeInv

\* What is known of a request that takes a step: where it can stand, whether it
\* is connected, and that it has been answered nothing while it is silent.
LEMMA Standing ==
  ASSUME SafeInv, NEW r \in AccessRequests
  PROVE  /\ pc[r] \in Places /\ answer[r] \in Answers
         /\ answer' = answer => answer' = [answer EXCEPT ![r] = answer[r]]
         /\ pc[r] \in Silent => answer[r] = "none"
         /\ r \in Admins => pc[r] \notin InThread \cup {"raised", "admitted", "upstream"}
         /\ r \in Creations => pc[r] \notin {"update", "unchanged"}
         /\ r \in Uses => pc[r] \notin LoopHeld \cup {"respond"}
         /\ r \in Disablings \cup Uses => names[r] = NoAgent \/ names[r] \in Creations
         /\ pc[r] \in Connected => r \in pool[WorkerOf[r]]
         /\ r \in pool[WorkerOf[r]] => pc[r] \in Connected \cup {"raised", "closing"}
<1>1. /\ pc[r] \in Places /\ answer[r] \in Answers
      /\ answer' = answer => answer' = [answer EXCEPT ![r] = answer[r]]
      /\ r \in Disablings \cup Uses => names[r] = NoAgent \/ names[r] \in Creations
  BY DEF SafeInv, AccessTypeOK
<1>2. /\ pc[r] \in Silent => answer[r] = "none"
      /\ r \in Admins => pc[r] \notin InThread \cup {"raised", "admitted", "upstream"}
      /\ r \in Creations => pc[r] \notin {"update", "unchanged"}
      /\ r \in Uses => pc[r] \notin LoopHeld \cup {"respond"}
  BY DEF SafeInv, RequestsInv, PlacesFollow, AnswersFollow, Silent
<1>3. /\ pc[r] \in Connected => r \in pool[WorkerOf[r]]
      /\ r \in pool[WorkerOf[r]] => pc[r] \in Connected \cup {"raised", "closing"}
  BY OwnPool DEF SafeInv
<1> QED
  BY <1>1, <1>2, <1>3

\* What a request has been answered, and what it may be answered again, at a move
\* that changes its place only.
LEMMA SameAnswer ==
  ASSUME SafeInv, NEW r \in AccessRequests, pc[r] # "idle", NEW q \in Places \ {"idle"},
         q \in Silent => pc[r] \in Silent,
         r \in Admins => q \notin InThread \cup {"raised", "admitted", "upstream"},
         r \in Creations => q \notin {"update", "unchanged", "commit"},
         r \in Creations /\ q \in {"sent"} \cup LoopHeld => pc[r] \in {"sent"} \cup LoopHeld,
         r \in Disablings /\ q \in {"update", "commit"} =>
           names[r] # NoAgent /\ agents[names[r]] # "absent",
         r \in Disablings /\ q = "unchanged" =>
           names[r] # NoAgent /\ agents[names[r]] = "disabled",
         r \in Uses => q \notin LoopHeld \cup {"respond"},
         r \in late => q \notin {"admitted", "upstream"}
  PROVE  Legal(r, q, answer[r])
<1>1. r \in late => answer[r] # "ok"
  BY DEF SafeInv, RequestsInv, DisableIsEffective, Admitted
<1>2. q \in Silent => answer[r] = "none"
  BY Standing
<1>3. r \in Creations /\ q \in {"sent"} \cup LoopHeld => agents[r] = "absent"
  BY DEF SafeInv, RequestsInv, AgentsInv
<1> QED
  BY <1>1, <1>2, <1>3 DEF Legal, SafeInv, RequestsInv, AnswersFollow

\* An error that concerns neither an agent nor a name.
LEMMA Failed ==
  ASSUME SafeInv, NEW r \in AccessRequests, pc[r] # "idle",
         NEW q \in {"raised", "closing"}, r \in Admins => q = "closing"
  PROVE  Legal(r, q, "internal_error")
BY AccessKinds DEF Legal, Silent, LoopHeld, InThread

-----------------------------------------------------------------------------
LEMMA StartStep ==
  ASSUME SafeInv, NEW r \in AccessRequests, StartAdmin(r) \/ StartUse(r)
  PROVE  SafeInv'
<1>0. pc[r] = "sent" /\ UNCHANGED <<agents, wants, names, pool, late>>
  BY DEF StartAdmin, StartUse
<1>1. ASSUME NEW q \in {"connect", "checkout"}, Become(r, q), UNCHANGED answer,
             IF q = "connect" THEN r \in Admins ELSE r \in Uses
      PROVE  SafeInv'
  <2>1. Legal(r, q, answer[r])
    BY <1>0, <1>1, SameAnswer, AccessKinds DEF Silent, LoopHeld, InThread, Places
  <2>2. q \in Places /\ q \notin Connected /\ r \notin pool[WorkerOf[r]]
    BY <1>0, <1>1, Standing DEF Places, LoopHeld, InThread, Connected
  <2> QED
    BY <1>0, <1>1, <2>1, <2>2, Standing, MoveKeeps DEF Become
<1>2. CASE r \in Admins /\ Raise(r, "closing", "unauthenticated")
  <2>1. Legal(r, "closing", "unauthenticated")
    BY <1>0, <1>2, AccessKinds DEF Legal, Silent, LoopHeld, InThread
  <2>2. "closing" \in Places /\ "closing" \notin Connected /\ "unauthenticated" \in Answers
    BY DEF Places, Connected, Answers
  <2> QED
    BY <1>0, <1>2, <2>1, <2>2, MoveKeeps DEF Raise, Become, WillAnswer
<1> QED
  BY <1>1, <1>2 DEF StartAdmin, StartUse

LEMMA ConnectStep ==
  ASSUME SafeInv, NEW r \in AccessRequests, Connect(r)
  PROVE  SafeInv'
<1>1. PICK q \in {"statement", "authenticate"} :
        /\ Become(r, q) /\ CheckOut(r) /\ PoolFree(r) /\ UNCHANGED <<agents, wants, names, answer, late>>
        /\ pc[r] = IF q = "statement" THEN "connect" ELSE "checkout"
  BY DEF Connect
<1>2. IF q = "statement" THEN r \notin Uses ELSE r \notin Admins
  BY <1>1, Standing DEF LoopHeld, InThread
<1>3. q \in Places \ {"idle"} /\ q \in Connected /\ pc[r] \in Silent
  BY <1>1 DEF Silent, LoopHeld, InThread, Places, Connected
<1>4. Legal(r, q, answer[r])
  BY <1>1, <1>2, <1>3, SameAnswer, AccessKinds DEF LoopHeld, InThread
<1> QED
  BY <1>1, <1>3, <1>4, MoveTakes DEF Become

LEMMA ConnectTimesOutStep ==
  ASSUME SafeInv, NEW r \in AccessRequests, ConnectTimesOut(r)
  PROVE  SafeInv'
<1>1. PICK q \in {"raised", "closing"} :
        /\ Raise(r, q, "internal_error") /\ UNCHANGED <<agents, wants, names, pool, late>>
        /\ pc[r] = IF q = "closing" THEN "connect" ELSE "checkout"
  BY DEF ConnectTimesOut
<1>2. Legal(r, q, "internal_error")
  BY <1>1, Standing, Failed DEF InThread
<1>3. q \in Places /\ q \notin Connected /\ "internal_error" \in Answers
  BY <1>1 DEF Places, Connected, Answers
<1> QED
  BY <1>1, <1>2, <1>3, MoveKeeps DEF Raise, Become, WillAnswer

LEMMA InsertAgentStep ==
  ASSUME SafeInv, NEW r \in AccessRequests, InsertAgent(r)
  PROVE  SafeInv'
<1>1. /\ r \in Creations /\ pc[r] = "statement"
      /\ r \notin Disablings /\ r \notin Uses /\ answer[r] = "none" /\ agents[r] = "absent"
      /\ r \in pool[WorkerOf[r]]
  <2>1. pc[r] \in Silent \cap LoopHeld \cap Connected
    BY DEF InsertAgent, Silent, LoopHeld, Connected
  <2>2. agents[r] = "absent"
    BY <2>1 DEF SafeInv, RequestsInv, AgentsInv, InsertAgent
  <2> QED
    BY <2>1, <2>2, Standing, AccessKinds DEF InsertAgent
<1>2. ASSUME NEW code \in {"tenant_not_found", "agent_name_conflict"}, Raise(r, "closing", code),
             code = "agent_name_conflict" => \E d \in Creations : SameName(r, d) /\ agents[d] # "absent"
      PROVE  SafeInv'
  <2>1. Legal(r, "closing", code)
    BY <1>1, <1>2 DEF Legal, Silent, LoopHeld, InThread
  <2>2. "closing" \in Places /\ "closing" \notin Connected /\ code \in Answers
    BY DEF Places, Connected, Answers
  <2> QED
    BY <1>2, <2>1, <2>2, MoveKeeps DEF Raise, Become, WillAnswer, InsertAgent
<1>3. CASE Become(r, "commit") /\ UNCHANGED answer /\ ~NameInserted(r)
           /\ ~\E d \in Creations : SameName(r, d) /\ agents[d] # "absent"
  <2>1. \A d \in Creations : SameName(r, d) => agents[d] = "absent" /\ pc[d] # "commit"
    BY <1>3 DEF NameInserted
  <2>2. Legal(r, "commit", answer[r])
    BY <1>1, <2>1, AccessKinds DEF Legal, Silent, LoopHeld, InThread
  <2>3. "commit" \in Places /\ "commit" \in Connected
    BY DEF Places, Connected
  <2> QED
    BY <1>1, <1>3, <2>2, <2>3, Standing, MoveKeeps DEF Become, InsertAgent
<1> QED
  BY <1>2, <1>3 DEF InsertAgent

LEMMA SelectAgentStep ==
  ASSUME SafeInv, NEW r \in AccessRequests, SelectAgent(r)
  PROVE  SafeInv'
<1>1. /\ r \in Disablings /\ r \notin Creations /\ r \notin Uses /\ r \in Admins
      /\ pc[r] = "statement" /\ answer[r] = "none" /\ r \in pool[WorkerOf[r]]
      /\ names[r] = NoAgent \/ names[r] \in Creations
  <2>1. pc[r] \in Silent \cap Connected
    BY DEF SelectAgent, Silent, LoopHeld, Connected
  <2> QED
    BY <2>1, Standing, AccessKinds DEF SelectAgent
<1>2. CASE Raise(r, "closing", "agent_not_found")
  <2>1. Legal(r, "closing", "agent_not_found")
    BY <1>1 DEF Legal, Silent, LoopHeld, InThread
  <2>2. "closing" \in Places /\ "closing" \notin Connected /\ "agent_not_found" \in Answers
    BY DEF Places, Connected, Answers
  <2> QED
    BY <1>2, <2>1, <2>2, MoveKeeps DEF Raise, Become, WillAnswer, SelectAgent
<1>3. ASSUME NEW q \in {"update", "unchanged"}, Become(r, q), UNCHANGED answer,
             names[r] # NoAgent, agents[names[r]] # "absent",
             q = (IF agents[names[r]] = "active" THEN "update" ELSE "unchanged")
      PROVE  SafeInv'
  <2>1. q = "unchanged" => agents[names[r]] = "disabled"
    BY <1>1, <1>3 DEF SafeInv, AccessTypeOK
  <2>2. Legal(r, q, answer[r])
    BY <1>1, <1>3, <2>1 DEF Legal, Silent, LoopHeld, InThread
  <2>3. q \in Places /\ q \in Connected
    BY DEF Places, Connected
  <2> QED
    BY <1>1, <1>3, <2>2, <2>3, Standing, MoveKeeps DEF Become, SelectAgent
<1> QED
  BY <1>2, <1>3 DEF SelectAgent

LEMMA UpdateAgentStep ==
  ASSUME SafeInv, NEW r \in AccessRequests, UpdateAgent(r)
  PROVE  SafeInv'
<1>1. /\ r \in Disablings /\ r \notin Creations /\ r \notin Uses /\ r \in Admins
      /\ pc[r] = "update" /\ answer[r] = "none" /\ r \in pool[WorkerOf[r]]
  <2>1. pc[r] \in Silent \cap Connected \cap LoopHeld
    BY DEF UpdateAgent, Silent, LoopHeld, Connected
  <2> QED
    BY <2>1, Standing, AccessKinds DEF UpdateAgent
<1>2. names[r] # NoAgent /\ agents[names[r]] # "absent"
  BY <1>1 DEF SafeInv, RequestsInv, AnswersFollow
<1>3. Legal(r, "commit", answer[r])
  BY <1>1, <1>2 DEF Legal, Silent, LoopHeld, InThread
<1>4. "commit" \in Places /\ "commit" \in Connected
  BY DEF Places, Connected
<1> QED
  BY <1>1, <1>3, <1>4, Standing, MoveKeeps DEF Become, UpdateAgent

LEMMA CommittedStep ==
  ASSUME SafeInv, NEW r \in AccessRequests, Commit(r)
  PROVE  SafeInv'
<1>1. r \in Admins /\ r \notin Uses
  BY Standing, AccessKinds DEF Commit, LoopHeld
<1>2. /\ "respond" \in Places \ Connected /\ "ok" \in Answers
      /\ pc' = [pc EXCEPT ![r] = "respond"] /\ answer' = [answer EXCEPT ![r] = "ok"]
  BY DEF Commit, Become, WillAnswer, Places, Connected, Answers
<1>3. CASE pc[r] = "commit"
  <2>1. RequestsInv' /\ agents' \in [Creations -> {"absent", "active", "disabled"}]
    BY <1>1, <1>2, <1>3, CommitStep DEF Commit, SafeInv
  <2>2. NoConnectionLeaks' /\ pool' \in [Workers -> {held \in SUBSET AccessRequests : IsFiniteSet(held)}]
    BY <1>2, ReleasesConnection DEF Commit, SafeInv
  <2>3. AccessTypeOK'
    BY <1>2, <2>1, <2>2 DEF Commit, SafeInv, AccessTypeOK
  <2> QED
    BY <2>1, <2>2, <2>3 DEF SafeInv
<1>4. CASE pc[r] = "unchanged"
  <2>1. r \in Disablings /\ r \notin Creations
    BY <1>1, <1>4, Standing DEF Admins
  <2>2. names[r] # NoAgent /\ agents[names[r]] = "disabled"
    BY <1>4, <2>1 DEF SafeInv, RequestsInv, AnswersFollow
  <2>3. Legal(r, "respond", "ok")
    BY <1>1, <1>4, <2>1, <2>2 DEF Legal, Silent, LoopHeld, InThread
  <2>4. agents' = agents
    BY <1>4 DEF Commit, Written
  <2> QED
    BY <1>2, <2>3, <2>4, MoveReleases DEF Commit
<1> QED
  BY <1>3, <1>4 DEF Commit

LEMMA DatabaseFailsStep ==
  ASSUME SafeInv, NEW r \in AccessRequests, DatabaseFails(r)
  PROVE  SafeInv'
<1>1. PICK q \in {"raised", "closing"} :
        /\ Raise(r, q, "internal_error") /\ UNCHANGED <<wants, names, pool, late>>
        /\ IF q = "raised" THEN pc[r] = "authenticate" ELSE pc[r] \in LoopHeld
  BY DEF DatabaseFails
<1>2. /\ q \in Places /\ q \notin Connected /\ "internal_error" \in Answers
      /\ pc' = [pc EXCEPT ![r] = q] /\ answer' = [answer EXCEPT ![r] = "internal_error"]
  BY <1>1 DEF Places, Connected, Answers, Raise, Become, WillAnswer
<1>3. CASE agents' = agents
  <2>1. Legal(r, q, "internal_error")
    BY <1>1, Standing, Failed DEF InThread, LoopHeld
  <2> QED
    BY <1>1, <1>2, <1>3, <2>1, MoveKeeps
<1>4. CASE pc[r] = "commit" /\ agents' = Written(r)
  <2>1. q = "closing" /\ r \in Admins
    BY <1>1, <1>4, Standing, AccessKinds DEF LoopHeld
  <2>2. RequestsInv' /\ agents' \in [Creations -> {"absent", "active", "disabled"}]
    BY <1>1, <1>2, <1>4, <2>1, CommitStep DEF SafeInv
  <2>3. NoConnectionLeaks'
    BY <1>1, <1>2, KeepsConnection DEF SafeInv
  <2>4. AccessTypeOK'
    BY <1>1, <1>2, <2>2 DEF SafeInv, AccessTypeOK
  <2> QED
    BY <2>2, <2>3, <2>4 DEF SafeInv
<1> QED
  BY <1>3, <1>4 DEF DatabaseFails

LEMMA AuthenticateStep ==
  ASSUME SafeInv, NEW r \in AccessRequests, Authenticate(r)
  PROVE  SafeInv'
<1>1. /\ pc[r] = "authenticate" /\ answer[r] = "none" /\ r \in pool[WorkerOf[r]]
      /\ r \in Uses /\ r \notin Admins /\ r \notin Creations /\ r \notin Disablings
      /\ names[r] = NoAgent \/ names[r] \in Creations
  <2>1. pc[r] \in Silent \cap Connected \cap InThread
    BY DEF Authenticate, Silent, InThread, Connected
  <2> QED
    BY <2>1, Standing, AccessKinds DEF Authenticate
<1>2. /\ names[r] # NoAgent => agents[names[r]] # "absent"
      /\ r \in late => names[r] # NoAgent /\ agents[names[r]] = "disabled"
  BY <1>1 DEF SafeInv, RequestsInv, AnswersFollow
<1>3. names[r] # NoAgent /\ agents[names[r]] = "disabled" =>
        \E d \in Disablings : names[d] = names[r] /\ pc[d] # "idle"
  BY <1>1 DEF SafeInv, RequestsInv, AgentsInv
<1>4. ASSUME NEW code \in {"unauthenticated", "agent_disabled"}, Raise(r, "raised", code),
             IF code = "unauthenticated" THEN names[r] = NoAgent
             ELSE names[r] # NoAgent /\ agents[names[r]] = "disabled"
      PROVE  SafeInv'
  <2>1. Legal(r, "raised", code)
    BY <1>1, <1>3, <1>4 DEF Legal, Silent, LoopHeld, InThread
  <2>2. "raised" \in Places /\ "raised" \notin Connected /\ code \in Answers
    BY DEF Places, Connected, Answers
  <2> QED
    BY <1>4, <2>1, <2>2, MoveKeeps DEF Raise, Become, WillAnswer, Authenticate
<1>5. CASE /\ Become(r, "admitted") /\ UNCHANGED answer
           /\ ~(names[r] = NoAgent \/ agents[names[r]] = "absent") /\ agents[names[r]] # "disabled"
  <2>1. Legal(r, "admitted", answer[r])
    BY <1>1, <1>2, <1>5 DEF Legal, Silent, LoopHeld, InThread
  <2>2. "admitted" \in Places /\ "admitted" \in Connected
    BY DEF Places, Connected
  <2> QED
    BY <1>1, <1>5, <2>1, <2>2, Standing, MoveKeeps DEF Become, Authenticate
<1>6. CASE Raise(r, "raised", "unauthenticated") /\ (names[r] = NoAgent \/ agents[names[r]] = "absent")
  BY <1>2, <1>4, <1>6
<1>7. CASE /\ Raise(r, "raised", "agent_disabled")
           /\ ~(names[r] = NoAgent \/ agents[names[r]] = "absent") /\ agents[names[r]] = "disabled"
  BY <1>4, <1>7
<1> QED
  BY <1>5, <1>6, <1>7 DEF Authenticate

\* The moves that change the place only, without the pool.
LEMMA UnwindOrRespondStep ==
  ASSUME SafeInv, NEW r \in AccessRequests, Unwind(r) \/ Respond(r)
  PROVE  SafeInv'
<1>1. PICK q \in {"closing", "done"} :
        /\ pc[r] = (IF q = "closing" THEN "raised" ELSE "respond")
        /\ Become(r, q) /\ UNCHANGED <<agents, wants, names, answer, pool, late>>
  BY DEF Unwind, Respond
<1>2. q \in Places \ {"idle"} /\ q \notin Silent /\ q \notin Connected
  BY <1>1 DEF Places, Silent, LoopHeld, InThread, Connected
<1>3. Legal(r, q, answer[r])
  BY <1>1, <1>2, SameAnswer DEF LoopHeld, InThread
<1>4. r \in pool[WorkerOf[r]] => q = "closing"
  BY <1>1, Standing DEF Connected
<1> QED
  BY <1>1, <1>2, <1>3, <1>4, Standing, MoveKeeps DEF Become

\* A use that is admitted is not late, and may be answered.
LEMMA AdmittedIsInTime ==
  ASSUME SafeInv, NEW r \in AccessRequests, pc[r] \in {"admitted", "upstream"}
  PROVE  /\ r \in Uses /\ r \notin Admins /\ r \notin Creations /\ r \notin Disablings
         /\ r \notin late /\ answer[r] = "none" /\ r \in pool[WorkerOf[r]]
         /\ \A q \in {"closing", "done"} : Legal(r, q, "ok")
<1>1. /\ r \in Uses /\ r \notin Admins /\ r \notin Creations /\ r \notin Disablings
      /\ answer[r] = "none" /\ r \in pool[WorkerOf[r]]
  <2>1. pc[r] \in Silent \cap Connected
    BY DEF Silent, Connected
  <2> QED
    BY <2>1, Standing, AccessKinds DEF Admins
<1>2. r \notin late
  BY DEF SafeInv, RequestsInv, DisableIsEffective, Admitted
<1>3. \A q \in {"closing", "done"} : Legal(r, q, "ok")
  BY <1>1, <1>2 DEF Legal, Silent, LoopHeld, InThread
<1> QED
  BY <1>1, <1>2, <1>3

LEMMA HandleStep ==
  ASSUME SafeInv, NEW r \in AccessRequests, Handle(r)
  PROVE  SafeInv'
<1>1. pc[r] \in {"admitted", "upstream"} /\ UNCHANGED <<agents, wants, names, pool, late>>
  BY DEF Handle
<1>2. CASE Become(r, "closing") /\ WillAnswer(r, "ok")
  <2>1. "closing" \in Places /\ "closing" \notin Connected /\ "ok" \in Answers
    BY DEF Places, Connected, Answers
  <2> QED
    BY <1>1, <1>2, <2>1, AdmittedIsInTime, MoveKeeps DEF Become, WillAnswer
<1>3. CASE Become(r, "upstream") /\ UNCHANGED answer
  <2>1. Legal(r, "upstream", answer[r])
    BY <1>1, AdmittedIsInTime DEF Legal, Silent, LoopHeld, InThread
  <2>2. "upstream" \in Places /\ "upstream" \in Connected
    BY DEF Places, Connected
  <2> QED
    BY <1>1, <1>3, <2>1, <2>2, AdmittedIsInTime, Standing, MoveKeeps DEF Become
<1> QED
  BY <1>2, <1>3 DEF Handle

\* The moves that give a connection back.
LEMMA ResumeOrCloseStep ==
  ASSUME SafeInv, NEW r \in AccessRequests, Resume(r) \/ Close(r)
  PROVE  SafeInv'
<1>1. /\ "done" \in Places \ Connected /\ "done" \in Places \ {"idle"} /\ "done" \notin Silent
      /\ "ok" \in Answers
  BY DEF Places, Connected, Silent, LoopHeld, InThread, Answers
<1>2. CASE Resume(r)
  <2>1. pc[r] \in {"admitted", "upstream"} /\ UNCHANGED <<agents, wants, names, late>>
    BY <1>2 DEF Resume
  <2>2. CASE Become(r, "done") /\ WillAnswer(r, "ok") /\ Release(r)
    BY <1>1, <2>1, <2>2, AdmittedIsInTime, MoveReleases DEF Become, WillAnswer
  <2>3. CASE Raise(r, "closing", "internal_error") /\ UNCHANGED pool
    <3>1. Legal(r, "closing", "internal_error")
      BY <2>1, Failed
    <3>2. "closing" \in Places /\ "closing" \notin Connected /\ "internal_error" \in Answers
      BY DEF Places, Connected, Answers
    <3> QED
      BY <2>1, <2>3, <3>1, <3>2, MoveKeeps DEF Raise, Become, WillAnswer
  <2> QED
    BY <1>2, <2>2, <2>3 DEF Resume
<1>3. CASE Close(r)
  <2>1. Legal(r, "done", answer[r])
    BY <1>1, <1>3, SameAnswer DEF Close, LoopHeld, InThread
  <2> QED
    BY <1>1, <1>3, <2>1, Standing, MoveReleases DEF Close, Become
<1> QED
  BY <1>2, <1>3

-----------------------------------------------------------------------------
LEMMA SafeInvInit ==
  ASSUME AccessInit
  PROVE  SafeInv
<1>1. AccessTypeOK
  BY FS_EmptySet DEF AccessInit, AccessTypeOK, Places, Answers
<1>2. NoConnectionLeaks
  <2>1. Cardinality({}) <= PoolSize
    BY FS_EmptySet, PoolSizeType
  <2>2. \A w \in Workers : \A r \in Of(w) : pc[r] \notin Connected
    BY DEF AccessInit, Of, Connected
  <2> QED
    BY <2>1, <2>2 DEF AccessInit, NoConnectionLeaks
<1>3. RequestsInv
  BY AccessKinds DEF AccessInit, RequestsInv, PlacesFollow, AnswersFollow, AgentsInv,
                     DisableIsEffective, LoopHeld, InThread
<1> QED
  BY <1>1, <1>2, <1>3 DEF SafeInv

LEMMA SafeInvStep ==
  ASSUME SafeInv, [AccessNext]_accessVars
  PROVE  SafeInv'
<1>1. ASSUME NEW r \in AccessRequests, Submit(r)
      PROVE  SafeInv'
  <2>1. AccessTypeOK' /\ RequestsInv'
    BY <1>1, SubmitStep DEF SafeInv
  <2>2. r \notin pool[WorkerOf[r]] /\ "sent" \in Places /\ "sent" \notin Connected
    BY <1>1, Standing DEF Submit, Connected, Places
  <2>3. NoConnectionLeaks'
    BY <1>1, <2>2, KeepsConnection DEF SafeInv, Submit, Become
  <2> QED
    BY <2>1, <2>3 DEF SafeInv
<1>2. ASSUME NEW r \in AccessRequests, Step(r)
      PROVE  SafeInv'
  BY <1>2, StartStep, ConnectStep, ConnectTimesOutStep, InsertAgentStep, SelectAgentStep, UpdateAgentStep,
     CommittedStep, AuthenticateStep, UnwindOrRespondStep, HandleStep, ResumeOrCloseStep DEF Step
<1>3. ASSUME NEW r \in AccessRequests, DatabaseFails(r)
      PROVE  SafeInv'
  BY <1>3, DatabaseFailsStep
<1>4. ASSUME NEW w \in Unreliable, Crash(w)
      PROVE  SafeInv'
  BY <1>4, CrashStep DEF SafeInv
<1>5. ASSUME UNCHANGED accessVars
      PROVE  SafeInv'
  <2>1. AccessTypeOK'
    BY <1>5 DEF SafeInv, AccessTypeOK, accessVars
  <2>2. NoConnectionLeaks'
    BY <1>5 DEF SafeInv, NoConnectionLeaks, accessVars
  <2>3. RequestsInv'
    BY <1>5 DEF SafeInv, RequestsInv, PlacesFollow, AnswersFollow, AgentsInv, DisableIsEffective, Admitted,
                SameName, accessVars
  <2> QED
    BY <2>1, <2>2, <2>3 DEF SafeInv
<1> QED
  BY <1>1, <1>2, <1>3, <1>4, <1>5 DEF AccessNext, AllEnded

-----------------------------------------------------------------------------
\* Agents, requests, threads and connections fit together at all times: the
\* inductive invariant, and the states of AgentService have their types.
THEOREM AccessInvariant == AccessSpec => []AccessInv
<1>1. AccessInit => SafeInv
  BY SafeInvInit
<1>2. SafeInv /\ [AccessNext]_accessVars => SafeInv'
  BY SafeInvStep
<1>3. SafeInv => AccessInv
  BY AccessInvFollows DEF SafeInv
<1> QED
  BY <1>1, <1>2, <1>3, PTL DEF AccessSpec

\* No path through a request, and no death of a worker, loses a connection of a
\* pool or overdraws it (get_db_session closes every session).
THEOREM ConnectionsComeBack == AccessSpec => []NoConnectionLeaks
<1>1. AccessInv => NoConnectionLeaks
  BY DEF AccessInv
<1> QED
  BY <1>1, AccessInvariant, PTL

\* A key presented after its agent was reported as disabled opens nothing, on any
\* worker (disable_agent, authenticate_agent_by_api_key).
THEOREM DisableTakesEffect == AccessSpec => []DisableIsEffective
<1>1. AccessInv => DisableIsEffective
  BY DEF AccessInv
<1> QED
  BY <1>1, AccessInvariant, PTL

\* What administrators are told of agents and of names holds, and goes on holding
\* (create_agent, disable_agent, uq_agents_tenant_id_name).
THEOREM AdministratorsToldTrue == AccessSpec => []AdminAnswersTrue
<1>1. AccessInv => AdminAnswersTrue
  BY DEF AccessInv
<1> QED
  BY <1>1, AccessInvariant, PTL

\* A key that was given out is refused only as disabled, and only if a disabling of
\* its agent was sent (require_agent).
THEOREM IssuedKeysWork == AccessSpec => []KeysWork
<1>1. AccessInv => KeysWork
  BY DEF AccessInv
<1> QED
  BY <1>1, AccessInvariant, PTL
=============================================================================
