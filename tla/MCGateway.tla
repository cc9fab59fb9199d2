------------------------------ MODULE MCGateway ------------------------------
(***************************************************************************)
(* Instances of Gateway for TLC: two calls c1 and c2 of one agent and two  *)
(* reviews r1 and r2.                                                      *)
(***************************************************************************)
EXTENDS Gateway

CONSTANTS x1, c1, c2, r1, r2, w1, w2, w3, w4

\* Requests of each kind on different workers.
AcrossTwoWorkers == [r \in Requests |-> IF r \in {c1, r1} THEN w1 ELSE w2]

OnOneWorker == [r \in Requests |-> w1]

OneWorkerEach ==
  [r \in Requests |-> CASE r = c1 -> w1 [] r = c2 -> w2 [] r = r1 -> w3 [] OTHER -> w4]

\* Without loss of generality c1 has the arguments x1, both calls carry the key
\* or neither does (a key used once collides with nothing), and r1 reviews c1.
\* What r2 reviews, both verbs and the arguments of c2 stay open.
MCInit ==
  /\ Init
  /\ req[c1].args = x1
  /\ req[c1].key = req[c2].key
  /\ review[r1].target = c1

MCSpec == MCInit /\ [][Next]_vars

\* The requests that can wait for each other: one key, one approval, and by
\* symmetry r1 is an approve whenever one of the reviews is.
Contended == /\ MCInit
             /\ req[c1].key # NoKey
             /\ \A r \in ReviewReqs : review[r].target = c1
             /\ review[r1].verb = "approve"

ContendedFairSpec == Contended /\ [][Next]_vars /\ Fairness
=============================================================================
