------------------------ MODULE ApprovalQueueProofs ------------------------
(***************************************************************************)
(* Theorems about ApprovalQueue for any number of approvals, of reviewers  *)
(* and of tenants, and any limits.                                         *)
(***************************************************************************)
EXTENDS ApprovalQueue, SetInduction, SequenceTheorems, TLAPS

\* Selected keeps the members of seq that are in S, and their order: index tells
\* where in seq each of them comes from.
Picks(index, kept, seq, S, n) ==
  /\ Len(kept) <= n /\ index \in [1 .. Len(kept) -> 1 .. n]
  /\ \A i \in 1 .. Len(kept) : kept[i] = seq[index[i]] /\ kept[i] \in S
  /\ \A i, j \in 1 .. Len(kept) : i < j => index[i] < index[j]
  /\ \A k \in 1 .. n : seq[k] \in S => \E i \in 1 .. Len(kept) : index[i] = k

KeptBody(f, seq, S, n) ==
  IF n = 0 THEN <<>>
  ELSE IF seq[n] \in S THEN Append(f[n - 1], seq[n]) ELSE f[n - 1]

\* The recursion in Selected defines a function.
LEMMA KeptRecursion ==
  ASSUME NEW A, NEW seq \in Seq(A), NEW S
  PROVE  \E f : /\ \A n \in 0 .. Len(seq) : f[n] = KeptBody(f, seq, S, n)
                /\ Selected(seq, S) = f[Len(seq)]
<1> DEFINE Solves(f, n) == f = [k \in 0 .. n |-> KeptBody(f, seq, S, k)]
           T == {n \in Nat : \E f : Solves(f, n)}
<1>0. Len(seq) \in Nat
  OBVIOUS
<1>1. 0 \in T
  <2>1. Solves([k \in 0 .. 0 |-> <<>>], 0)
    BY DEF KeptBody
  <2> QED
    BY <2>1
<1>2. ASSUME NEW n \in Nat, n \in T PROVE n + 1 \in T
  <2>1. PICK f : Solves(f, n)
    BY <1>2
  <2> DEFINE g == [k \in 0 .. n + 1 |-> KeptBody(f, seq, S, k)]
  <2>2. ASSUME NEW k \in 0 .. n + 1 PROVE KeptBody(f, seq, S, k) = KeptBody(g, seq, S, k)
    <3>1. CASE k = 0
      BY <3>1 DEF KeptBody
    <3>2. CASE k # 0
      <4>1. k - 1 \in 0 .. n /\ k - 1 \in 0 .. n + 1
        BY <3>2
      <4>2. f[k - 1] = g[k - 1]
        BY <2>1, <4>1
      <4> QED
        BY <3>2, <4>2 DEF KeptBody
    <3> QED
      BY <3>1, <3>2
  <2>3. Solves(g, n + 1)
    BY <2>2
  <2> HIDE DEF g, Solves
  <2>4. \E h : Solves(h, n + 1)
    BY <2>3
  <2> QED
    BY <2>4
<1> HIDE DEF T
<1>3. Len(seq) \in T
  BY <1>0, <1>1, <1>2, SetOfAllNaturals
<1> DEFINE kept == CHOOSE f : Solves(f, Len(seq))
<1>4. \E f : Solves(f, Len(seq))
  BY <1>3 DEF T
<1>5. Selected(seq, S) = kept[Len(seq)]
  BY DEF Selected, KeptBody
<1>6. Solves(kept, Len(seq))
  <2> HIDE DEF Solves
  <2> QED
    BY <1>4
<1>7. \A n \in 0 .. Len(seq) : kept[n] = KeptBody(kept, seq, S, n)
  <2> HIDE DEF kept
  <2> QED
    BY <1>6
<1> HIDE DEF kept
<1> QED
  BY <1>5, <1>7

LEMMA SelectedPicks ==
  ASSUME NEW A, NEW seq \in Seq(A), NEW S
  PROVE  /\ Selected(seq, S) \in Seq(A \cap S)
         /\ \E index : Picks(index, Selected(seq, S), seq, S, Len(seq))
<1> DEFINE last == Len(seq)
<1>1. PICK f : /\ \A n \in 0 .. last : f[n] = KeptBody(f, seq, S, n)
               /\ Selected(seq, S) = f[last]
  BY KeptRecursion
<1> DEFINE Good(n) == f[n] \in Seq(A \cap S) /\ \E index : Picks(index, f[n], seq, S, n)
           T == {n \in Nat : n <= last => Good(n)}
<1>2. last \in Nat /\ \A n \in 1 .. last : seq[n] \in A
  OBVIOUS
<1>3. 0 \in T
  <2>1. f[0] = <<>>
    BY <1>1, <1>2 DEF KeptBody
  <2>2. Picks(<<>>, f[0], seq, S, 0)
    BY <2>1 DEF Picks
  <2>3. f[0] \in Seq(A \cap S)
    BY <2>1, EmptySeq
  <2>4. Good(0)
    BY <2>2, <2>3
  <2> HIDE DEF Good
  <2> QED
    BY <2>4
<1>4. ASSUME NEW n \in Nat, n \in T PROVE n + 1 \in T
  <2> SUFFICES ASSUME n + 1 <= last PROVE Good(n + 1)
    OBVIOUS
  <2>0. n \in 0 .. last /\ n + 1 \in 0 .. last /\ n + 1 \in 1 .. last /\ n + 1 # 0 /\ (n + 1) - 1 = n
    BY <1>2
  <2>1. Good(n)
    BY <1>4, <2>0
  <2>2. PICK index : Picks(index, f[n], seq, S, n)
    BY <2>1
  <2>3. f[n] \in Seq(A \cap S) /\ Len(f[n]) \in Nat
    BY <2>1
  <2>4. CASE seq[n + 1] \in S
    <3>1. f[n + 1] = Append(f[n], seq[n + 1]) /\ seq[n + 1] \in A \cap S
      BY <1>1, <1>2, <2>0, <2>4 DEF KeptBody
    <3> DEFINE l == Len(f[n])
               longer == [i \in 1 .. l + 1 |-> IF i = l + 1 THEN n + 1 ELSE index[i]]
    <3>2. /\ f[n + 1] \in Seq(A \cap S) /\ Len(f[n + 1]) = l + 1
          /\ \A i \in 1 .. l : f[n + 1][i] = f[n][i]
          /\ f[n + 1][l + 1] = seq[n + 1]
      BY <2>3, <3>1
    <3>a. l \in Nat /\ l <= n /\ index \in [1 .. l -> 1 .. n]
      BY <2>2, <2>3 DEF Picks
    <3>b. \A i \in 1 .. l + 1 : i = l + 1 \/ i \in 1 .. l
      BY <3>a
    <3>3. /\ \A i \in 1 .. l : longer[i] = index[i] /\ index[i] \in 1 .. n
          /\ longer[l + 1] = n + 1 /\ longer \in [1 .. l + 1 -> 1 .. n + 1]
      <4> HIDE DEF l
      <4> QED
        BY <3>a
    <3> HIDE DEF longer
    <3>4. ASSUME NEW i \in 1 .. l + 1
          PROVE  f[n + 1][i] = seq[longer[i]] /\ f[n + 1][i] \in S
      <4>1. CASE i = l + 1
        BY <2>4, <3>2, <3>3, <4>1
      <4>2. CASE i \in 1 .. l
        BY <2>2, <3>2, <3>3, <4>2 DEF Picks
      <4> QED
        BY <3>b, <4>1, <4>2
    <3>5. ASSUME NEW i \in 1 .. l + 1, NEW j \in 1 .. l + 1, i < j PROVE longer[i] < longer[j]
      <4>1. i \in 1 .. l
        BY <3>a, <3>5
      <4>2. CASE j = l + 1
        BY <3>3, <4>1, <4>2
      <4>3. CASE j \in 1 .. l
        BY <2>2, <3>3, <3>5, <4>1, <4>3 DEF Picks
      <4> QED
        BY <3>b, <4>2, <4>3
    <3>6. ASSUME NEW k \in 1 .. n + 1, seq[k] \in S PROVE \E i \in 1 .. l + 1 : longer[i] = k
      <4>1. CASE k = n + 1
        BY <2>3, <3>3, <4>1
      <4>2. CASE k # n + 1
        <5>1. PICK i \in 1 .. l : index[i] = k
          BY <2>2, <3>6, <4>2 DEF Picks
        <5>2. i \in 1 .. l + 1
          BY <2>3
        <5> QED
          BY <3>3, <5>1, <5>2
      <4> QED
        BY <4>1, <4>2
    <3>7. Picks(longer, f[n + 1], seq, S, n + 1)
      BY <3>a, <3>2, <3>3, <3>4, <3>5, <3>6 DEF Picks
    <3> QED
      BY <3>2, <3>7
  <2>5. CASE seq[n + 1] \notin S
    <3>1. f[n + 1] = f[n]
      BY <1>1, <2>0, <2>5 DEF KeptBody
    <3>2. Picks(index, f[n + 1], seq, S, n + 1)
      BY <2>2, <2>3, <2>5, <3>1 DEF Picks
    <3> QED
      BY <2>3, <3>1, <3>2
  <2> QED
    BY <2>4, <2>5
<1> HIDE DEF T, Good
<1>5. last \in T
  BY <1>2, <1>3, <1>4, SetOfAllNaturals
<1>6. Good(last)
  BY <1>2, <1>5 DEF T
<1> QED
  BY <1>1, <1>6 DEF Good

-----------------------------------------------------------------------------
\* Whether one thing comes before another in a sequence.
BeforeIn(seq, x, y) == \E i, j \in 1 .. Len(seq) : i < j /\ seq[i] = x /\ seq[j] = y

\* Nothing changes places when some are left out.
LEMMA SelectedOrder ==
  ASSUME NEW A, NEW seq \in Seq(A), NEW S
  PROVE  LET kept == Selected(seq, S)
         IN  /\ \A i, j \in 1 .. Len(kept) : i < j => BeforeIn(seq, kept[i], kept[j])
             /\ \A x, y \in S : BeforeIn(seq, x, y) => BeforeIn(kept, x, y)
             /\ \A x \in S : (\E k \in 1 .. Len(seq) : seq[k] = x)
                               <=> \E i \in 1 .. Len(kept) : kept[i] = x
             /\ (\A i, j \in 1 .. Len(seq) : seq[i] = seq[j] => i = j) =>
                  \A i, j \in 1 .. Len(kept) : kept[i] = kept[j] => i = j
<1> DEFINE kept == Selected(seq, S)
<1>1. PICK index : Picks(index, kept, seq, S, Len(seq))
  BY SelectedPicks
<1>2. kept \in Seq(A \cap S)
  BY SelectedPicks
<1> HIDE DEF kept
<1>3. Len(kept) \in Nat /\ Len(seq) \in Nat
  BY <1>2
<1>4. \A i \in 1 .. Len(kept) : index[i] \in 1 .. Len(seq) /\ kept[i] = seq[index[i]] /\ kept[i] \in S
  BY <1>1 DEF Picks
<1>5. \A i, j \in 1 .. Len(kept) : i < j => index[i] < index[j]
  BY <1>1 DEF Picks
<1>6. \A k \in 1 .. Len(seq) : seq[k] \in S => \E i \in 1 .. Len(kept) : index[i] = k
  BY <1>1 DEF Picks
<1>7. ASSUME NEW i \in 1 .. Len(kept), NEW j \in 1 .. Len(kept), i < j
      PROVE  BeforeIn(seq, kept[i], kept[j])
  <2>1. index[i] < index[j]
    BY <1>5, <1>7
  <2> QED
    BY <1>4, <2>1 DEF BeforeIn
<1>8. ASSUME NEW x \in S, NEW y \in S, BeforeIn(seq, x, y) PROVE BeforeIn(kept, x, y)
  <2>1. PICK k, l \in 1 .. Len(seq) : k < l /\ seq[k] = x /\ seq[l] = y
    BY <1>8 DEF BeforeIn
  <2>2. PICK i \in 1 .. Len(kept) : index[i] = k
    BY <1>6, <2>1
  <2>3. PICK j \in 1 .. Len(kept) : index[j] = l
    BY <1>6, <2>1
  <2>4. kept[i] = x /\ kept[j] = y
    BY <1>4, <2>1, <2>2, <2>3
  <2>5. i # j /\ ~(j < i)
    BY <1>5, <2>1, <2>2, <2>3
  <2>6. i < j
    BY <1>3, <2>5
  <2> QED
    BY <2>4, <2>6 DEF BeforeIn
<1>9. ASSUME NEW x \in S
      PROVE  (\E k \in 1 .. Len(seq) : seq[k] = x) <=> \E i \in 1 .. Len(kept) : kept[i] = x
  <2>1. ASSUME NEW k \in 1 .. Len(seq), seq[k] = x PROVE \E i \in 1 .. Len(kept) : kept[i] = x
    BY <1>4, <1>6, <2>1
  <2>2. ASSUME NEW i \in 1 .. Len(kept), kept[i] = x PROVE \E k \in 1 .. Len(seq) : seq[k] = x
    BY <1>4, <2>2
  <2> QED
    BY <2>1, <2>2
<1>10. ASSUME \A i, j \in 1 .. Len(seq) : seq[i] = seq[j] => i = j,
              NEW i \in 1 .. Len(kept), NEW j \in 1 .. Len(kept), kept[i] = kept[j]
       PROVE  i = j
  <2>1. index[i] = index[j]
    BY <1>4, <1>10
  <2>2. ~(i < j) /\ ~(j < i)
    BY <1>4, <1>5, <2>1
  <2> QED
    BY <1>3, <2>2
<1> QED
  BY <1>7, <1>8, <1>9, <1>10 DEF kept

\* The first of a sequence, as many as the limit allows.
LEMMA UpToPrefix ==
  ASSUME NEW A, NEW seq \in Seq(A), NEW m \in Reviewers
  PROVE  LET first == UpTo(LimitOf[m], seq)
         IN  /\ first \in Seq(A) /\ Len(first) <= Len(seq)
             /\ \A i \in 1 .. Len(first) : first[i] = seq[i]
             /\ LimitOf[m] # NoLimit => Len(first) <= LimitOf[m]
<1> DEFINE limit == LimitOf[m]
<1>1. Len(seq) \in Nat /\ (limit # NoLimit => limit \in Nat \ {0})
  BY LimitType
<1>2. CASE limit = NoLimit \/ limit >= Len(seq)
  BY <1>1, <1>2 DEF UpTo
<1>3. CASE ~(limit = NoLimit \/ limit >= Len(seq))
  <2>1. UpTo(limit, seq) = SubSeq(seq, 1, limit) /\ limit \in 1 .. Len(seq)
    BY <1>1, <1>3 DEF UpTo
  <2>2. \A i \in 1 .. limit : seq[i] \in A
    BY <2>1
  <2>3. /\ SubSeq(seq, 1, limit) \in Seq(A) /\ Len(SubSeq(seq, 1, limit)) = limit
        /\ \A i \in 1 .. limit : SubSeq(seq, 1, limit)[i] = seq[i]
    BY <1>1, <2>1, <2>2, SubSeqProperties
  <2> QED
    BY <1>1, <2>1, <2>3
<1> QED
  BY <1>2, <1>3

-----------------------------------------------------------------------------
LEMMA NewPage ==
  ASSUME NEW m \in Reviewers, NEW list, page'[m] = list,
         list \in Seq({a \in Approvals : AsksFor(m, a)}),
         LimitOf[m] # NoLimit => Len(list) <= LimitOf[m],
         \A i, j \in 1 .. Len(list) : i < j => BeforeIn(rows', list[i], list[j])
  PROVE  PageInOrder(m)'
<1>1. \A i, j \in 1 .. Len(page'[m]) : i < j => BeforeIn(rows', page'[m][i], page'[m][j])
  OBVIOUS
<1> QED
  BY <1>1 DEF PageInOrder, Before, BeforeIn

\* An approval that is created goes to the end, and the lists stay in order.
LEMMA CreateStep ==
  ASSUME QueueInv, NEW a \in Approvals, Create(a)
  PROVE  QueueInv'
<1> DEFINE w == Without(rows, a)
           others == Approvals \ {a}
<1>1. /\ rows \in Seq(Approvals) /\ \A i, j \in 1 .. Len(rows) : rows[i] = rows[j] => i = j
      /\ status \in [Approvals -> ApprovalStatus \cup {"absent"}]
      /\ \A b \in Approvals : status[b] # "absent" <=> \E i \in 1 .. Len(rows) : rows[i] = b
      /\ expired \subseteq Approvals
  BY DEF QueueInv, RowsNameEachOnce
<1>2. /\ rows' = Append(w, a) /\ status' = [status EXCEPT ![a] = "pending"]
      /\ expired' = expired \ {a} /\ page' = [m \in Reviewers |-> Without(page[m], a)]
  BY DEF Create
<1>3. w \in Seq(others)
  <2>1. Approvals \cap others = others
    OBVIOUS
  <2> QED
    BY <1>1, <2>1, SelectedPicks DEF Without
<1>4. /\ \A x, y \in others : BeforeIn(rows, x, y) => BeforeIn(w, x, y)
      /\ \A x \in others : (\E k \in 1 .. Len(rows) : rows[k] = x)
                             <=> \E i \in 1 .. Len(w) : w[i] = x
      /\ \A i, j \in 1 .. Len(w) : w[i] = w[j] => i = j
  BY <1>1, SelectedOrder DEF Without
<1> HIDE DEF w
<1>5. /\ Len(w) \in Nat /\ Len(rows') = Len(w) + 1 /\ rows' \in Seq(Approvals)
      /\ \A i \in 1 .. Len(w) : rows'[i] = w[i] /\ w[i] \in others
      /\ rows'[Len(w) + 1] = a
  BY <1>2, <1>3
<1>6. \A i \in 1 .. Len(w) + 1 : i = Len(w) + 1 \/ i \in 1 .. Len(w)
  BY <1>5
<1>7. RowsNameEachOnce'
  <2>1. ASSUME NEW i \in 1 .. Len(w) + 1, NEW j \in 1 .. Len(w) + 1, rows'[i] = rows'[j]
        PROVE  i = j
    BY <1>4, <1>5, <1>6, <2>1
  <2>2. ASSUME NEW b \in Approvals
        PROVE  status'[b] # "absent" <=> \E i \in 1 .. Len(w) + 1 : rows'[i] = b
    <3>1. CASE b = a
      BY <1>1, <1>2, <1>5, <3>1
    <3>2. CASE b # a
      <4>1. status'[b] # "absent" <=> \E i \in 1 .. Len(w) : w[i] = b
        BY <1>1, <1>2, <1>4, <3>2
      <4>2. (\E i \in 1 .. Len(w) : w[i] = b) <=> \E i \in 1 .. Len(w) + 1 : rows'[i] = b
        BY <1>5, <1>6, <3>2
      <4> QED
        BY <4>1, <4>2
    <3> QED
      BY <3>1, <3>2
  <2>3. status' \in [Approvals -> ApprovalStatus \cup {"absent"}] /\ expired' \subseteq Approvals
    BY <1>1, <1>2 DEF ApprovalStatus
  <2> QED
    BY <1>5, <2>1, <2>2, <2>3 DEF RowsNameEachOnce
<1>8. \A x, y \in others : BeforeIn(rows, x, y) => BeforeIn(rows', x, y)
  <2> SUFFICES ASSUME NEW x \in others, NEW y \in others, BeforeIn(rows, x, y)
               PROVE  BeforeIn(rows', x, y)
    OBVIOUS
  <2>1. PICK i, j \in 1 .. Len(w) : i < j /\ w[i] = x /\ w[j] = y
    BY <1>4 DEF BeforeIn
  <2>2. i \in 1 .. Len(rows') /\ j \in 1 .. Len(rows') /\ rows'[i] = x /\ rows'[j] = y
    BY <1>5, <2>1
  <2> QED
    BY <2>1, <2>2 DEF BeforeIn
<1>9. ASSUME NEW m \in Reviewers
      PROVE  page'[m] \in Seq(Approvals) /\ PageInOrder(m)'
  <2> DEFINE old == page[m]
             new == Without(old, a)
             asked == {b \in Approvals : AsksFor(m, b)}
  <2>1. /\ old \in Seq(asked) /\ (LimitOf[m] # NoLimit => Len(old) <= LimitOf[m])
        /\ \A i, j \in 1 .. Len(old) : i < j => BeforeIn(rows, old[i], old[j])
    BY DEF QueueInv, PageInOrder, Before, BeforeIn
  <2>2. page'[m] = new
    BY <1>2
  <2>3. new \in Seq(asked \cap others)
    BY <2>1, SelectedPicks DEF Without
  <2>4. \A i, j \in 1 .. Len(new) : i < j => BeforeIn(old, new[i], new[j])
    BY <2>1, SelectedOrder DEF Without
  <2>5. PICK index : Picks(index, new, old, others, Len(old))
    BY <2>1, SelectedPicks DEF Without
  <2>6. new \in Seq(asked) /\ new \in Seq(Approvals) /\ \A i \in 1 .. Len(new) : new[i] \in others
    BY <2>3
  <2> HIDE DEF new, old
  <2>7. Len(new) <= Len(old)
    BY <2>5 DEF Picks
  <2>8. LimitOf[m] # NoLimit => Len(new) <= LimitOf[m]
    BY <2>1, <2>3, <2>7, LimitType
  <2>9. ASSUME NEW i \in 1 .. Len(new), NEW j \in 1 .. Len(new), i < j
        PROVE  BeforeIn(rows', new[i], new[j])
    <3>1. PICK k, l \in 1 .. Len(old) : k < l /\ old[k] = new[i] /\ old[l] = new[j]
      BY <2>4, <2>9 DEF BeforeIn
    <3>2. BeforeIn(rows, new[i], new[j])
      BY <2>1, <3>1
    <3> QED
      BY <1>8, <2>6, <3>2
  <2>10. PICK list : list = new
    OBVIOUS
  <2>11. /\ page'[m] = list /\ list \in Seq(asked)
         /\ LimitOf[m] # NoLimit => Len(list) <= LimitOf[m]
         /\ \A i, j \in 1 .. Len(list) : i < j => BeforeIn(rows', list[i], list[j])
    BY <2>2, <2>6, <2>8, <2>9, <2>10
  <2> QED
    BY <2>2, <2>6, <2>11, NewPage
<1> QED
  BY <1>2, <1>7, <1>9 DEF QueueInv

\* A list that is in order stays so as long as the rows stay, and so does the
\* list that is put in its place.
LEMMA ShorterPage ==
  ASSUME UNCHANGED rows, NEW m \in Reviewers, NEW list, page'[m] = list,
         list \in Seq({a \in Approvals : AsksFor(m, a)}),
         LimitOf[m] # NoLimit => Len(list) <= LimitOf[m],
         \A i, j \in 1 .. Len(list) : i < j => Before(list[i], list[j])
  PROVE  PageInOrder(m)'
<1>1. \A i, j \in 1 .. Len(list) : i < j => BeforeIn(rows', list[i], list[j])
  BY DEF Before, BeforeIn
<1> QED
  BY <1>1, NewPage

LEMMA SamePage ==
  ASSUME UNCHANGED rows, NEW m \in Reviewers, page'[m] = page[m], PageInOrder(m)
  PROVE  PageInOrder(m)'
BY ShorterPage DEF PageInOrder

\* A review takes the first approval from the list of the reviewer, and leaves the
\* approval in a status it can have.
LEMMA ReviewStep ==
  ASSUME QueueInv, NEW m \in Reviewers, Review(m)
  PROVE  QueueInv'
<1> DEFINE old == page[m]
           asked == {b \in Approvals : AsksFor(m, b)}
<1>1. /\ RowsNameEachOnce /\ page \in [Reviewers -> Seq(Approvals)]
      /\ \A r \in Reviewers : PageInOrder(r)
      /\ status \in [Approvals -> ApprovalStatus \cup {"absent"}]
  BY DEF QueueInv, RowsNameEachOnce
<1>2. /\ old \in Seq(asked) /\ old # <<>> /\ (LimitOf[m] # NoLimit => Len(old) <= LimitOf[m])
      /\ \A i, j \in 1 .. Len(old) : i < j => Before(old[i], old[j])
  BY <1>1 DEF PageInOrder, Review
<1>3. PICK a \in asked, outcome \in ApprovalStatus \cup {"absent"} :
        /\ Closes(m, a, outcome)
        /\ status[a] # "absent" <=> outcome # "absent"
  <2>1. Head(old) \in asked /\ status[Head(old)] \in ApprovalStatus \cup {"absent"}
    BY <1>1, <1>2, HeadTailProperties
  <2> QED
    BY <2>1 DEF Review, ReviewExpired, ReviewDecides, ReviewFails, ApprovalStatus
<1>4. /\ status' = [status EXCEPT ![a] = outcome] /\ page' = [page EXCEPT ![m] = Tail(old)]
      /\ rows' = rows /\ expired' = expired
  BY <1>3 DEF Closes
<1>5. RowsNameEachOnce'
  BY <1>1, <1>3, <1>4 DEF RowsNameEachOnce
<1>6. /\ Tail(old) \in Seq(asked) /\ Len(Tail(old)) = Len(old) - 1 /\ Len(old) \in Nat
      /\ \A i \in 1 .. Len(old) - 1 : Tail(old)[i] = old[i + 1]
  <2>1. Len(old) \in Nat
    BY <1>2
  <2> QED
    BY <1>2, <2>1, HeadTailProperties
<1>7. page' \in [Reviewers -> Seq(Approvals)]
  BY <1>1, <1>4, <1>6
<1>8. ASSUME NEW r \in Reviewers PROVE PageInOrder(r)'
  <2>1. CASE r # m
    BY <1>1, <1>4, <2>1, SamePage
  <2>2. CASE r = m
    <3>1. page'[r] = Tail(old)
      BY <1>1, <1>4, <2>2
    <3>2. LimitOf[m] # NoLimit => Len(old) - 1 <= LimitOf[m]
      BY <1>2, <1>6, LimitType
    <3>3. ASSUME NEW i \in 1 .. Len(old) - 1, NEW j \in 1 .. Len(old) - 1, i < j
          PROVE  Before(old[i + 1], old[j + 1])
      <4>1. i + 1 \in 1 .. Len(old) /\ j + 1 \in 1 .. Len(old) /\ i + 1 < j + 1
        BY <1>6, <3>3
      <4> QED
        BY <1>2, <4>1
    <3>4. PICK list : list = Tail(old)
      OBVIOUS
    <3>5. /\ list \in Seq(asked) /\ Len(list) = Len(old) - 1
          /\ \A i \in 1 .. Len(list) : list[i] = old[i + 1]
      BY <1>6, <3>4
    <3>6. ASSUME NEW i \in 1 .. Len(list), NEW j \in 1 .. Len(list), i < j
          PROVE  Before(list[i], list[j])
      <4>1. Before(old[i + 1], old[j + 1])
        BY <3>3, <3>5, <3>6
      <4> QED
        BY <3>5, <4>1
    <3>7. LimitOf[m] # NoLimit => Len(list) <= LimitOf[m]
      BY <3>2, <3>5
    <3> QED
      BY <1>4, <2>2, <3>1, <3>4, <3>5, <3>6, <3>7, ShorterPage
  <2> QED
    BY <2>1, <2>2
<1> QED
  BY <1>5, <1>7, <1>8 DEF QueueInv

\* What is listed is the oldest of what is pending, and in that order.
LEMMA ListStep ==
  ASSUME QueueInv, NEW m \in Reviewers, ListApprovals(m)
  PROVE  QueueInv'
<1> DEFINE kept == Selected(rows, Wanted(m))
           first == UpTo(LimitOf[m], kept)
           asked == {b \in Approvals : AsksFor(m, b)}
<1>1. /\ RowsNameEachOnce /\ page \in [Reviewers -> Seq(Approvals)]
      /\ \A r \in Reviewers : PageInOrder(r)
      /\ rows \in Seq(Approvals)
  BY DEF QueueInv, RowsNameEachOnce
<1>2. page' = [page EXCEPT ![m] = first] /\ UNCHANGED <<rows, status, expired>>
  BY DEF ListApprovals, list_filtered
<1>3. kept \in Seq(asked)
  <2>1. Approvals \cap Wanted(m) \subseteq asked
    BY DEF Wanted
  <2>2. kept \in Seq(Approvals \cap Wanted(m))
    BY <1>1, SelectedPicks
  <2> HIDE DEF kept
  <2> QED
    BY <2>1, <2>2, SeqMonotonic
<1>4. \A i, j \in 1 .. Len(kept) : i < j => Before(kept[i], kept[j])
  BY <1>1, SelectedOrder DEF Before, BeforeIn
<1> HIDE DEF kept
<1>5. /\ first \in Seq(asked) /\ Len(first) <= Len(kept)
      /\ \A i \in 1 .. Len(first) : first[i] = kept[i]
      /\ LimitOf[m] # NoLimit => Len(first) <= LimitOf[m]
  BY <1>3, UpToPrefix
<1> HIDE DEF first
<1>6. Len(first) \in Nat /\ Len(kept) \in Nat /\ first \in Seq(Approvals)
  BY <1>3, <1>5
<1>7. \A i, j \in 1 .. Len(first) : i < j => Before(first[i], first[j])
  BY <1>4, <1>5, <1>6
<1>8. page' \in [Reviewers -> Seq(Approvals)] /\ page'[m] = first
  BY <1>1, <1>2, <1>6
<1>9. ASSUME NEW r \in Reviewers PROVE PageInOrder(r)'
  <2>1. CASE r # m
    BY <1>1, <1>2, <2>1, SamePage
  <2>2. CASE r = m
    BY <1>2, <1>5, <1>7, <1>8, <2>2, ShorterPage
  <2> QED
    BY <2>1, <2>2
<1>10. RowsNameEachOnce'
  BY <1>1, <1>2 DEF RowsNameEachOnce
<1> QED
  BY <1>8, <1>9, <1>10 DEF QueueInv

LEMMA QueueInvStep == QueueInv /\ [QueueNext]_queueVars => QueueInv'
<1> SUFFICES ASSUME QueueInv, [QueueNext]_queueVars PROVE QueueInv'
  OBVIOUS
<1>1. CASE UNCHANGED queueVars
  BY <1>1, SamePage DEF queueVars, QueueInv, RowsNameEachOnce
<1>2. ASSUME NEW a \in Approvals, TimePasses(a) PROVE QueueInv'
  BY <1>2, SamePage DEF TimePasses, QueueInv, RowsNameEachOnce
<1> QED
  BY <1>1, <1>2, CreateStep, ListStep, ReviewStep DEF QueueNext

LEMMA QueueInvInit == QueueInit => QueueInv
<1> SUFFICES ASSUME QueueInit PROVE QueueInv
  OBVIOUS
<1>1. \A S : <<>> \in Seq(S) /\ Len(<<>>) = 0
  BY EmptySeq
<1>2. RowsNameEachOnce
  BY <1>1 DEF QueueInit, RowsNameEachOnce
<1>3. ASSUME NEW m \in Reviewers PROVE PageInOrder(m)
  <2>1. page[m] = <<>>
    BY DEF QueueInit
  <2> QED
    BY <1>1, <2>1, LimitType DEF PageInOrder
<1> QED
  BY <1>1, <1>2, <1>3 DEF QueueInit, QueueInv

\* However many approvals come and go between a list and the reviews it leads to,
\* what an administrator works through stays within what was asked for and goes
\* from the oldest row to the newest (list_filtered).
THEOREM QueueInOrder == QueueSpec => []QueueInv
BY QueueInvInit, QueueInvStep, PTL DEF QueueSpec
=============================================================================
