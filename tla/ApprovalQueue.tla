---------------------------- MODULE ApprovalQueue ----------------------------
(***************************************************************************)
(* The approvals as administrators meet them: list_approvals of            *)
(* application/services/approval_service.py over list_filtered of          *)
(* infrastructure/db/repositories.py, and reviews of what was listed.      *)
(*                                                                         *)
(* There is no end to approvals: one that has been decided makes room for  *)
(* a new one, which takes its name.  A review is one step here, with the   *)
(* outcomes ApprovalService and ToolCallService give it; what overlapping  *)
(* reviews do to each other is Gateway's subject.                          *)
(***************************************************************************)
EXTENDS GatewayTypes, Naturals, Sequences

CONSTANTS
  Approvals,
  TenantOf,    \* the tenant of each
  Reviewers,   \* administrators
  Diligent,    \* those who keep working through what they list
  FilterOf,    \* the tenant a reviewer lists, or AllTenants
  AllTenants,
  LimitOf,     \* the limit a reviewer lists with, or NoLimit
  NoLimit

ASSUME DiligentType == Diligent \subseteq Reviewers
ASSUME LimitType    == \A m \in Reviewers : LimitOf[m] \in (Nat \ {0}) \cup {NoLimit}

VARIABLES
  rows,     \* approval_requests, by created_at
  status,
  expired,  \* those whose expires_at has passed
  page      \* what each reviewer has listed and not yet been through

queueVars == <<rows, status, expired, page>>

\* The members of seq that are in S, in their order: SelectSeq, which the prover
\* does not open, for membership in a set.
Selected(seq, S) ==
  LET kept[n \in 0 .. Len(seq)] ==
        IF n = 0 THEN <<>>
        ELSE IF seq[n] \in S THEN Append(kept[n - 1], seq[n]) ELSE kept[n - 1]
  IN  kept[Len(seq)]

Without(seq, a) == Selected(seq, Approvals \ {a})

AsksFor(m, a) == FilterOf[m] = AllTenants \/ FilterOf[m] = TenantOf[a]

UpTo(limit, seq) ==
  IF limit = NoLimit \/ limit >= Len(seq) THEN seq ELSE SubSeq(seq, 1, limit)

Wanted(m) == {a \in Approvals : status[a] = "pending" /\ AsksFor(m, a)}

\* Mutant: the newest come first.
ListNewestFirst(m) ==
  LET newest == [i \in 1 .. Len(rows) |-> rows[Len(rows) + 1 - i]]
  IN  UpTo(LimitOf[m], Selected(newest, Wanted(m)))

\* The pending approvals of the tenant, oldest first, the first of them.
list_filtered(m) == UpTo(LimitOf[m], Selected(rows, Wanted(m)))

-----------------------------------------------------------------------------
\* create_pending_approval.  The row of the old approval of this name, and what
\* is left of it in somebody's list, matter to nobody any more.
Create(a) ==
  /\ status[a] # "pending"
  /\ rows' = Append(Without(rows, a), a)
  /\ status' = [status EXCEPT ![a] = "pending"]
  /\ expired' = expired \ {a}
  /\ page' = [m \in Reviewers |-> Without(page[m], a)]

\* Time passes: expires_at of a pending approval is over.
TimePasses(a) ==
  /\ status[a] = "pending" /\ a \notin expired
  /\ expired' = expired \cup {a}
  /\ UNCHANGED <<rows, status, page>>

ListApprovals(m) ==
  /\ page[m] = <<>>
  /\ page' = [page EXCEPT ![m] = list_filtered(m)]
  /\ UNCHANGED <<rows, status, expired>>

Closes(m, a, outcome) ==
  /\ status' = [status EXCEPT ![a] = outcome]
  /\ page' = [page EXCEPT ![m] = Tail(@)]
  /\ UNCHANGED <<rows, expired>>

\* Mutant: an approval that has expired is refused and stays as it is.
ReviewExpiredRefused(m, a) ==
  /\ status[a] = "pending" /\ a \in expired
  /\ Closes(m, a, "pending")

\* approve_approval and deny_approval: an approval that has expired is closed.
ReviewExpired(m, a) ==
  /\ status[a] = "pending" /\ a \in expired
  /\ Closes(m, a, "expired")

\* It is denied, or approved and executed.
ReviewDecides(m, a) ==
  /\ status[a] = "pending" /\ a \notin expired
  /\ \E outcome \in {"denied", "executed", "failed"} : Closes(m, a, outcome)

\* Somebody else has decided it; or an exception leaves the execution and the
\* approval is rolled back to pending.
ReviewFails(m, a) ==
  /\ status[a] = "pending" => a \notin expired
  /\ Closes(m, a, status[a])

\* The next approval of the list.
Review(m) ==
  /\ page[m] # <<>>
  /\ LET a == Head(page[m])
     IN  ReviewExpired(m, a) \/ ReviewDecides(m, a) \/ ReviewFails(m, a)

QueueInit ==
  /\ rows = <<>>
  /\ status = [a \in Approvals |-> "absent"]
  /\ expired = {}
  /\ page = [m \in Reviewers |-> <<>>]

QueueNext == \/ \E a \in Approvals : Create(a) \/ TimePasses(a)
             \/ \E m \in Reviewers : ListApprovals(m) \/ Review(m)

\* Time passes, and the diligent list and review for ever.
QueueFairness ==
  /\ \A a \in Approvals : WF_queueVars(TimePasses(a))
  /\ \A m \in Diligent : WF_queueVars(ListApprovals(m)) /\ WF_queueVars(Review(m))

QueueSpec == QueueInit /\ [][QueueNext]_queueVars /\ QueueFairness

-----------------------------------------------------------------------------
\* Before(a, b): the row of a is older.
Before(a, b) == \E i, j \in 1 .. Len(rows) : i < j /\ rows[i] = a /\ rows[j] = b

RowsNameEachOnce ==
  /\ rows \in Seq(Approvals)
  /\ \A i, j \in 1 .. Len(rows) : rows[i] = rows[j] => i = j
  /\ status \in [Approvals -> ApprovalStatus \cup {"absent"}]
  /\ \A a \in Approvals : status[a] # "absent" <=> \E i \in 1 .. Len(rows) : rows[i] = a
  /\ expired \subseteq Approvals

PageInOrder(m) ==
  /\ page[m] \in Seq({a \in Approvals : AsksFor(m, a)})
  /\ LimitOf[m] # NoLimit => Len(page[m]) <= LimitOf[m]
  /\ \A i, j \in 1 .. Len(page[m]) : i < j => Before(page[m][i], page[m][j])

\* rows names an approval once it has been created, and once.  What a reviewer has
\* before them are approvals of the tenant they asked for, no more than their limit,
\* and, whatever came and went since they were listed, the oldest first
\* (list_filtered).
QueueInv ==
  /\ RowsNameEachOnce
  /\ page \in [Reviewers -> Seq(Approvals)]
  /\ \A m \in Reviewers : PageInOrder(m)

\* No approval is forgotten behind a limit: whoever reviews, again and again, what
\* list_approvals gives first, reaches every pending approval of the tenants they
\* ask for, although new ones keep coming, others decide some of them, and an
\* approval whose execution fails returns to the head of the list until it expires.
EveryApprovalDecided ==
  \A a \in Approvals :
    (status[a] = "pending" /\ \E m \in Diligent : AsksFor(m, a)) ~> status[a] # "pending"
=============================================================================
