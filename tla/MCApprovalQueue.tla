--------------------------- MODULE MCApprovalQueue ---------------------------
(***************************************************************************)
(* An instance of ApprovalQueue for TLC: a diligent reviewer who lists one *)
(* approval at a time, of every tenant, and one who lists those of one     *)
(* tenant, without a limit, whenever it pleases.                           *)
(***************************************************************************)
EXTENDS ApprovalQueue, TLC

CONSTANTS a1, a2, a3, t1, t2, m1, m2

TenantOfApproval == a1 :> t1 @@ a2 :> t1 @@ a3 :> t2
FilterOfReviewer == m1 :> AllTenants @@ m2 :> t1
LimitOfReviewer  == m1 :> 1 @@ m2 :> NoLimit
=============================================================================
