SPECIFICATION QueueSpec
CONSTANTS
  a1 = a1
  a2 = a2
  a3 = a3
  t1 = t1
  t2 = t2
  m1 = m1
  m2 = m2
  Approvals = {a1, a2, a3}
  TenantOf <- TenantOfApproval
  Reviewers = {m1, m2}
  Diligent = {m1}
  FilterOf <- FilterOfReviewer
  AllTenants = AllTenants
  LimitOf <- LimitOfReviewer
  NoLimit = NoLimit
INVARIANT QueueInv
PROPERTY EveryApprovalDecided
