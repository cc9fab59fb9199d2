SPECIFICATION MCAccessSpec
CONSTANTS
  c1 = c1
  c2 = c2
  d1 = d1
  d2 = d2
  u1 = u1
  w1 = w1
  w2 = w2
  t1 = t1
  n1 = n1
  Creations = {c1, c2}
  Disablings = {d1, d2}
  Uses = {u1}
  Workers = {w1, w2}
  WorkerOf <- WorkerOfRequest
  Unreliable = {w2}
  Tenants = {t1}
  UnknownTenant = UnknownTenant
  AgentNames = {n1}
  NoAgent = NoAgent
  PoolSize = 1
  Threads = 1
INVARIANTS AccessInv NoConnectionLeaks DisableIsEffective AdminAnswersTrue KeysWork
PROPERTY EveryAccessEnds
