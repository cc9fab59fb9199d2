SPECIFICATION ContendedFairSpec
CONSTANTS
  x1 = x1
  c1 = c1
  c2 = c2
  r1 = r1
  r2 = r2
  w1 = w1
  w2 = w2
  w3 = w3
  w4 = w4
  CallReqs = {c1, c2}
  ReviewReqs = {r1}
  Agents = {a1}
  Keys = {k1}
  NoKey = NoKey
  Tools = {t1}
  Args = {x1, x2}
  Workers = {w1}
  WorkerOf <- OnOneWorker
  McpWorkers = {w1}
  AssignedRisks = {"low"}
  Unreliable = {}
PROPERTY EveryRequestAnswered
CHECK_DEADLOCK FALSE
