SPECIFICATION MCRegistrySpec
CONSTANTS
  c1 = c1
  f1 = f1
  f2 = f2
  p1 = p1
  p2 = p2
  w1 = w1
  w2 = w2
  t1 = t1
  t2 = t2
  s1 = s1
  s2 = s2
  Creations = {c1}
  Refreshes = {f1, f2}
  Patches = {p1}
  Workers = {w1, w2}
  WorkerOf <- WorkerOfRequest
  ToolNames = {t1, t2}
  Schemas = {s1, s2}
  LooselyEqual <- NoLoosePairs
  Discoveries <- SomeDiscoveries
  Unset = Unset
  NoTool = NoTool
INVARIANTS RegistryInv RefreshRegistersAll HashMatchesSchema
PROPERTY OnlyAdminsClassify RequestsEnd
