SPECIFICATION MCSpec
CONSTANTS
  n1 = n1
  n2 = n2
  Nodes = {n1, n2}
  gossipPeers <- Two
  MaxCount = 1
  MaxRestarts = 0
  MaxMsgs = 1
  Ids = {m1, m2}
  Loops = {l1}
  MaxVersion = 1
  MaxFailures = 0
  A = A
  B = B
  C = C
  D = D
  Modules = {A, B, C, D}
  ModuleVersions = {1, 2}
  Dependencies <- NeedsShared
  MaxCommands = 1
  MaxInstallFailures = 0
INVARIANTS DependenciesSeeEachOther
CHECK_DEADLOCK FALSE
