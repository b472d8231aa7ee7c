SPECIFICATION MCSpec
CONSTANTS
  n1 = n1
  n2 = n2
  Nodes = {n1, n2}
  gossipPeers <- Two
  MaxCount = 2
  MaxRestarts = 1
  MaxMsgs = 2
  Ids = {m1, m2}
  Loops = {l1, l2}
  MaxVersion = 2
  MaxFailures = 1
  A = A
  B = B
  C = C
  D = D
  Modules = {A, B, C}
  ModuleVersions = {1, 2}
  Dependencies <- Needs
  MaxCommands = 2
  MaxInstallFailures = 1
INVARIANTS CountsAreReal ActiveIsMapped InstalledCanRun
PROPERTIES ServersAreHeard MonitorsConverge
\* Commands, changes and restarts are bounded.
CHECK_DEADLOCK FALSE
