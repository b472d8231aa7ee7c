SPECIFICATION MCSpec
CONSTANTS
  Vertices = {a, b, c, d}
  Self = a
  Routers = {n1, n2, n3}
  MaxChanges = 0
  MaxSyncs = 0
  r1 = r1
  r2 = r2
  g = g
  gx = gx
  Resources = {r1, r2}
  Groups = {g, gx}
  Path <- GroupPaths
  Text <- GroupPaths
  InitialGroups <- FirstGroups
  Asked <- Operations
  MaxOps = 2
PROPERTIES DeletedGroupsAreLeft
CHECK_DEADLOCK FALSE
