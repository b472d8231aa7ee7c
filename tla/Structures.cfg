SPECIFICATION MCSpec
CONSTANTS
  Vertices = {a, b, c, d}
  Self = a
  Routers = {n1, n2, n3}
  MaxChanges = 2
  MaxSyncs = 1
  r1 = r1
  r2 = r2
  g = g
  gx = gx
  Resources = {r1, r2}
  Groups = {g, gx}
  Path <- GroupPaths
  Text <- GroupPaths
  InitialGroups <- FirstGroups
  Asked <- Operations
  MaxOps = 3
INVARIANTS RoutesAreShortest MembershipIsKept CacheIsCurrent EntriesAreReports SyncCatchesUp
\* The operations, changes and steps of the algorithms are bounded.
CHECK_DEADLOCK FALSE
