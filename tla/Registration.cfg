SPECIFICATION MCSpec
CONSTANTS
  Peers = {p1, p2}
  Resources = {r1, r2}
  Calls = {c1, c2}
  MaxSockets = 2
  Nodes = {n1, n2}
  Updates = {u1, u2}
  MaxWrites = 3
SYMMETRY Symmetry
INVARIANTS Inv OwnershipEndsWithConnection MarksMatchResources OwnersInv ControllerIsNamed
\* Updates of the owner record end with its last write.
CHECK_DEADLOCK FALSE
