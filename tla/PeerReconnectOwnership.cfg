SPECIFICATION Spec
CONSTANTS
  Peers = {p1}
  Resources = {r1}
  Calls = {c1}
  MaxSockets = 2
INVARIANTS OwnersConnected
