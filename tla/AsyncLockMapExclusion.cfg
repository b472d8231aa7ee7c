SPECIFICATION MapSpec
CONSTANTS
  Chains = {c1, c2, c3}
  Keys = {k1}
INVARIANT KeyExclusion
