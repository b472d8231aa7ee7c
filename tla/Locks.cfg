SPECIFICATION MCSpec
CONSTANTS
  Callers = {c1, c2, c3, c4}
  Chains = {c1, c2, c3, c4}
  Keys = {k1, k2}
  Calls = {d1, d2, d3, d4, d5}
  Resources = {r1, r2}
  MaxCalls = 4
  MaxActive = 3
  MaxTicks = 2
INVARIANTS Inv KeysArePassedOn RWInv QuietIsSynced ReachabilityLocksAreFreed
PROPERTIES FifoOrder EveryAcquireIsGranted ReadersAdmittedAlone
\* Calls and marks are one-shot: the run ends when they are done, or when a
\* queued call is never resolved.
CHECK_DEADLOCK FALSE
