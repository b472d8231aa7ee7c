------------------------------- MODULE MCLocks -------------------------------
(* The lock classes and their use by the reachability map in one run: the    *)
(* initial state chooses what is exercised, and the rest stays as it is.     *)
EXTENDS AsyncMutex, AsyncLockMap, AsyncRWLock, ReachabilityMap

VARIABLE class

allVars == <<class, vars, mapVars, rwVars, reachVars>>

MCInit ==
  /\ class \in {"AsyncMutex", "AsyncLockMap", "AsyncRWLock", "ReachabilityMap"}
  /\ Init /\ MapInit /\ RWInit /\ ReachInit
  /\ class # "AsyncLockMap" => key = [c \in Chains |-> CHOOSE k \in Keys : TRUE]
  /\ class # "ReachabilityMap" => \A r \in Resources : ~db[r]

MutexStep   == class = "AsyncMutex" /\ Next /\ UNCHANGED <<class, mapVars, rwVars, reachVars>>
LockMapStep == class = "AsyncLockMap" /\ MapNext /\ UNCHANGED <<class, vars, rwVars, reachVars>>
RWStep      == class = "AsyncRWLock" /\ RWNext /\ UNCHANGED <<class, vars, mapVars, reachVars>>
ReachStep   == class = "ReachabilityMap" /\ ReachNext /\ UNCHANGED <<class, vars, mapVars, rwVars>>

MCSpec == /\ MCInit /\ [][MutexStep \/ LockMapStep \/ RWStep \/ ReachStep]_allVars
          /\ \A c \in Callers \cup Chains :
               WF_allVars((MutexStep /\ Release(c)) \/ (LockMapStep /\ MapRelease(c)))

AcquireAt(c) == IF class = "AsyncLockMap" THEN chain[c] ELSE pc[c]

\* Every acquire() of a mutex or of a key is granted in the end, although
\* AsyncLockMap.release() deletes mutexes that are held.
EveryAcquireIsGranted ==
  \A c \in Callers \cup Chains : AcquireAt(c) = "waiting" ~> AcquireAt(c) = "holding"
=============================================================================
