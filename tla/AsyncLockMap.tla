---------------------------- MODULE AsyncLockMap ----------------------------
(***************************************************************************)
(* One AsyncLockMap of src/core/asyncLockMap.js shared by chains of        *)
(* promises that each lock one key at a time (the way                      *)
(* ddbSubscriberRegistry.js and ddbReachabilityMap.js use it).             *)
(***************************************************************************)
EXTENDS AsyncLock

CONSTANTS Chains, Keys

VARIABLES map,        \* the map from keys to mutexes
          chain,      \* what each chain's last acquire() came to
          key         \* the key of that acquire()

mapVars == <<map, chain, key>>

MapInit == /\ map = EmptyLockMap
           /\ chain = [c \in Chains |-> "idle"]
           /\ key \in [Chains -> Keys]

MapAcquire(c, k) ==
  LET res == LockMapAcquire(map, k, c)
  IN  /\ chain[c] = "idle"
      /\ map' = res.lock
      /\ chain' = [chain EXCEPT ![c] = IF c \in res.granted THEN "holding" ELSE "waiting"]
      /\ key' = [key EXCEPT ![c] = k]

MapRelease(c) ==
  LET res == LockMapRelease(map, key[c])
  IN  /\ chain[c] = "holding"
      /\ map' = res.lock
      /\ chain' = [d \in Chains |-> IF d \in res.granted THEN "holding"
                                        ELSE IF d = c THEN "idle" ELSE chain[d]]
      /\ UNCHANGED key

MapNext == \E c \in Chains : MapRelease(c) \/ \E k \in Keys : MapAcquire(c, k)

MapSpec == MapInit /\ [][MapNext]_mapVars

\* Every use of the map releases in both branches of its last `then`.
MapFairness == \A c \in Chains : WF_mapVars(MapRelease(c))

MapLiveSpec == MapSpec /\ MapFairness

-----------------------------------------------------------------------------
(* Properties *)

Holding(k) == {c \in Chains : chain[c] = "holding" /\ key[c] = k}
Waiting(k) == {c \in Chains : chain[c] = "waiting" /\ key[c] = k}
Queue(k)   == IF k \in DOMAIN map THEN map[k].queue ELSE <<>>

MapTypeOK ==
  /\ DOMAIN map \subseteq Keys
  /\ map \in [DOMAIN map -> [acquired : BOOLEAN, queue : Seq(Chains)]]
  /\ chain \in [Chains -> {"idle", "waiting", "holding"}]
  /\ key \in [Chains -> Keys]

\* release() throws a mutex away only when nobody queues on it: whoever waits
\* for a key queues, once, on the mutex the map has for it now.
NoStrandedWaiter ==
  \A k \in Keys :
     /\ {Queue(k)[i] : i \in DOMAIN Queue(k)} = Waiting(k)
     /\ \A i, j \in DOMAIN Queue(k) : Queue(k)[i] = Queue(k)[j] => i = j

\* A mutex in the map is acquired and somebody holds its key, so there is
\* always a release() to come that moves its queue on.
MappedMutexIsHeld ==
  \A k \in DOMAIN map : map[k].acquired /\ Holding(k) # {}

\* Both together are inductive, and with them every release() moves a queue on:
\* whoever waits for a key queues on the mutex that the map has for it now, and
\* somebody holds that key.
KeysArePassedOn == MapTypeOK /\ NoStrandedWaiter /\ MappedMutexIsHeld

\* "This method returns a promise that resolves as soon as all other callers
\* of acquire() have invoked release()": nobody holds a key together with
\* another.  LockMapRelease breaks it.
KeyExclusion ==
  \A k \in Keys : \A c, d \in Holding(k) : c = d
=============================================================================
