----------------------------- MODULE AsyncMutex -----------------------------
(***************************************************************************)
(* One AsyncMutex of src/core/asyncLockMap.js shared by chains of          *)
(* promises, the use its class comment shows: acquire, work across any     *)
(* number of turns of the event loop, release on success and on failure.   *)
(***************************************************************************)
EXTENDS AsyncLock

CONSTANT Callers      \* the chains of promises that share the mutex

VARIABLES mutex,      \* the AsyncMutex object
          pc          \* what each caller's last acquire() came to

vars == <<mutex, pc>>

TypeOK == /\ mutex \in [acquired : BOOLEAN, queue : Seq(Callers)]
          /\ pc \in [Callers -> {"idle", "waiting", "holding"}]

Init == /\ mutex = NewMutex
        /\ pc = [c \in Callers |-> "idle"]

Acquire(c) ==
  LET res == MutexAcquire(mutex, c)
  IN  /\ pc[c] = "idle"
      /\ mutex' = res.lock
      /\ pc' = [pc EXCEPT ![c] = IF c \in res.granted THEN "holding" ELSE "waiting"]

Release(c) ==
  LET res == MutexRelease(mutex)
  IN  /\ pc[c] = "holding"
      /\ mutex' = res.lock
      /\ pc' = [d \in Callers |-> IF d \in res.granted THEN "holding"
                                  ELSE IF d = c THEN "idle" ELSE pc[d]]

Next == \E c \in Callers : Acquire(c) \/ Release(c)

Spec == Init /\ [][Next]_vars

\* The class comment's pattern releases on success and on failure.
Fairness == \A c \in Callers : WF_vars(Release(c))

LiveSpec == Spec /\ Fairness

-----------------------------------------------------------------------------
(* Properties *)

Holders == {c \in Callers : pc[c] = "holding"}
Queued  == {mutex.queue[i] : i \in DOMAIN mutex.queue}

\* Two callers are never in the critical section together (the class comment:
\* the mutex keeps two executions of a promise chain from being intermixed).
MutualExclusion == \A c, d \in Holders : c = d

\* The queue is exactly the callers whose promise is pending, each once, so
\* no release can resolve a caller twice or leave one behind.
QueueIsWaiters == /\ Queued = {c \in Callers : pc[c] = "waiting"}
                  /\ \A i, j \in DOMAIN mutex.queue :
                        mutex.queue[i] = mutex.queue[j] => i = j

\* `acquired` tells whether somebody is in the critical section, and nobody
\* queues for a free mutex.
AcquiredIffHeld == /\ mutex.acquired <=> Holders # {}
                   /\ ~mutex.acquired => mutex.queue = <<>>

\* The inductive invariant behind mutual exclusion and the refinement.
Inv == TypeOK /\ MutualExclusion /\ QueueIsWaiters /\ AcquiredIffHeld

\* Refinement of FifoLock: the holder, then the queue.
Line == IF mutex.acquired
          THEN <<CHOOSE c \in Callers : pc[c] = "holding">> \o mutex.queue
          ELSE <<>>

Fifo == INSTANCE FifoLock WITH line <- Line

\* Callers enter the critical section in the order they called acquire().
FifoOrder == Fifo!Spec

\* Every acquire() is resolved in the end: "as soon as all other callers of
\* acquire() have invoked release()".
EveryAcquireResolves == \A c \in Callers : pc[c] = "waiting" ~> pc[c] = "holding"
=============================================================================
