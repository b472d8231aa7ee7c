----------------------------- MODULE AsyncLock -----------------------------
(***************************************************************************)
(* The lock classes of src/core/asyncLockMap.js as values.                 *)
(*                                                                         *)
(* A lock is a record with the fields of the JavaScript object; a queue    *)
(* holds the callers whose promise is pending.  A method is an operator    *)
(* that returns the lock it leaves behind and the set of callers whose     *)
(* promise it resolves:                                                    *)
(*                                                                         *)
(*     [lock |-> ..., granted |-> ...]                                     *)
(*                                                                         *)
(* Every method body runs to completion without yielding to the event      *)
(* loop, so one operator application is one atomic step.                   *)
(***************************************************************************)
EXTENDS Naturals, Sequences

Result(lock, granted) == [lock |-> lock, granted |-> granted]

\* queue.shift() on a possibly empty queue: what is left of it, and the set
\* of the callers taken off it (none or one).
Shifted(queue) == IF queue = <<>> THEN <<>> ELSE Tail(queue)
ShiftedOff(queue) == IF queue = <<>> THEN {} ELSE {Head(queue)}

-----------------------------------------------------------------------------
(* class AsyncMutex *)

NewMutex == [acquired |-> FALSE, queue |-> <<>>]

MutexAcquire(m, c) ==
  IF m.acquired
    THEN Result([m EXCEPT !.queue = Append(@, c)], {})
    ELSE Result([m EXCEPT !.acquired = TRUE], {c})

\* Mutants of release(): the lock is marked free even when it is handed on;
\* the next caller is read without being taken off the queue; the last
\* caller to arrive is served first.
MutexReleaseFrees(m) ==
  Result([acquired |-> FALSE, queue |-> Shifted(m.queue)], ShiftedOff(m.queue))
MutexReleasePeeks(m) ==
  Result([m EXCEPT !.acquired = m.queue # <<>> /\ @], ShiftedOff(m.queue))
MutexReleasePops(m) ==
  IF m.queue = <<>>
    THEN Result([m EXCEPT !.acquired = FALSE], {})
    ELSE Result([m EXCEPT !.queue = SubSeq(@, 1, Len(@) - 1)],
                {m.queue[Len(m.queue)]})

\* The lock stays acquired when it is handed to the next caller.
MutexRelease(m) ==
  Result([acquired |-> m.queue # <<>> /\ m.acquired,
          queue |-> Shifted(m.queue)], ShiftedOff(m.queue))

-----------------------------------------------------------------------------
(* class AsyncLockMap: a function from the keys that have a mutex *)

EmptyLockMap == [k \in {} |-> NewMutex]

LockMapAcquire(map, key, c) ==
  LET mutex == IF key \in DOMAIN map THEN map[key] ELSE NewMutex
      res   == MutexAcquire(mutex, c)
  IN  Result([k \in DOMAIN map \cup {key} |->
                IF k = key THEN res.lock ELSE map[k]], res.granted)

\* Mutants of release(): the mutex is deleted whoever queues on it; it is
\* never deleted; it is deleted without being released.
LockMapReleaseForgets(map, key) ==
  Result([k \in DOMAIN map \ {key} |-> map[k]], {})
LockMapReleaseDeletes(map, key) ==
  IF key \notin DOMAIN map
    THEN Result(map, {})
    ELSE Result([k \in DOMAIN map \ {key} |-> map[k]],
                MutexRelease(map[key]).granted)
LockMapReleaseKeeps(map, key) ==
  IF key \notin DOMAIN map
    THEN Result(map, {})
    ELSE LET res == MutexRelease(map[key])
         IN  Result([map EXCEPT ![key] = res.lock], res.granted)

\* The mutex is thrown away as soon as nobody queues for it, also when the
\* last waiter has just been granted it.
LockMapRelease(map, key) ==
  IF key \notin DOMAIN map
    THEN Result(map, {})
    ELSE LET res == MutexRelease(map[key])
         IN  Result(IF res.lock.queue = <<>>
                      THEN [k \in DOMAIN map \ {key} |-> map[k]]
                      ELSE [map EXCEPT ![key] = res.lock], res.granted)

-----------------------------------------------------------------------------
(* class AsyncRWLock *)

NewRWLock == [readerQueue |-> <<>>, writerQueue |-> <<>>,
              readers |-> 0, writers |-> 0]

\* Mutant of rlock(): readers overtake queued writers.
RLockOvertakes(rw, c) ==
  IF rw.writers # 0
    THEN Result([rw EXCEPT !.readerQueue = Append(@, c)], {})
    ELSE Result([rw EXCEPT !.readers = @ + 1], {c})

RLock(rw, c) ==
  IF rw.writers # 0 \/ rw.writerQueue # <<>>
    THEN Result([rw EXCEPT !.readerQueue = Append(@, c)], {})
    ELSE Result([rw EXCEPT !.readers = @ + 1], {c})

\* Mutants of runlock(): the next writer is read but left in the queue; it is
\* admitted whether or not another writer is inside.
RUnlockPeeks(rw) ==
  LET admit == rw.writers = 0 /\ rw.writerQueue # <<>>
  IN  Result([rw EXCEPT !.readers = @ - 1, !.writers = IF admit THEN 1 ELSE @],
             IF admit THEN {Head(rw.writerQueue)} ELSE {})
RUnlockAdmits(rw) ==
  Result([rw EXCEPT !.writerQueue = Shifted(@), !.readers = @ - 1,
                    !.writers = IF rw.writerQueue # <<>> THEN 1 ELSE @],
         ShiftedOff(rw.writerQueue))

\* One writer is shifted off the queue whatever happens next: it is granted
\* only when no writer is active, and forgotten otherwise.
RUnlock(rw) ==
  LET admit == rw.writers = 0 /\ rw.writerQueue # <<>>
  IN  Result([rw EXCEPT !.writerQueue = Shifted(@), !.readers = @ - 1,
                        !.writers = IF admit THEN 1 ELSE @],
             IF admit THEN {Head(rw.writerQueue)} ELSE {})

\* Mutant of wlock(): only other writers are waited for.
WLockIgnoresReaders(rw, c) ==
  IF rw.writers # 0
    THEN Result([rw EXCEPT !.writerQueue = Append(@, c)], {})
    ELSE Result([rw EXCEPT !.writers = 1], {c})

WLock(rw, c) ==
  IF rw.readers # 0 \/ rw.writers # 0
    THEN Result([rw EXCEPT !.writerQueue = Append(@, c)], {})
    ELSE Result([rw EXCEPT !.writers = 1], {c})

\* Mutant of wunlock(): the admitted readers are not counted.
WUnlockUncounted(rw) ==
  IF rw.writerQueue # <<>>
    THEN Result([rw EXCEPT !.writerQueue = Tail(@)], {Head(rw.writerQueue)})
    ELSE Result([rw EXCEPT !.writers = 0],
                {rw.readerQueue[i] : i \in DOMAIN rw.readerQueue})

\* The queued readers are all counted and resolved, and stay in the queue:
\* the next wunlock that finds no writer counts and resolves them again.
WUnlock(rw) ==
  IF rw.writerQueue # <<>>
    THEN Result([rw EXCEPT !.writerQueue = Tail(@)], {Head(rw.writerQueue)})
    ELSE Result([rw EXCEPT !.writers = 0, !.readers = @ + Len(rw.readerQueue)],
                {rw.readerQueue[i] : i \in DOMAIN rw.readerQueue})
=============================================================================
