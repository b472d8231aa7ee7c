--------------------------- MODULE ReachabilityMap ---------------------------
(***************************************************************************)
(* ReachabilityMap (src/core/ddbReachabilityMap.js): the database records  *)
(* that tell which of this node's resources are reachable.  Every mark     *)
(* takes the resync lock for reading and then its resource's key of an     *)
(* AsyncLockMap, and writes both indexes in one batch.  A batch that fails *)
(* is remembered, and a timer rewrites all that is remembered under the    *)
(* write side of the resync lock.                                          *)
(*                                                                         *)
(* The locks are the ones of AsyncLock, with their flaws.  DeviceJSCore    *)
(* does not wait for a mark, so several may be in progress at once.        *)
(***************************************************************************)
EXTENDS AsyncLock, Integers, FiniteSets, Functions

CONSTANTS Resources,
          MaxCalls,    \* marks in a behaviour: a promise is never reused
          MaxActive,   \* marks in progress at once
          MaxTicks     \* resyncs in a behaviour

ASSUME ReachabilityAssumption ==
  Resources # {} /\ MaxCalls \in Nat /\ MaxTicks \in Nat

VARIABLES db,        \* the records: is the resource stored as reachable
          started,   \* clear() has resolved, and the server answers requests
          resyncLock, lockMap,
          calls,     \* the markAsReachable and markAsUnreachable calls
          pending,   \* pendingReachabilityUpdateMap
          resync,    \* the resync, and the updates its batch holds
          interval,  \* resyncInterval: "unset", "on", or "cleared" for good
          ticks,     \* resyncs so far
          last,      \* the last mark that was asked for
          overlapped \* history: two marks were in progress at once

reachVars == <<db, started, resyncLock, lockMap, calls, pending, resync, interval, ticks, last, overlapped>>

Marks == 1..MaxCalls
Resyncer == 0    \* the caller of wlock()
Updates == UNION {[S -> BOOLEAN] : S \in SUBSET Resources}
None == [r \in {} |-> FALSE]
NewCall == [at |-> "new", resource |-> CHOOSE r \in Resources : TRUE, mark |-> FALSE]
DoneCall == [NewCall EXCEPT !.at = "done"]
Off == [at |-> "off", batch |-> None]

Active == {c \in Marks : calls[c].at \notin {"new", "done"}}
Sent(r) == {c \in Marks : calls[c].at = "sent" /\ calls[c].resource = r}

ReachTypeOK ==
  /\ db \in [Resources -> BOOLEAN]
  /\ started \in BOOLEAN
  /\ resyncLock \in [readerQueue : Seq(Marks), writerQueue : Seq({Resyncer}),
                     readers : Nat, writers : {0, 1}]
  /\ DOMAIN lockMap \subseteq Resources
  /\ lockMap \in [DOMAIN lockMap -> [acquired : BOOLEAN, queue : Seq(Marks)]]
  /\ calls \in [Marks -> [at : {"new", "rwait", "ready", "kwait", "sent", "done"},
                          resource : Resources, mark : BOOLEAN]]
  /\ pending \in Updates
  /\ resync \in [at : {"off", "waiting", "writing"}, batch : Updates]
  /\ interval \in {"unset", "on", "cleared"}
  /\ ticks \in 0..MaxTicks
  /\ last \in [Resources -> BOOLEAN]
  /\ overlapped \in BOOLEAN

\* A previous process may have left any records behind.
ReachInit ==
  /\ db \in [Resources -> BOOLEAN]
  /\ started = FALSE
  /\ resyncLock = NewRWLock
  /\ lockMap = EmptyLockMap
  /\ calls = [c \in Marks |-> NewCall]
  /\ pending = None
  /\ resync = Off
  /\ interval = "unset"
  /\ ticks = 0
  /\ last = [r \in Resources |-> FALSE]
  /\ overlapped = FALSE

Overlay(f, g) == [r \in DOMAIN f |-> IF r \in DOMAIN g THEN g[r] ELSE f[r]]

\* The resync lock resolves promises: readers go on to their key, the resync
\* builds its batch from what is pending then.
TakeResyncLock(res, cs, rs, pend) ==
  /\ resyncLock' = res.lock
  /\ calls' = [c \in Marks |-> IF c \in res.granted /\ cs[c].at = "rwait"
                                 THEN [cs[c] EXCEPT !.at = "ready"] ELSE cs[c]]
  /\ resync' = IF Resyncer \in res.granted
                 THEN [at |-> "writing", batch |-> pend] ELSE rs

-----------------------------------------------------------------------------
(* clear(), awaited by start() *)

\* It is tried again until the batch of deletes succeeds.
clear ==
  /\ ~started
  /\ started' = TRUE
  /\ db' = [r \in Resources |-> FALSE]
  /\ UNCHANGED <<resyncLock, lockMap, calls, pending, resync, interval, ticks, last, overlapped>>

-----------------------------------------------------------------------------
(* markAsReachable(r) and markAsUnreachable(r) *)

Mark(c, r, mark) ==
  /\ started
  /\ \A d \in Marks : calls[d].at = "new" <=> d >= c
  /\ Cardinality(Active) < MaxActive
  /\ last' = [last EXCEPT ![r] = mark]
  /\ overlapped' = (overlapped \/ Active # {})
  /\ TakeResyncLock(RLock(resyncLock, c),
                    [calls EXCEPT ![c] = [at |-> "rwait", resource |-> r, mark |-> mark]], resync, pending)
  /\ UNCHANGED <<db, started, lockMap, pending, interval, ticks>>

\* Promises run their continuations in the order in which they were resolved,
\* and the lock resolves its readers in the order of their calls.
AcquireKey(c) ==
  LET res == LockMapAcquire(lockMap, calls[c].resource, c)
  IN  /\ calls[c].at = "ready"
      /\ \A d \in Marks : calls[d].at = "ready" => c <= d
      /\ lockMap' = res.lock
      /\ calls' = [calls EXCEPT ![c].at = IF c \in res.granted THEN "sent" ELSE "kwait"]
      /\ UNCHANGED <<db, started, resyncLock, pending, resync, interval, ticks, last, overlapped>>

\* asyncLockMap.release and resyncLock.runlock, in both outcomes of a batch.
UnlockBoth(c, pend) ==
  LET res == LockMapRelease(lockMap, calls[c].resource)
  IN  /\ lockMap' = res.lock
      /\ TakeResyncLock(RUnlock(resyncLock),
                        [d \in Marks |-> IF d = c THEN DoneCall
                                         ELSE IF d \in res.granted THEN [calls[d] EXCEPT !.at = "sent"]
                                         ELSE calls[d]], resync, pend)

MarkSucceeds(c) ==
  LET r    == calls[c].resource
      pend == Restrict(pending, DOMAIN pending \ {r})
  IN  /\ calls[c].at = "sent"
      /\ db' = [db EXCEPT ![r] = calls[c].mark]
      /\ pending' = pend
      /\ UnlockBoth(c, pend)
      /\ UNCHANGED <<started, interval, ticks, last, overlapped>>

\* Mutant: a failed mark is remembered only when nothing is for its resource.
MarkFailsKeepsFirst(c, applied) ==
  LET r    == calls[c].resource
      pend == IF r \in DOMAIN pending THEN pending
              ELSE [x \in DOMAIN pending \cup {r} |-> IF x = r THEN calls[c].mark ELSE pending[x]]
  IN  /\ calls[c].at = "sent"
      /\ db' = IF applied THEN [db EXCEPT ![r] = calls[c].mark] ELSE db
      /\ pending' = pend
      /\ interval' = IF interval = "unset" THEN "on" ELSE interval
      /\ UnlockBoth(c, pend)
      /\ UNCHANGED <<started, ticks, last, overlapped>>

\* Mutant: the error branch leaves the resource's key locked.
MarkFailsLocked(c, applied) ==
  LET r    == calls[c].resource
      pend == [x \in DOMAIN pending \cup {r} |-> IF x = r THEN calls[c].mark ELSE pending[x]]
  IN  /\ calls[c].at = "sent"
      /\ db' = IF applied THEN [db EXCEPT ![r] = calls[c].mark] ELSE db
      /\ pending' = pend
      /\ interval' = IF interval = "unset" THEN "on" ELSE interval
      /\ TakeResyncLock(RUnlock(resyncLock), [calls EXCEPT ![c] = DoneCall], resync, pend)
      /\ UNCHANGED <<started, lockMap, ticks, last, overlapped>>

\* The batch is lost, or its acknowledgement is.  _resyncOnConnect starts the
\* timer unless resyncInterval was ever set: a cleared timer is not restarted.
MarkFails(c, applied) ==
  LET r    == calls[c].resource
      pend == [x \in DOMAIN pending \cup {r} |-> IF x = r THEN calls[c].mark ELSE pending[x]]
  IN  /\ calls[c].at = "sent"
      /\ db' = IF applied THEN [db EXCEPT ![r] = calls[c].mark] ELSE db
      /\ pending' = pend
      /\ interval' = IF interval = "unset" THEN "on" ELSE interval
      /\ UnlockBoth(c, pend)
      /\ UNCHANGED <<started, ticks, last, overlapped>>

-----------------------------------------------------------------------------
(* _resyncOnConnect: the timer's callback and what follows it *)

\* Mutant: resyncs do not wait for one another.
ResyncUnguarded ==
  /\ interval = "on"
  /\ ticks < MaxTicks
  /\ ticks' = ticks + 1
  /\ TakeResyncLock(WLock(resyncLock, Resyncer), calls, [Off EXCEPT !.at = "waiting"], pending)
  /\ UNCHANGED <<db, started, lockMap, pending, interval, last, overlapped>>

Resync ==
  /\ interval = "on"
  /\ resync.at = "off"              \* resyncLockPending
  /\ ticks < MaxTicks
  /\ ticks' = ticks + 1
  /\ TakeResyncLock(WLock(resyncLock, Resyncer), calls, [Off EXCEPT !.at = "waiting"], pending)
  /\ UNCHANGED <<db, started, lockMap, pending, interval, last, overlapped>>

\* What is pending stays pending.
ResyncSucceeds ==
  /\ resync.at = "writing"
  /\ db' = Overlay(db, resync.batch)
  /\ interval' = "cleared"
  /\ TakeResyncLock(WUnlock(resyncLock), calls, Off, pending)
  /\ UNCHANGED <<started, lockMap, pending, ticks, last, overlapped>>

\* Mutant: the error branch unlocks the read side.
ResyncFailsRUnlocks(applied) ==
  /\ resync.at = "writing"
  /\ db' = IF applied THEN Overlay(db, resync.batch) ELSE db
  /\ TakeResyncLock(RUnlock(resyncLock), calls, Off, pending)
  /\ UNCHANGED <<started, lockMap, pending, interval, ticks, last, overlapped>>

ResyncFails(applied) ==
  /\ resync.at = "writing"
  /\ db' = IF applied THEN Overlay(db, resync.batch) ELSE db
  /\ TakeResyncLock(WUnlock(resyncLock), calls, Off, pending)
  /\ UNCHANGED <<started, lockMap, pending, interval, ticks, last, overlapped>>

ReachNext ==
  \/ clear
  \/ Resync
  \/ ResyncSucceeds
  \/ \E applied \in BOOLEAN : ResyncFails(applied)
  \/ \E c \in Marks :
       \/ \E r \in Resources, mark \in BOOLEAN : Mark(c, r, mark)
       \/ AcquireKey(c)
       \/ MarkSucceeds(c)
       \/ \E applied \in BOOLEAN : MarkFails(c, applied)

ReachSpec == ReachInit /\ [][ReachNext]_reachVars

-----------------------------------------------------------------------------
(* Properties *)

Quiet == started /\ Active = {} /\ resync.at = "off"

\* With marks that do not overlap, once nothing is in progress the records
\* hold every resource's last mark or the mark is remembered: neither a failed
\* batch, a lost acknowledgement, a resync nor what an earlier process left
\* brings an older mark back.
QuietIsSynced ==
  Quiet /\ ~overlapped =>
    \A r \in Resources : db[r] = last[r] \/ (r \in DOMAIN pending /\ pending[r] = last[r])

\* Also with overlapping marks, a key of the lock map is there only for a mark
\* that holds it or will: no outcome of a batch leaves a resource locked.
KeysBelongToMarks ==
  \A r \in DOMAIN lockMap : Sent(r) # {}

\* Resyncs never pile up on the lock: at most one waits for it or holds it.
OneResync ==
  Len(resyncLock.writerQueue) + resyncLock.writers <= 1

\* No outcome of a batch leaves a resource locked, and resyncs never pile up.
ReachabilityLocksAreFreed == ReachTypeOK /\ KeysBelongToMarks /\ OneResync
=============================================================================
