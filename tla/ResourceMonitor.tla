---------------------------- MODULE ResourceMonitor ----------------------------
(***************************************************************************)
(* Monitors of resources (src/core/resourceMonitorController.js).  The     *)
(* MonitorMap reads the stored monitors again and again and tells the      *)
(* ResourceMonitor what was added, changed or removed, which subscribes to *)
(* the points of each monitor and polls their state.                       *)
(*                                                                         *)
(* A read streams the records one by one; each is handled by itself.  Each *)
(* start() begins a refresh loop, and only the timer that was set last can *)
(* be cleared, so that several loops may run.                              *)
(***************************************************************************)
EXTENDS Naturals, FiniteSetsExt

CONSTANTS Ids,            \* monitors
          Loops,          \* refresh loops, one for each start(): bounds the starts
          MaxVersion,     \* bound: changes of the stored monitors
          MaxFailures     \* bound: reads that fail, and records that make next() throw

ASSUME ResourceMonitorAssumption == MaxVersion \in Nat /\ MaxFailures \in Nat

VARIABLES stored,         \* the records: version and what is there
          stopped,        \* of the ResourceMonitor and of its MonitorMap alike
          monitors,       \* MonitorMap.monitors: the version of each, 0 if not there
          active,         \* monitorMetadata: the version that is subscribed to
          partial,        \* those of them that are not all subscribed to, nor polled
          polls,          \* the PollingStateMonitors: of which version, doing what
          loop,           \* the refresh loops
          failures,       \* how many reads failed or records were such
          timer,          \* the loop refreshMonitorMap belongs to
          kept            \* history: monitors that the MonitorMap had at the last start()
                          \* and was not told to change since

monitorVars == <<stored, stopped, monitors, active, partial, polls, loop, failures, timer, kept>>

Versions == 0..MaxVersion
\* A record of kind "throws" is valid, but one of its selections cannot be parsed.
Kinds == {"none", "valid", "invalid", "throws"}
Records == [version : Versions, kind : Kinds]
NoLoop == [at |-> "none"]
Asleep == [at |-> "timer"]

MonitorTypeOK ==
  /\ stored \in [Ids -> Records]
  /\ stopped \in BOOLEAN
  /\ monitors \in [Ids -> Versions] /\ active \in [Ids -> Versions] /\ partial \subseteq Ids
  /\ polls \subseteq [id : Ids, version : Versions, at : {"timer", "sampling", "stopped"}]
  /\ loop \in [Loops -> {NoLoop, Asleep, [at |-> "done"]} \cup
                 [at : {"reading"}, left : SUBSET (Ids \X Records), seen : SUBSET Ids]]
  /\ failures \in 0..MaxFailures
  /\ timer \subseteq Loops /\ Cardinality(timer) <= 1
  /\ kept \subseteq Ids

MonitorInit ==
  /\ stored \in [Ids -> {[version |-> 0, kind |-> "none"]}]
  /\ stopped = TRUE
  /\ monitors = [i \in Ids |-> 0] /\ active = [i \in Ids |-> 0] /\ partial = {}
  /\ polls = {}
  /\ loop = [l \in Loops |-> NoLoop]
  /\ failures = 0 /\ timer = {} /\ kept = {}

\* How often the stored monitors changed; a version stands for a context.
changes == Max({stored[i].version : i \in Ids})

\* Somebody adds, changes or deletes a monitor.
StoredChanges(i, kind) ==
  /\ changes < MaxVersion
  /\ stored' = [stored EXCEPT ![i] = [version |-> changes + 1, kind |-> kind]]
  /\ IF kind = "throws" THEN failures < MaxFailures /\ failures' = failures + 1 ELSE UNCHANGED failures
  /\ UNCHANGED <<stopped, monitors, active, partial, polls, loop, timer, kept>>

-----------------------------------------------------------------------------
(* The subscriptions and polls of a monitor *)

\* Mutant: the poll of the former version goes on.
StopPollsLess(i) == polls

\* stop() of a poll clears its timer; one that is sampling finds `stopped` when
\* it is through.
StopPolls(i) ==
  {p \in polls : p.id # i \/ p.at = "stopped"}
    \cup {[p EXCEPT !.at = "stopped"] : p \in {q \in polls : q.id = i /\ q.at = "sampling"}}

\* _updateMonitor: what the monitor had is undone first.  subscribe() may throw on
\* the way, and then the poll is not started.
Activate(i, r) ==
  /\ active' = [active EXCEPT ![i] = r.version]
  /\ IF r.kind = "throws"
       THEN partial' = partial \cup {i} /\ polls' = StopPolls(i)
       ELSE /\ partial' = partial \ {i}
            /\ polls' = StopPolls(i) \cup {[id |-> i, version |-> r.version, at |-> "timer"]}

_removeMonitor(S) ==
  /\ active' = [i \in Ids |-> IF i \in S THEN 0 ELSE active[i]] /\ partial' = partial \ S
  /\ polls' = {p \in polls : p.id \notin S} \cup UNION {{p \in StopPolls(i) : p.id = i} : i \in S}

\* The timer of a poll fires: it asks for the state of its points.
PollFires(p) ==
  /\ p \in polls /\ p.at = "timer"
  /\ polls' = (polls \ {p}) \cup {[p EXCEPT !.at = "sampling"]}
  /\ UNCHANGED <<stored, stopped, monitors, active, partial, loop, failures, timer, kept>>

\* The states are there: unless it was stopped meanwhile, the poll sets its
\* timer again and reports the samples.
PollSamples(p) ==
  /\ p \in polls /\ p.at \in {"sampling", "stopped"}
  /\ polls' = (polls \ {p}) \cup (IF p.at = "sampling" THEN {[p EXCEPT !.at = "timer"]} ELSE {})
  /\ UNCHANGED <<stored, stopped, monitors, active, partial, loop, failures, timer, kept>>

-----------------------------------------------------------------------------
(* start, stop and the refresh loop *)

Present == {i \in Ids : stored[i].kind # "none"}
Reading == [at |-> "reading", left |-> {<<i, stored[i]>> : i \in Present}, seen |-> {}]

start(l) ==
  /\ loop[l] = NoLoop
  /\ stopped' = FALSE
  /\ loop' = [loop EXCEPT ![l] = Reading]
  /\ kept' = kept \cup {i \in Ids : monitors[i] # 0 /\ active[i] = 0}
  /\ UNCHANGED <<stored, monitors, active, partial, polls, failures, timer>>

\* The MonitorMap keeps its monitors, and only the last timer is cleared.
stop ==
  /\ ~stopped
  /\ stopped' = TRUE
  /\ loop' = [l \in Loops |-> IF l \in timer /\ loop[l] = Asleep THEN [at |-> "done"] ELSE loop[l]]
  /\ _removeMonitor(Ids)
  /\ UNCHANGED <<stored, monitors, failures, timer, kept>>

Schedule(l) ==
  /\ loop' = [loop EXCEPT ![l] = IF stopped THEN [at |-> "done"] ELSE Asleep]
  /\ timer' = IF stopped THEN timer ELSE {l}

\* The listener of the map sets the monitor up.  If that throws it is in the map
\* all the same; the exception leaves the callback of DeviceDB's client (external),
\* which goes on, or takes the read for failed.
SetUp(l, i, r, goesOn) ==
  /\ monitors' = [monitors EXCEPT ![i] = r.version]
  /\ Activate(i, r)
  /\ kept' = kept \ {i}
  /\ \/ loop' = [loop EXCEPT ![l] = goesOn] /\ UNCHANGED timer
     \/ r.kind = "throws" /\ Schedule(l)

\* Mutant: a monitor that is there already is not looked at again.
NextOnlyAdds(l, i, r) ==
  /\ loop[l].at = "reading" /\ <<i, r>> \in loop[l].left
  /\ LET rest == [loop[l] EXCEPT !.left = @ \ {<<i, r>>}]
         seen == [rest EXCEPT !.seen = @ \cup {i}]
     IN  IF ~stopped /\ monitors[i] = 0 /\ r.kind \in {"valid", "throws"}
           THEN SetUp(l, i, r, seen)
           ELSE /\ loop' = [loop EXCEPT ![l] = IF stopped THEN rest ELSE seen]
                /\ UNCHANGED <<monitors, active, partial, polls, kept, timer>>
  /\ UNCHANGED <<stored, stopped, failures>>

\* `next`: one record.  A version the map has is not looked at, one that does not
\* parse or validate is as if it were not there.
NextRecord(l, i, r) ==
  /\ loop[l].at = "reading" /\ <<i, r>> \in loop[l].left
  /\ LET rest == [loop[l] EXCEPT !.left = @ \ {<<i, r>>}]
         seen == [rest EXCEPT !.seen = @ \cup {i}]
         same == monitors[i] = r.version
     IN  IF stopped \/ same \/ r.kind = "invalid"
           THEN /\ loop' = [loop EXCEPT ![l] = IF ~stopped /\ same THEN seen ELSE rest]
                /\ UNCHANGED <<monitors, active, partial, polls, kept, timer>>
           ELSE SetUp(l, i, r, seen)
  /\ UNCHANGED <<stored, stopped, failures>>

\* All records were read: monitors that were not among them are removed, also
\* from the map of a stopped monitor.
Purge(l) ==
  LET gone == {i \in Ids : monitors[i] # 0} \ loop[l].seen
  IN  /\ loop[l].at = "reading" /\ loop[l].left = {}
      /\ monitors' = [i \in Ids |-> IF i \in gone THEN 0 ELSE monitors[i]]
      /\ IF stopped THEN UNCHANGED <<active, partial, polls>> ELSE _removeMonitor(gone)
      /\ kept' = kept \ gone
      /\ Schedule(l)
      /\ UNCHANGED <<stored, stopped, failures>>

\* The read fails halfway; the next one is scheduled all the same.
ReadFails(l) ==
  /\ loop[l].at = "reading" /\ failures < MaxFailures
  /\ failures' = failures + 1
  /\ Schedule(l)
  /\ UNCHANGED <<stored, stopped, monitors, active, partial, polls, kept>>

Refresh(l) ==
  /\ loop[l] = Asleep
  /\ loop' = [loop EXCEPT ![l] = Reading]
  /\ UNCHANGED <<stored, stopped, monitors, active, partial, polls, failures, timer, kept>>

MonitorNext ==
  \/ \E i \in Ids, kind \in Kinds : StoredChanges(i, kind)
  \/ \E p \in polls : PollFires(p) \/ PollSamples(p)
  \/ stop
  \/ \E l \in Loops :
       \/ start(l) \/ Purge(l) \/ ReadFails(l) \/ Refresh(l)
       \/ \E i \in Ids, r \in Records : NextRecord(l, i, r)

\* Timers fire and reads go on.
ReadsOn(l) == Purge(l) \/ \E i \in Ids, r \in Records : NextRecord(l, i, r)

MonitorFairness == \A l \in Loops : WF_monitorVars(Refresh(l)) /\ WF_monitorVars(ReadsOn(l))

MonitorSpec == MonitorInit /\ [][MonitorNext]_monitorVars /\ MonitorFairness

-----------------------------------------------------------------------------
(* Properties *)

\* The version of a monitor that is to be polled.
Polled(i) == IF i \in partial THEN 0 ELSE active[i]

\* Subscriptions and polls never outlive their monitor: each version that is
\* active has exactly one poll running, unless setting it up threw, nothing else
\* runs, nothing is active once stopped, and what is active is what the map has,
\* through changes, restarts and loops that overlap.
ActiveIsMapped ==
  /\ MonitorTypeOK
  /\ stopped => \A i \in Ids : active[i] = 0
  /\ \A i \in Ids :
       /\ active[i] # 0 => active[i] = monitors[i]
       /\ ~stopped /\ i \notin kept => active[i] = monitors[i]
       /\ LET running == {q \in polls : q.id = i /\ q.at # "stopped"}
          IN  {p.version : p \in running} = {Polled(i)} \ {0} /\ \A p, q \in running : p = q

\* Exactly the valid monitors are active, but for those of an earlier run.
Converged ==
  \A i \in Ids : i \notin kept =>
    active[i] = IF stored[i].kind \in {"valid", "throws"} THEN stored[i].version ELSE 0

\* Once reads fail no more, the stored monitors stay as they are and the
\* monitor is not stopped any more, exactly the valid ones become active and
\* stay so, except those that an earlier run left in the map.
MonitorsConverge == <>[](~stopped) => <>[]Converged
=============================================================================
