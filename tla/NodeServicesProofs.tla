--------------------------- MODULE NodeServicesProofs ---------------------------
(***************************************************************************)
(* What runs beside the server of a node, for any number of monitors,      *)
(* refresh loops, modules and commands: what is subscribed to and polled   *)
(* is what the map of monitors has, and what an install command moves into *)
(* place can run.                                                          *)
(***************************************************************************)
EXTENDS ResourceMonitor, ModuleInstall, FiniteSetTheorems, WellFoundedInduction, TLAPS

\* A finite set of numbers has a greatest one.
LEMMA GreatestExists ==
  ASSUME NEW S \in SUBSET Nat, IsFiniteSet(S), S # {}
  PROVE  \E m \in S : \A k \in S : k <= m
<1> DEFINE Upper(m) == {k \in S : m <= k}
           F == {Upper(m) : m \in S}
           R == StrictSubsetOrdering(S)
<1>1. IsWellFoundedOn(R, FiniteSubsetsOf(S))
  BY FS_StrictSubsetOrderingWellFounded
<1>2. F \in SUBSET FiniteSubsetsOf(S) /\ F # {}
  <2>1. FiniteSubsetsOf(S) = SUBSET S
    BY FS_FiniteSubsetsOfFinite
  <2>2. \A m \in S : Upper(m) \in SUBSET S
    OBVIOUS
  <2>3. PICK m \in S : TRUE
    OBVIOUS
  <2>4. Upper(m) \in F
    OBVIOUS
  <2>5. F \subseteq SUBSET S
    BY <2>2
  <2> QED BY <2>1, <2>4, <2>5
<1>3. PICK T \in F : \A U \in F : <<U, T>> \notin R
  <2> HIDE DEF F, R
  <2> QED BY <1>1, <1>2, WFMin
<1>4. PICK m \in S : T = Upper(m)
  OBVIOUS
<1>5. ASSUME NEW k \in S, ~(k <= m) PROVE FALSE
  <2>1. Upper(k) \subseteq Upper(m) /\ m \in Upper(m) /\ m \notin Upper(k)
    <3>1. S \subseteq Nat /\ k \in Nat /\ m \in Nat
      OBVIOUS
    <3>2. m < k
      BY <1>5, <3>1
    <3>3. \A n \in S : k <= n => m <= n
      <4>1. \A a, b, c \in Nat : a < b /\ b <= c => a <= c
        OBVIOUS
      <4> QED BY <3>1, <3>2, <4>1
    <3>4. m <= m /\ ~(k <= m)
      BY <1>5, <3>1
    <3> QED BY <3>3, <3>4
  <2>2. Upper(k) \in F
    OBVIOUS
  <2>3. Upper(k) \in SUBSET S /\ Upper(m) \in SUBSET S
    OBVIOUS
  <2>4. <<Upper(k), Upper(m)>> \in R
    BY <2>1, <2>3 DEF StrictSubsetOrdering
  <2> QED BY <1>3, <1>4, <2>2, <2>4
<1> QED BY <1>5

(* Monitors *)

Readings == [at : {"reading"}, left : SUBSET (Ids \X Records), seen : SUBSET Ids]

\* A record that is there was written by some change; so were those being read.
RecordsWereWritten ==
  /\ \A i \in Ids : stored[i].kind # "none" => stored[i].version # 0
  /\ \A l \in Loops : loop[l] \in Readings => \A x \in loop[l].left : x[2].version # 0

\* Of the polls, one runs for monitor i and for version v, or none if v is 0.
PollsAre(P, i, v) ==
  /\ \A p \in P : p.id = i /\ p.at # "stopped" => p.version = v /\ v # 0
  /\ v # 0 => \E p \in P : p.id = i /\ p.at # "stopped" /\ p.version = v
  /\ \A p, q \in P : p.id = i /\ q.id = i /\ p.at # "stopped" /\ q.at # "stopped" => p = q

StoppedIsQuiet == stopped => \A i \in Ids : active[i] = 0

IdMapped(i) ==
  /\ active[i] # 0 => active[i] = monitors[i]
  /\ ~stopped /\ i \notin kept => active[i] = monitors[i]
  /\ PollsAre(polls, i, Polled(i))

MonitorInv == MonitorTypeOK /\ StoppedIsQuiet /\ (\A i \in Ids : IdMapped(i)) /\ RecordsWereWritten

\* The last part of ActiveIsMapped, poll by poll.
LEMMA PolledVersions ==
  ASSUME NEW P, NEW i, NEW v, PollsAre(P, i, v)
  PROVE  LET running == {q \in P : q.id = i /\ q.at # "stopped"}
         IN  {p.version : p \in running} = {v} \ {0} /\ \A p, q \in running : p = q
BY DEF PollsAre

\* The invariant is as strong as what the run checks.
LEMMA MonitorInvImplies == MonitorInv => ActiveIsMapped
BY PolledVersions DEF MonitorInv, ActiveIsMapped, StoppedIsQuiet, IdMapped

Polls == [id : Ids, version : Versions, at : {"timer", "sampling", "stopped"}]

\* Polls of other monitors do not count.
LEMMA PolledKept ==
  ASSUME NEW P, NEW Q, NEW i, NEW v, PollsAre(P, i, v), \A p \in P \cup Q : p.id = i => (p \in P <=> p \in Q)
  PROVE  PollsAre(Q, i, v)
BY DEF PollsAre

\* Stopping the polls of a monitor stops these and no others.
LEMMA StopPollsDoes ==
  ASSUME MonitorTypeOK, NEW i \in Ids
  PROVE  /\ StopPolls(i) \subseteq Polls
         /\ \A p \in StopPolls(i) : p.id = i => p.at = "stopped"
         /\ \A p \in polls \cup StopPolls(i) : p.id # i => (p \in polls <=> p \in StopPolls(i))
<1>1. polls \subseteq Polls
  BY DEF MonitorTypeOK, Polls
<1>2. \A q \in polls : /\ [q EXCEPT !.at = "stopped"] \in Polls
                       /\ [q EXCEPT !.at = "stopped"].id = q.id
                       /\ [q EXCEPT !.at = "stopped"].at = "stopped"
  BY <1>1 DEF Polls
<1>3. \A p \in polls : p.at \in {"timer", "sampling", "stopped"}
  BY <1>1 DEF Polls
<1>4. \A p \in StopPolls(i) : \/ p \in polls /\ (p.id # i \/ p.at = "stopped")
                              \/ \E q \in polls : q.id = i /\ p = [q EXCEPT !.at = "stopped"]
  BY DEF StopPolls
<1>5. \A p \in polls : p.id # i => p \in StopPolls(i)
  BY DEF StopPolls
<1> QED BY <1>1, <1>2, <1>4, <1>5

\* So does removing a set of monitors.
LEMMA RemoveDoes ==
  ASSUME MonitorTypeOK, NEW S \in SUBSET Ids, _removeMonitor(S)
  PROVE  /\ polls' \subseteq Polls
         /\ \A p \in polls' : p.id \in S => p.at = "stopped"
         /\ \A p \in polls \cup polls' : p.id \notin S => (p \in polls <=> p \in polls')
         /\ active' \in [Ids -> Versions] /\ partial' = partial \ S
         /\ \A i \in Ids : active'[i] = IF i \in S THEN 0 ELSE active[i]
<1>1. polls \subseteq Polls /\ active \in [Ids -> Versions] /\ 0 \in Versions
  BY ResourceMonitorAssumption DEF MonitorTypeOK, Polls, Versions
<1>2. \A i \in Ids : /\ StopPolls(i) \subseteq Polls
                     /\ \A p \in StopPolls(i) : p.id = i => p.at = "stopped"
  BY StopPollsDoes
<1>3. polls' = {p \in polls : p.id \notin S} \cup UNION {{p \in StopPolls(i) : p.id = i} : i \in S}
  BY DEF _removeMonitor
<1>4. \A p \in polls' : (p \in polls /\ p.id \notin S) \/ \E i \in S : p \in StopPolls(i) /\ p.id = i
  BY <1>3
<1>5. \A p \in polls : p.id \notin S => p \in polls'
  BY <1>3
<1>6. active' = [i \in Ids |-> IF i \in S THEN 0 ELSE active[i]] /\ partial' = partial \ S
  BY DEF _removeMonitor
<1> QED BY <1>1, <1>2, <1>4, <1>5, <1>6

\* And subscribing to a version of a monitor starts one poll for it, if nothing throws.
LEMMA ActivateDoes ==
  ASSUME MonitorTypeOK, NEW i \in Ids, NEW r \in Records, r.version # 0, Activate(i, r)
  PROVE  /\ polls' \subseteq Polls
         /\ PollsAre(polls', i, Polled(i)')
         /\ \A p \in polls \cup polls' : p.id # i => (p \in polls <=> p \in polls')
         /\ active' \in [Ids -> Versions] /\ partial' \subseteq Ids
         /\ \A j \in Ids : active'[j] = IF j = i THEN r.version ELSE active[j]
         /\ \A j \in Ids \ {i} : j \in partial' <=> j \in partial
<1> PICK v : v = r.version
  OBVIOUS
<1> DEFINE new == [id |-> i, version |-> v, at |-> "timer"]
<1>1. active' = [active EXCEPT ![i] = v] /\ v \in Versions \ {0}
  BY DEF Activate, Records
<1>2. \/ partial' = partial \cup {i} /\ polls' = StopPolls(i)
      \/ partial' = partial \ {i} /\ polls' = StopPolls(i) \cup {new}
  BY DEF Activate
<1>3. /\ StopPolls(i) \subseteq Polls
      /\ \A p \in StopPolls(i) : p.id = i => p.at = "stopped"
      /\ \A p \in polls \cup StopPolls(i) : p.id # i => (p \in polls <=> p \in StopPolls(i))
  BY StopPollsDoes
<1>4. new \in Polls /\ new.id = i /\ new.at = "timer" /\ new.version = v
  BY <1>1 DEF Polls
<1>5. active \in [Ids -> Versions] /\ partial \subseteq Ids
  BY DEF MonitorTypeOK
<1>6. active'[i] = v
  BY <1>1, <1>5
<1> HIDE DEF new
<1>7. PollsAre(polls', i, Polled(i)')
  <2>1. CASE partial' = partial \cup {i} /\ polls' = StopPolls(i)
    BY <1>3, <2>1 DEF PollsAre, Polled
  <2>2. CASE partial' = partial \ {i} /\ polls' = StopPolls(i) \cup {new}
    <3>1. Polled(i)' = v
      BY <1>6, <2>2 DEF Polled
    <3> QED BY <1>1, <1>3, <1>4, <2>2, <3>1 DEF PollsAre
  <2> QED BY <1>2, <2>1, <2>2
<1> QED BY <1>1, <1>2, <1>3, <1>4, <1>5, <1>7

\* A monitor that a step leaves alone stays as it was.
LEMMA MappedKept ==
  ASSUME NEW i \in Ids, IdMapped(i), active'[i] = active[i], monitors'[i] = monitors[i],
         stopped' = stopped, i \notin kept' => i \notin kept, i \in partial' <=> i \in partial,
         \A p \in polls \cup polls' : p.id = i => (p \in polls <=> p \in polls')
  PROVE  IdMapped(i)'
<1>1. PollsAre(polls', i, Polled(i))
  BY PolledKept DEF IdMapped
<1>2. Polled(i)' = Polled(i)
  BY DEF Polled
<1> QED BY <1>1, <1>2 DEF IdMapped

\* The kinds of loops.
LEMMA LoopKinds ==
  ASSUME MonitorTypeOK, NEW l \in Loops
  PROVE  /\ loop[l].at = "reading" <=> loop[l] \in Readings
         /\ loop[l] \notin Readings => loop[l] \in {NoLoop, Asleep, [at |-> "done"]}
<1>1. loop[l] \in {NoLoop, Asleep, [at |-> "done"]} \cup Readings
  BY DEF MonitorTypeOK, Readings
<1>2. \A x \in Readings : x.at = "reading"
  BY DEF Readings
<1>3. NoLoop.at = "none" /\ Asleep.at = "timer" /\ [at |-> "done"].at = "done"
  BY DEF NoLoop, Asleep
<1> QED BY <1>1, <1>2, <1>3

\* Setting a loop.
LEMMA LoopSet ==
  ASSUME MonitorTypeOK, RecordsWereWritten, NEW l \in Loops,
         NEW x \in {NoLoop, Asleep, [at |-> "done"]} \cup Readings,
         x \in Readings => \A y \in x.left : y[2].version # 0,
         loop' = [loop EXCEPT ![l] = x], UNCHANGED stored
  PROVE  /\ loop' \in [Loops -> {NoLoop, Asleep, [at |-> "done"]} \cup Readings]
         /\ RecordsWereWritten'
<1>1. loop \in [Loops -> {NoLoop, Asleep, [at |-> "done"]} \cup Readings]
  BY DEF MonitorTypeOK, Readings
<1>2. \A k \in Loops : loop'[k] = IF k = l THEN x ELSE loop[k]
  BY <1>1
<1>3. \A k \in Loops : loop'[k] \in Readings => \A y \in loop'[k].left : y[2].version # 0
  BY <1>2 DEF RecordsWereWritten
<1> QED BY <1>1, <1>3 DEF RecordsWereWritten

\* A read begins with the records that are there.
LEMMA ReadingBegins ==
  ASSUME MonitorTypeOK, RecordsWereWritten
  PROVE  Reading \in Readings /\ \A y \in Reading.left : y[2].version # 0
<1>1. \A i \in Ids : stored[i] \in Records
  BY DEF MonitorTypeOK
<1>2. \A i \in Present : i \in Ids /\ stored[i].version # 0
  BY DEF Present, RecordsWereWritten
<1>3. {<<i, stored[i]>> : i \in Present} \in SUBSET (Ids \X Records)
  BY <1>1, <1>2
<1>4. \A y \in {<<i, stored[i]>> : i \in Present} : y[2].version # 0
  BY <1>2
<1> QED BY <1>3, <1>4 DEF Reading, Readings

\* The type invariant with the sets named.
LEMMA MonitorTypes ==
  MonitorTypeOK <=> /\ stored \in [Ids -> Records]
                    /\ stopped \in BOOLEAN
                    /\ monitors \in [Ids -> Versions] /\ active \in [Ids -> Versions] /\ partial \subseteq Ids
                    /\ polls \subseteq Polls
                    /\ loop \in [Loops -> {NoLoop, Asleep, [at |-> "done"]} \cup Readings]
                    /\ failures \in 0..MaxFailures
                    /\ timer \subseteq Loops /\ Cardinality(timer) <= 1
                    /\ kept \subseteq Ids
BY DEF MonitorTypeOK, Polls, Readings

\* The same of the next state.
LEMMA MonitorTypesNext ==
  MonitorTypeOK' <=> /\ stored' \in [Ids -> Records]
                     /\ stopped' \in BOOLEAN
                     /\ monitors' \in [Ids -> Versions] /\ active' \in [Ids -> Versions] /\ partial' \subseteq Ids
                     /\ polls' \subseteq Polls
                     /\ loop' \in [Loops -> {NoLoop, Asleep, [at |-> "done"]} \cup Readings]
                     /\ failures' \in 0..MaxFailures
                     /\ timer' \subseteq Loops /\ Cardinality(timer') <= 1
                     /\ kept' \subseteq Ids
BY DEF MonitorTypeOK, Polls, Readings

\* How often the records changed is a number.
LEMMA ChangesType ==
  ASSUME MonitorTypeOK, NEW i \in Ids
  PROVE  changes \in Versions
<1> DEFINE S == {stored[j].version : j \in Ids}
<1>1. S \in SUBSET Versions /\ S # {} /\ Versions = 0..MaxVersion
  BY DEF MonitorTypeOK, Records, Versions
<1>2. S \in SUBSET Nat /\ IsFiniteSet(S)
  <2>1. \A s \in S : s \in Nat /\ s <= MaxVersion
    BY <1>1, ResourceMonitorAssumption
  <2>2. S \in SUBSET Nat
    BY <2>1
  <2> HIDE DEF S
  <2> QED BY <2>1, <2>2, FS_BoundedSetOfNaturals, ResourceMonitorAssumption
<1>3. \E m \in S : \A k \in S : k <= m
  <2> HIDE DEF S
  <2> QED BY <1>1, <1>2, GreatestExists
<1>4. \E m \in S : \A k \in S : m >= k
  BY <1>1, <1>3, ResourceMonitorAssumption
<1>5. changes = CHOOSE m \in S : \A k \in S : m >= k
  BY DEF changes, Max
<1> QED BY <1>1, <1>4, <1>5

\* Somebody changes a record.
LEMMA StoredChangesInv ==
  ASSUME MonitorInv, NEW i \in Ids, NEW kind \in Kinds, StoredChanges(i, kind)
  PROVE  MonitorInv'
<1> USE DEF MonitorInv
<1> PICK v : v = changes + 1
  OBVIOUS
<1>1. v \in Versions \ {0}
  BY ChangesType, ResourceMonitorAssumption DEF StoredChanges, Versions
<1>2. stored' = [stored EXCEPT ![i] = [version |-> v, kind |-> kind]]
  BY DEF StoredChanges
<1>3. [version |-> v, kind |-> kind] \in Records
  BY <1>1 DEF Records
<1>4. stored' \in [Ids -> Records]
  BY <1>2, <1>3, MonitorTypes
<1>5. /\ UNCHANGED <<stopped, monitors, active, partial, polls, loop, timer, kept>>
      /\ failures' \in 0..MaxFailures
  BY MonitorTypes, ResourceMonitorAssumption DEF StoredChanges
<1>6. MonitorTypeOK'
  BY <1>4, <1>5, MonitorTypes, MonitorTypesNext
<1>7. \A j \in Ids : IdMapped(j)'
  BY <1>5, MappedKept
<1>8. \A j \in Ids : stored'[j].kind # "none" => stored'[j].version # 0
  BY <1>1, <1>2, MonitorTypes DEF RecordsWereWritten
<1>9. RecordsWereWritten'
  BY <1>5, <1>8 DEF RecordsWereWritten
<1> QED BY <1>5, <1>6, <1>7, <1>9 DEF StoppedIsQuiet

\* A poll asks for the state of its points, or gets it.
LEMMA PollInv ==
  ASSUME MonitorInv, NEW p \in polls, PollFires(p) \/ PollSamples(p)
  PROVE  MonitorInv'
<1> USE DEF MonitorInv
<1>1. p \in Polls /\ polls \subseteq Polls
  BY MonitorTypes
<1>2. UNCHANGED <<stored, stopped, monitors, active, partial, loop, failures, timer, kept>>
  BY DEF PollFires, PollSamples
<1>3. PICK at \in {"timer", "sampling"} :
        \/ p.at # "stopped" /\ polls' = (polls \ {p}) \cup {[p EXCEPT !.at = at]}
        \/ p.at = "stopped" /\ polls' = polls \ {p}
  BY DEF PollFires, PollSamples
<1> PICK q : q = [p EXCEPT !.at = at]
  OBVIOUS
<1>4. q \in Polls /\ q.id = p.id /\ q.version = p.version /\ q.at = at
  BY <1>1 DEF Polls
<1>5. polls' \subseteq Polls
  BY <1>1, <1>3, <1>4
<1>6. MonitorTypeOK'
  BY <1>2, <1>5, MonitorTypes, MonitorTypesNext
<1>7. ASSUME NEW i \in Ids PROVE IdMapped(i)'
  <2>1. PollsAre(polls, i, Polled(i))
    BY DEF IdMapped
  <2>2. polls' = polls \ {p} \/ (p.at # "stopped" /\ polls' = (polls \ {p}) \cup {q})
    BY <1>3
  <2> SUFFICES PollsAre(polls', i, Polled(i))
    BY <1>2 DEF IdMapped, Polled
  <2>3. CASE p.at = "stopped"
    BY <1>3, <2>1, <2>3 DEF PollsAre
  <2>4. CASE p.at # "stopped" /\ p.id # i
    BY <1>4, <2>1, <2>2, <2>4, PolledKept
  <2>5. CASE p.at # "stopped" /\ p.id = i
    <3>1. \A x \in polls' : x = q \/ x \in polls \ {p}
      BY <2>2
    <3>2. \A x \in polls \ {p} : x.id = i => x.at = "stopped"
      BY Zenon, <2>1, <2>5 DEF PollsAre
    <3>3. q \in polls'
      BY <1>3, <2>5
    <3>4. p.version = Polled(i) /\ Polled(i) # 0 /\ q.at # "stopped"
      BY <1>4, <2>1, <2>5 DEF PollsAre
    <3> QED BY Zenon, <1>4, <2>5, <3>1, <3>2, <3>3, <3>4 DEF PollsAre
  <2> QED BY <2>3, <2>4, <2>5
<1>8. RecordsWereWritten' /\ StoppedIsQuiet'
  BY <1>2 DEF RecordsWereWritten, StoppedIsQuiet
<1> QED BY <1>6, <1>7, <1>8

\* The monitors start, or start once more.
LEMMA StartInv ==
  ASSUME MonitorInv, NEW l \in Loops, start(l)
  PROVE  MonitorInv'
<1> USE DEF MonitorInv
<1>1. /\ stopped' = FALSE /\ loop' = [loop EXCEPT ![l] = Reading]
      /\ UNCHANGED <<stored, monitors, active, partial, polls, failures, timer>>
  BY DEF start
<1>2. kept' = kept \cup {i \in Ids : monitors[i] # 0 /\ active[i] = 0}
  BY DEF start
<1>3. loop' \in [Loops -> {NoLoop, Asleep, [at |-> "done"]} \cup Readings] /\ RecordsWereWritten'
  BY <1>1, ReadingBegins, LoopSet
<1>4. MonitorTypeOK'
  BY <1>1, <1>2, <1>3, MonitorTypes, MonitorTypesNext
<1>5. ASSUME NEW i \in Ids PROVE IdMapped(i)'
  BY <1>1, <1>2 DEF IdMapped, Polled
<1> QED BY <1>1, <1>3, <1>4, <1>5 DEF StoppedIsQuiet

\* They stop.
LEMMA StopInv ==
  ASSUME MonitorInv, stop
  PROVE  MonitorInv'
<1> USE DEF MonitorInv
<1>1. stopped' = TRUE /\ _removeMonitor(Ids) /\ UNCHANGED <<stored, monitors, failures, timer, kept>>
  BY DEF stop
<1>2. /\ polls' \subseteq Polls
      /\ \A p \in polls' : p.id \in Ids => p.at = "stopped"
      /\ active' \in [Ids -> Versions] /\ partial' = partial \ Ids
      /\ \A i \in Ids : active'[i] = 0
  BY <1>1, RemoveDoes
<1>3. loop' = [k \in Loops |-> IF k \in timer /\ loop[k] = Asleep THEN [at |-> "done"] ELSE loop[k]]
  BY DEF stop
<1>4. loop' \in [Loops -> {NoLoop, Asleep, [at |-> "done"]} \cup Readings]
  BY <1>3, MonitorTypes
<1>5. MonitorTypeOK'
  BY <1>1, <1>2, <1>4, MonitorTypes, MonitorTypesNext
<1>6. RecordsWereWritten'
  <2>1. [at |-> "done"] \notin Readings
    BY DEF Readings
  <2> QED BY <1>1, <1>3, <2>1 DEF RecordsWereWritten
<1>7. ASSUME NEW i \in Ids PROVE IdMapped(i)'
  BY <1>1, <1>2 DEF IdMapped, PollsAre, Polled
<1> QED BY <1>1, <1>2, <1>5, <1>6, <1>7 DEF StoppedIsQuiet

\* The state of a loop after a read is over, and the timer.
LEMMA ScheduleDoes ==
  ASSUME MonitorTypeOK, RecordsWereWritten, NEW l \in Loops, Schedule(l), UNCHANGED stored
  PROVE  /\ loop' \in [Loops -> {NoLoop, Asleep, [at |-> "done"]} \cup Readings] /\ RecordsWereWritten'
         /\ timer' \subseteq Loops /\ Cardinality(timer') <= 1
<1>1. PICK x \in {Asleep, [at |-> "done"]} : loop' = [loop EXCEPT ![l] = x]
  BY DEF Schedule
<1>2. x \notin Readings
  BY DEF Readings, Asleep
<1>3. timer' = timer \/ timer' = {l}
  BY DEF Schedule
<1>4. Cardinality({l}) = 1
  BY FS_Singleton
<1>5. Cardinality(timer') <= 1
  <2>1. CASE timer' = timer
    BY <2>1, MonitorTypes
  <2>2. CASE timer' = {l}
    BY <1>4, <2>2
  <2> QED BY <1>3, <2>1, <2>2
<1>6. loop' \in [Loops -> {NoLoop, Asleep, [at |-> "done"]} \cup Readings] /\ RecordsWereWritten'
  BY <1>1, <1>2, LoopSet
<1> QED BY <1>3, <1>5, <1>6, MonitorTypes

\* A read fails, or a loop wakes up.
LEMMA LoopInv ==
  ASSUME MonitorInv, NEW l \in Loops, ReadFails(l) \/ Refresh(l)
  PROVE  MonitorInv'
<1> USE DEF MonitorInv
<1>1. UNCHANGED <<stored, stopped, monitors, active, partial, polls, kept>>
  BY DEF ReadFails, Refresh
<1>2. /\ loop' \in [Loops -> {NoLoop, Asleep, [at |-> "done"]} \cup Readings] /\ RecordsWereWritten'
      /\ timer' \subseteq Loops /\ Cardinality(timer') <= 1
  <2>1. CASE ReadFails(l)
    BY <1>1, <2>1, ScheduleDoes DEF ReadFails
  <2>2. CASE Refresh(l)
    BY <1>1, <2>2, ReadingBegins, LoopSet, MonitorTypes DEF Refresh
  <2> QED BY <2>1, <2>2
<1>3. failures' \in 0..MaxFailures
  BY MonitorTypes, ResourceMonitorAssumption DEF ReadFails, Refresh
<1>4. MonitorTypeOK'
  BY <1>1, <1>2, <1>3, MonitorTypes, MonitorTypesNext
<1>5. \A i \in Ids : IdMapped(i)'
  BY <1>1, MappedKept
<1> QED BY <1>1, <1>2, <1>4, <1>5 DEF StoppedIsQuiet

\* A read is over: the monitors it did not see are removed.
LEMMA PurgeInv ==
  ASSUME MonitorInv, NEW l \in Loops, Purge(l)
  PROVE  MonitorInv'
<1> USE DEF MonitorInv
<1> PICK gone : gone = {i \in Ids : monitors[i] # 0} \ loop[l].seen
  OBVIOUS
<1>1. /\ monitors' = [i \in Ids |-> IF i \in gone THEN 0 ELSE monitors[i]]
      /\ IF stopped THEN UNCHANGED <<active, partial, polls>> ELSE _removeMonitor(gone)
      /\ kept' = kept \ gone /\ Schedule(l) /\ UNCHANGED <<stored, stopped, failures>>
  BY DEF Purge
<1>2. /\ loop' \in [Loops -> {NoLoop, Asleep, [at |-> "done"]} \cup Readings] /\ RecordsWereWritten'
      /\ timer' \subseteq Loops /\ Cardinality(timer') <= 1
  BY <1>1, ScheduleDoes
<1>3. monitors' \in [Ids -> Versions]
  <2>1. 0 \in Versions
    BY ResourceMonitorAssumption DEF Versions
  <2> QED BY <1>1, <2>1, MonitorTypes
<1>4. CASE stopped
  <2>1. MonitorTypeOK'
    BY <1>1, <1>2, <1>3, <1>4, MonitorTypes, MonitorTypesNext
  <2>2. \A i \in Ids : IdMapped(i)'
    BY <1>1, <1>4 DEF IdMapped, StoppedIsQuiet, Polled
  <2> QED BY <1>1, <1>2, <1>4, <2>1, <2>2 DEF StoppedIsQuiet
<1>5. CASE ~stopped
  <2>1. /\ polls' \subseteq Polls
        /\ \A p \in polls' : p.id \in gone => p.at = "stopped"
        /\ \A p \in polls \cup polls' : p.id \notin gone => (p \in polls <=> p \in polls')
        /\ active' \in [Ids -> Versions] /\ partial' = partial \ gone
        /\ \A i \in Ids : active'[i] = IF i \in gone THEN 0 ELSE active[i]
    BY <1>1, <1>5, RemoveDoes
  <2>2. MonitorTypeOK'
    BY <1>1, <1>2, <1>3, <2>1, MonitorTypes, MonitorTypesNext
  <2>3. ASSUME NEW i \in Ids PROVE IdMapped(i)'
    <3>1. CASE i \in gone
      BY <1>1, <2>1, <3>1 DEF IdMapped, PollsAre, Polled
    <3>2. CASE i \notin gone
      BY <1>1, <2>1, <3>2, MappedKept
    <3> QED BY <3>1, <3>2
  <2> QED BY <1>1, <1>2, <1>5, <2>2, <2>3 DEF StoppedIsQuiet
<1> QED BY <1>4, <1>5

\* One record arrives.
LEMMA NextRecordInv ==
  ASSUME MonitorInv, NEW l \in Loops, NEW i \in Ids, NEW r \in Records, NextRecord(l, i, r)
  PROVE  MonitorInv'
<1> USE DEF MonitorInv
<1>1. loop[l] \in Readings /\ <<i, r>> \in loop[l].left
  BY LoopKinds DEF NextRecord
<1> PICK rest : rest = [loop[l] EXCEPT !.left = @ \ {<<i, r>>}]
  OBVIOUS
<1> PICK more : more = [rest EXCEPT !.seen = @ \cup {i}]
  OBVIOUS
<1>2. rest \in Readings /\ rest.left \subseteq loop[l].left
  BY <1>1 DEF Readings
<1>3. more \in Readings /\ more.left \subseteq loop[l].left
  BY <1>2 DEF Readings
<1>4. \A y \in loop[l].left : y[2].version # 0
  BY <1>1 DEF RecordsWereWritten
<1>5. r.version \in Versions \ {0}
  <2>1. <<i, r>>[2].version # 0
    BY <1>1, <1>4
  <2> QED BY <2>1 DEF Records
<1>6. UNCHANGED <<stored, stopped, failures>>
  BY DEF NextRecord
<1>7. \/ /\ (loop' = [loop EXCEPT ![l] = rest] \/ loop' = [loop EXCEPT ![l] = more])
         /\ UNCHANGED <<monitors, active, partial, polls, kept, timer>>
      \/ ~stopped /\ SetUp(l, i, r, more)
  BY DEF NextRecord
<1>8. /\ loop' \in [Loops -> {NoLoop, Asleep, [at |-> "done"]} \cup Readings] /\ RecordsWereWritten'
      /\ timer' \subseteq Loops /\ Cardinality(timer') <= 1
  <2>1. CASE loop' = [loop EXCEPT ![l] = rest] /\ timer' = timer
    BY <1>2, <1>4, <1>6, <2>1, LoopSet, MonitorTypes
  <2>2. CASE loop' = [loop EXCEPT ![l] = more] /\ timer' = timer
    BY <1>3, <1>4, <1>6, <2>2, LoopSet, MonitorTypes
  <2>3. CASE Schedule(l)
    BY <1>6, <2>3, ScheduleDoes
  <2> QED BY <1>7, <2>1, <2>2, <2>3 DEF SetUp
<1>9. CASE UNCHANGED <<monitors, active, partial, polls, kept>>
  <2>1. MonitorTypeOK'
    BY <1>6, <1>8, <1>9, MonitorTypes, MonitorTypesNext
  <2>2. \A j \in Ids : IdMapped(j)'
    BY <1>6, <1>9, MappedKept
  <2> QED BY <1>6, <1>8, <1>9, <2>1, <2>2 DEF StoppedIsQuiet
<1>10. CASE ~stopped /\ monitors' = [monitors EXCEPT ![i] = r.version]
            /\ Activate(i, r) /\ kept' = kept \ {i}
  <2>1. /\ polls' \subseteq Polls
        /\ PollsAre(polls', i, Polled(i)')
        /\ \A p \in polls \cup polls' : p.id # i => (p \in polls <=> p \in polls')
        /\ active' \in [Ids -> Versions] /\ partial' \subseteq Ids
        /\ \A j \in Ids : active'[j] = IF j = i THEN r.version ELSE active[j]
        /\ \A j \in Ids \ {i} : j \in partial' <=> j \in partial
    BY <1>5, <1>10, ActivateDoes
  <2>2. monitors' \in [Ids -> Versions] /\ \A j \in Ids : monitors'[j] = IF j = i THEN r.version ELSE monitors[j]
    BY <1>5, <1>10, MonitorTypes
  <2>3. MonitorTypeOK'
    BY <1>6, <1>8, <1>10, <2>1, <2>2, MonitorTypes, MonitorTypesNext
  <2>4. ASSUME NEW j \in Ids PROVE IdMapped(j)'
    <3>1. CASE j = i
      BY <2>1, <2>2, <3>1 DEF IdMapped
    <3>2. CASE j # i
      BY <1>6, <1>10, <2>1, <2>2, <3>2, MappedKept
    <3> QED BY <3>1, <3>2
  <2> QED BY <1>6, <1>8, <1>10, <2>3, <2>4 DEF StoppedIsQuiet
<1> QED BY <1>7, <1>9, <1>10 DEF SetUp

\* The initial state: nothing is stored, nothing runs.
LEMMA InitMonitorInv == MonitorInit => MonitorInv
<1> SUFFICES ASSUME MonitorInit PROVE MonitorInv
  OBVIOUS
<1>1. 0 \in Versions /\ 0 \in 0..MaxFailures
  BY ResourceMonitorAssumption DEF Versions
<1>2. stored \in [Ids -> Records] /\ \A i \in Ids : stored[i] = [version |-> 0, kind |-> "none"]
  BY <1>1 DEF MonitorInit, Records, Kinds
<1>3. loop \in [Loops -> {NoLoop, Asleep, [at |-> "done"]} \cup Readings] /\ \A l \in Loops : loop[l] = NoLoop
  BY DEF MonitorInit
<1>4. Cardinality({}) = 0
  BY FS_EmptySet
<1>5. MonitorTypeOK
  BY <1>1, <1>2, <1>3, <1>4, MonitorTypes DEF MonitorInit
<1>6. NoLoop \notin Readings
  BY DEF NoLoop, Readings
<1> QED BY <1>2, <1>3, <1>5, <1>6
        DEF MonitorInit, MonitorInv, StoppedIsQuiet, IdMapped, PollsAre, Polled, RecordsWereWritten

\* Every step keeps the invariant.
LEMMA NextMonitorInv == MonitorInv /\ [MonitorNext]_monitorVars => MonitorInv'
<1> SUFFICES ASSUME MonitorInv, [MonitorNext]_monitorVars PROVE MonitorInv'
  OBVIOUS
<1>1. ASSUME NEW i \in Ids, NEW kind \in Kinds, StoredChanges(i, kind) PROVE MonitorInv'
  BY <1>1, StoredChangesInv
<1>2. ASSUME NEW p \in polls, PollFires(p) \/ PollSamples(p) PROVE MonitorInv'
  BY <1>2, PollInv
<1>3. ASSUME stop PROVE MonitorInv'
  BY <1>3, StopInv
<1>4. ASSUME NEW l \in Loops, start(l) PROVE MonitorInv'
  BY <1>4, StartInv
<1>5. ASSUME NEW l \in Loops, Purge(l) PROVE MonitorInv'
  BY <1>5, PurgeInv
<1>6. ASSUME NEW l \in Loops, ReadFails(l) \/ Refresh(l) PROVE MonitorInv'
  BY <1>6, LoopInv
<1>7. ASSUME NEW l \in Loops, NEW i \in Ids, NEW r \in Records, NextRecord(l, i, r) PROVE MonitorInv'
  BY <1>7, NextRecordInv
<1>8. CASE UNCHANGED monitorVars
  BY <1>8 DEF monitorVars, MonitorInv, MonitorTypeOK, StoppedIsQuiet, IdMapped, Polled, RecordsWereWritten
<1> QED BY <1>1, <1>2, <1>3, <1>4, <1>5, <1>6, <1>7, <1>8 DEF MonitorNext

\* Subscriptions and polls never outlive their monitor, for every number of
\* monitors, changes, failed reads and refresh loops that overlap.
THEOREM MonitorsAreMapped == MonitorSpec => []ActiveIsMapped
BY InitMonitorInv, NextMonitorInv, MonitorInvImplies, PTL DEF MonitorSpec

(* Modules *)

\* There are calls.
Calling == DOMAIN tasks # {}

\* Where a call is when its module is extracted, and when it is also required.
Extracted == {"rmArchive", "npm", "resolve", "asking", "waiting", "done"}
Required == {"resolve", "asking", "waiting", "done"}

VersionsExist ==
  \A m \in Modules : /\ archive[m] \notin {NoVersion, Broken} => archive[m] \in VersionsOf(m)
                     /\ extracted[m] \notin {NoVersion, Empty, Broken} => extracted[m] \in VersionsOf(m)
                     /\ required[m] # NoVersion => required[m] \in VersionsOf(m)

\* What a call asked the registry for, and the calls it made then.
AnswersOK(p) ==
  \A d \in DOMAIN tasks[p].answers :
    /\ tasks[p].at \in {"asking", "waiting", "done", "failed"}
    /\ installed[d] = NoVersion
    /\ tasks[p].answers[d] # NoVersion => tasks[p].answers[d] \in VersionsOf(d)
    /\ tasks[p].at \in {"waiting", "done"} =>
         tasks[p].answers[d] # NoVersion /\ Append(p, d) \in DOMAIN tasks

\* A call that another one made, for a version that one was answered.
ChildOK(p) ==
  LET parent == tasks[Front(p)] IN
  /\ Front(p) \in DOMAIN tasks
  /\ parent.at \in {"waiting", "done", "failed"}
  /\ parent.at = "done" => tasks[p].at = "done"
  /\ Last(p) \in DOMAIN parent.answers /\ parent.answers[Last(p)] = tasks[p].version

TaskOK(p) ==
  /\ Len(p) > 0
  /\ tasks[p].version \in VersionsOf(Last(p))
  /\ tasks[p].at \in Required => required[Last(p)] # NoVersion
  /\ AnswersOK(p)
  /\ Len(p) > 1 => ChildOK(p)

\* One call is the command; what is staged was answered, what is required is of a call.
TreeOK ==
  /\ \A p \in DOMAIN tasks : target = {p[1]}
  /\ Calling => \E p \in DOMAIN tasks : Len(p) = 1
  /\ \A d \in Modules : stagedModules[d] # NoVersion =>
       \E q \in DOMAIN tasks : d \in DOMAIN tasks[q].answers /\ tasks[q].answers[d] = stagedModules[d]
  /\ \A m \in Modules : required[m] # NoVersion => \E p \in DOMAIN tasks : Last(p) = m

\* The files of a call that has its module for itself.
FilesOK(p) ==
  LET m == Last(p) IN
  /\ tasks[p].at \in {"rmrf", "mkdir", "tar"} => archive[m] = tasks[p].version
  /\ tasks[p].at \in Extracted => extracted[m] = tasks[p].version
  /\ tasks[p].at \notin Required \cup {"failed"} => required[m] = NoVersion
  /\ tasks[p].at \in Required => required[m] = tasks[p].version

\* Dependency d in versions V is installed, or some call was answered such a version,
\* unless p has yet to be answered.
Provided(p, d, V) ==
  \/ installed[d] # NoVersion /\ installed[d] \in V
  \/ /\ installed[d] = NoVersion
     /\ \E q \in DOMAIN tasks : d \in DOMAIN tasks[q].answers /\ tasks[q].answers[d] \in V \ {NoVersion}
  \/ /\ tasks[p].at = "asking" /\ installed[d] = NoVersion
     /\ d \in DOMAIN tasks[p].answers /\ tasks[p].answers[d] = NoVersion

NeedsOK(p) ==
  tasks[p].at \in {"asking", "waiting", "done"} =>
    LET needs == Requires(Last(p), tasks[p].version) IN \A d \in DOMAIN needs : Provided(p, d, needs[d])

CleanOK ==
  /\ \A p, q \in DOMAIN tasks : Last(p) = Last(q) => p = q
  /\ \A m \in Modules : extracted[m] # NoVersion => \E p \in DOMAIN tasks : Last(p) = m
  /\ \A p \in DOMAIN tasks : FilesOK(p) /\ NeedsOK(p)

\* Nothing is moved before the calls are over, and what is moved is not given up.
MovesOK ==
  /\ Calling => DOMAIN moves = {} /\ moved = {}
  /\ DOMAIN moves \cap cut = {}

InstallInv ==
  /\ InstalledCanRun /\ VersionsExist /\ MovesOK
  /\ \A p \in DOMAIN tasks : TaskOK(p)
  /\ TreeOK
  /\ ~tainted /\ Calling => CleanOK

\* What a module needs are modules.
LEMMA NeedsAre ==
  ASSUME NEW m \in Modules, NEW v \in VersionsOf(m)
  PROVE  DOMAIN Requires(m, v) \subseteq Modules
BY InstallAssumption DEF VersionsOf, Requires

\* Versions that exist are numbers, and none of those that stand for something else.
LEMMA VersionsAre ==
  ASSUME NEW m, NEW v \in VersionsOf(m)
  PROVE  v \in ModuleVersions /\ v \notin {NoVersion, Empty, Broken}
BY InstallAssumption DEF VersionsOf, NoVersion, Empty, Broken

\* The answers of a call.
Answers == UNION {[S -> ModuleVersions \cup {NoVersion}] : S \in SUBSET Modules}

LEMMA AnswersProperties ==
  ASSUME NEW a \in Answers
  PROVE  /\ DOMAIN a \subseteq Modules /\ a = [d \in DOMAIN a |-> a[d]]
         /\ \A d \in DOMAIN a : a[d] \in ModuleVersions \cup {NoVersion}
BY DEF Answers

\* And what is such a function.
LEMMA AnswersMake ==
  ASSUME NEW a, NEW S, S \subseteq Modules, a \in [S -> ModuleVersions \cup {NoVersion}]
  PROVE  a \in Answers
BY DEF Answers

\* A call and its path.
LEMMA TaskProperties ==
  ASSUME InstallTypeOK, NEW p \in DOMAIN tasks
  PROVE  /\ p \in Seq(Modules) /\ tasks[p] \in Tasks /\ tasks[p].version \in ModuleVersions
         /\ tasks[p].answers \in Answers /\ DOMAIN tasks[p].answers \subseteq Modules
         /\ tasks[p].at \in {"download", "rmrf", "mkdir", "tar", "rmArchive", "npm", "resolve", "asking",
                             "waiting", "done", "failed"}
         /\ Len(p) \in Nat /\ (Len(p) > 0 => Last(p) \in Modules)
<1>1. p \in Seq(Modules) /\ tasks[p] \in Tasks
  BY DEF InstallTypeOK
<1>2. tasks[p].answers \in Answers /\ tasks[p].version \in ModuleVersions
  BY <1>1 DEF Tasks, Answers
<1>3. tasks[p].at \in {"download", "rmrf", "mkdir", "tar", "rmArchive", "npm", "resolve", "asking",
                       "waiting", "done", "failed"}
  BY <1>1 DEF Tasks
<1>4. Len(p) \in Nat /\ (Len(p) > 0 => Last(p) \in Modules)
  BY <1>1 DEF Last
<1> QED BY <1>1, <1>2, <1>3, <1>4, AnswersProperties

\* A task is made of a version, a place and answers.
LEMMA TaskMake ==
  ASSUME NEW t, NEW v \in ModuleVersions, NEW a \in Answers,
         NEW at \in {"download", "rmrf", "mkdir", "tar", "rmArchive", "npm", "resolve", "asking",
                     "waiting", "done", "failed"},
         t = [version |-> v, at |-> at, answers |-> a]
  PROVE  t \in Tasks
BY DEF Tasks, Answers

\* The path of a dependency's call.
LEMMA AppendPath ==
  ASSUME NEW p \in Seq(Modules), NEW d \in Modules, Len(p) > 0
  PROVE  /\ Append(p, d) \in Seq(Modules) /\ Len(Append(p, d)) = Len(p) + 1
         /\ Last(Append(p, d)) = d /\ Append(p, d)[1] = p[1] /\ Front(Append(p, d)) = p
<1>1. Append(p, d) \in Seq(Modules) /\ Len(Append(p, d)) = Len(p) + 1 /\ Last(Append(p, d)) = d
  BY DEF Last
<1>2. Append(p, d)[1] = p[1]
  OBVIOUS
<1>3. Front(Append(p, d)) = p
  BY <1>1 DEF Front
<1> QED BY <1>1, <1>2, <1>3

\* The path of the call that made a call.
LEMMA FrontPath ==
  ASSUME NEW q \in Seq(Modules), Len(q) > 1
  PROVE  /\ Front(q) \in Seq(Modules) /\ Len(q) = Len(Front(q)) + 1 /\ Len(Front(q)) > 0
         /\ Front(q)[1] = q[1] /\ IsPrefix(Front(q), q) /\ q = Append(Front(q), Last(q))
<1>1. Front(q) \in Seq(Modules) /\ Len(Front(q)) = Len(q) - 1 /\ Front(q)[1] = q[1]
  BY DEF Front
<1>2. SubSeq(Front(q), 1, Len(Front(q))) = SubSeq(q, 1, Len(Front(q)))
  BY <1>1 DEF Front
<1>3. q = Append(Front(q), Last(q))
  BY <1>1 DEF Front, Last
<1> QED BY <1>1, <1>2, <1>3 DEF IsPrefix

VersionFields ==
  /\ archive \in [Modules -> ModuleVersions \cup {NoVersion, Broken}]
  /\ extracted \in [Modules -> ModuleVersions \cup {NoVersion, Empty, Broken}]
  /\ stagedModules \in [Modules -> ModuleVersions \cup {NoVersion}]
  /\ required \in [Modules -> ModuleVersions \cup {NoVersion}]
  /\ installFailures \in 0..MaxInstallFailures

\* What every step of a call p leaves alone, and how far it gets.
StepOf(p) ==
  /\ tasks' \in [DOMAIN tasks -> Tasks] /\ DOMAIN tasks' = DOMAIN tasks
  /\ \A q \in DOMAIN tasks \ {p} : tasks'[q] = tasks[q]
  /\ tasks[p].at \notin {"done", "failed"} /\ tasks'[p].version = tasks[p].version
  /\ \A d \in DOMAIN tasks[p].answers :
       /\ d \in DOMAIN tasks'[p].answers
       /\ tasks[p].answers[d] # NoVersion => tasks'[p].answers[d] = tasks[p].answers[d]
  /\ tasks[p].at = "waiting" => tasks'[p].at \in {"done", "failed"}
  /\ tasks'[p].at = "done" => \A q \in Children(p) : tasks[q].at = "done"
  /\ UNCHANGED <<installed, enabled, commands, tainted, target, moves, moved, cut>>
  /\ VersionFields'
  /\ \A m \in Modules \ {Last(p)} : /\ archive'[m] = archive[m] /\ extracted'[m] = extracted[m]
                                    /\ required'[m] = required[m]
  /\ required[Last(p)] # NoVersion => required'[Last(p)] = required[Last(p)]
  /\ \A d \in Modules : \/ stagedModules'[d] = stagedModules[d]
                        \/ d \in DOMAIN tasks'[p].answers /\ tasks'[p].answers[d] = stagedModules'[d]

\* After a step of p the types hold.
LEMMA StepTypes ==
  ASSUME InstallInv, NEW p \in DOMAIN tasks, StepOf(p)
  PROVE  InstallTypeOK'
BY DEF InstallInv, InstalledCanRun, InstallTypeOK, StepOf, VersionFields

\* And the other calls are as they should be.
LEMMA StepOthers ==
  ASSUME InstallInv, NEW p \in DOMAIN tasks, StepOf(p), NEW q \in DOMAIN tasks, q # p
  PROVE  TaskOK(q)'
<1>1. TaskOK(q) /\ InstallTypeOK
  BY DEF InstallInv, InstalledCanRun
<1>2. tasks'[q] = tasks[q] /\ DOMAIN tasks' = DOMAIN tasks /\ installed' = installed
  BY DEF StepOf
<1>3. q \in Seq(Modules) /\ Last(q) \in Modules
  BY <1>1, TaskProperties DEF TaskOK
<1>4. required[Last(q)] # NoVersion => required'[Last(q)] # NoVersion
  BY <1>3 DEF StepOf
<1>5. AnswersOK(q)'
  BY <1>1, <1>2 DEF TaskOK, AnswersOK
<1>6. ASSUME Len(q) > 1 PROVE ChildOK(q)'
  <2>1. ChildOK(q) /\ Front(q) \in DOMAIN tasks
    BY <1>1, <1>6 DEF TaskOK, ChildOK
  <2>2. CASE Front(q) # p
    BY <1>2, <2>1, <2>2 DEF ChildOK, StepOf
  <2>3. CASE Front(q) = p
    <3>1. q \in Children(p)
      BY <1>3, <1>6, <2>3, FrontPath DEF Children
    <3>2. tasks[p].at = "waiting" /\ tasks'[p].at \in {"done", "failed"}
      BY <2>1, <2>3 DEF ChildOK, StepOf
    <3>3. tasks'[p].at = "done" => tasks'[q].at = "done"
      BY <1>2, <3>1 DEF StepOf
    <3>4. tasks[q].version # NoVersion
      BY <1>1, VersionsAre DEF TaskOK
    <3>5. Last(q) \in DOMAIN tasks'[p].answers /\ tasks'[p].answers[Last(q)] = tasks[q].version
      BY <2>1, <2>3, <3>4 DEF ChildOK, StepOf
    <3> QED BY <1>2, <2>3, <3>2, <3>3, <3>5 DEF ChildOK
  <2> QED BY <2>2, <2>3
<1> QED BY <1>1, <1>2, <1>4, <1>5, <1>6 DEF TaskOK

\* So is p, if its answers are.
LEMMA StepOwn ==
  ASSUME InstallInv, NEW p \in DOMAIN tasks, StepOf(p), AnswersOK(p)',
         tasks'[p].at \in Required => required'[Last(p)] # NoVersion
  PROVE  TaskOK(p)'
<1>1. TaskOK(p) /\ InstallTypeOK
  BY DEF InstallInv, InstalledCanRun
<1>2. tasks'[p].version = tasks[p].version /\ DOMAIN tasks' = DOMAIN tasks
  BY DEF StepOf
<1>3. p \in Seq(Modules)
  BY <1>1, TaskProperties
<1>4. ASSUME Len(p) > 1 PROVE ChildOK(p)'
  <2>1. ChildOK(p) /\ Front(p) \in DOMAIN tasks
    BY <1>1, <1>4 DEF TaskOK, ChildOK
  <2>2. Front(p) # p
    BY <1>3, <1>4, FrontPath
  <2>3. tasks'[Front(p)] = tasks[Front(p)] /\ tasks[p].at # "done"
    BY <2>1, <2>2 DEF StepOf
  <2> QED BY <1>2, <2>1, <2>3 DEF ChildOK
<1> QED BY <1>1, <1>2, <1>4 DEF TaskOK

\* There is still one command, and what is staged or required is its.
LEMMA StepTree ==
  ASSUME InstallInv, NEW p \in DOMAIN tasks, StepOf(p)
  PROVE  TreeOK'
<1>1. TreeOK /\ InstallTypeOK /\ TaskOK(p)
  BY DEF InstallInv, InstalledCanRun
<1>2. DOMAIN tasks' = DOMAIN tasks /\ Last(p) \in Modules
  BY <1>1, TaskProperties DEF StepOf, TaskOK
<1>3. ASSUME NEW d \in Modules, stagedModules'[d] # NoVersion
      PROVE  \E q \in DOMAIN tasks : d \in DOMAIN tasks'[q].answers /\ tasks'[q].answers[d] = stagedModules'[d]
  <2>1. CASE stagedModules'[d] = stagedModules[d]
    <3>1. PICK q \in DOMAIN tasks : d \in DOMAIN tasks[q].answers /\ tasks[q].answers[d] = stagedModules[d]
      BY <1>1, <1>3, <2>1 DEF TreeOK
    <3>2. d \in DOMAIN tasks'[q].answers /\ tasks'[q].answers[d] = tasks[q].answers[d]
      BY <1>3, <2>1, <3>1 DEF StepOf
    <3> QED BY <2>1, <3>1, <3>2
  <2>2. CASE d \in DOMAIN tasks'[p].answers /\ tasks'[p].answers[d] = stagedModules'[d]
    BY <2>2
  <2> QED BY <2>1, <2>2 DEF StepOf
<1>4. ASSUME NEW m \in Modules, required'[m] # NoVersion PROVE \E q \in DOMAIN tasks : Last(q) = m
  <2>1. CASE m = Last(p)
    BY <2>1
  <2>2. CASE m # Last(p)
    BY <1>1, <1>4, <2>2 DEF TreeOK, StepOf
  <2> QED BY <2>1, <2>2
<1>5. \A q \in DOMAIN tasks' : target' = {q[1]}
  BY <1>1, <1>2 DEF TreeOK, StepOf
<1>6. Calling' => \E q \in DOMAIN tasks' : Len(q) = 1
  BY <1>1, <1>2 DEF TreeOK, Calling
<1> QED BY <1>2, <1>3, <1>4, <1>5, <1>6 DEF TreeOK

\* What a call is provided with it keeps.
LEMMA ProvidedKept ==
  ASSUME InstallInv, NEW p \in DOMAIN tasks, StepOf(p), NEW q \in DOMAIN tasks, NEW d, NEW V,
         Provided(q, d, V),
         q = p => \/ tasks[p].at # "asking"
                  \/ /\ tasks'[p].at = "asking"
                     /\ d \in DOMAIN tasks[p].answers => tasks'[p].answers[d] = tasks[p].answers[d]
  PROVE  Provided(q, d, V)'
<1>1. installed' = installed /\ DOMAIN tasks' = DOMAIN tasks
  BY DEF StepOf
<1>2. CASE installed[d] # NoVersion /\ installed[d] \in V
  BY <1>1, <1>2 DEF Provided
<1>3. ASSUME installed[d] = NoVersion, NEW x \in DOMAIN tasks, d \in DOMAIN tasks[x].answers,
             tasks[x].answers[d] \in V \ {NoVersion}
      PROVE  Provided(q, d, V)'
  <2>1. d \in DOMAIN tasks'[x].answers /\ tasks'[x].answers[d] = tasks[x].answers[d]
    BY <1>3 DEF StepOf
  <2> QED BY <1>1, <1>3, <2>1 DEF Provided
<1>4. ASSUME tasks[q].at = "asking", installed[d] = NoVersion, d \in DOMAIN tasks[q].answers,
             tasks[q].answers[d] = NoVersion
      PROVE  Provided(q, d, V)'
  <2>1. tasks'[q].at = "asking" /\ d \in DOMAIN tasks'[q].answers /\ tasks'[q].answers[d] = NoVersion
    BY <1>4 DEF StepOf
  <2> QED BY <1>1, <1>4, <2>1 DEF Provided
<1> QED BY <1>2, <1>3, <1>4 DEF Provided

\* The others keep their files and what they need.
LEMMA StepClean ==
  ASSUME InstallInv, NEW p \in DOMAIN tasks, StepOf(p), ~tainted, FilesOK(p)', NeedsOK(p)'
  PROVE  CleanOK'
<1>1. CleanOK /\ InstallTypeOK /\ \A q \in DOMAIN tasks : TaskOK(q)
  BY DEF InstallInv, InstalledCanRun, Calling
<1>2. DOMAIN tasks' = DOMAIN tasks /\ Last(p) \in Modules
  BY <1>1, TaskProperties DEF StepOf, TaskOK
<1>3. ASSUME NEW m \in Modules, extracted'[m] # NoVersion PROVE \E q \in DOMAIN tasks : Last(q) = m
  <2>1. CASE m = Last(p)
    BY <2>1
  <2>2. CASE m # Last(p)
    BY <1>1, <1>3, <2>2 DEF CleanOK, StepOf
  <2> QED BY <2>1, <2>2
<1>4. ASSUME NEW q \in DOMAIN tasks, q # p PROVE FilesOK(q)' /\ NeedsOK(q)'
  <2>1. FilesOK(q) /\ NeedsOK(q) /\ tasks'[q] = tasks[q]
    BY <1>1, <1>4 DEF CleanOK, StepOf
  <2>2. Last(q) \in Modules \ {Last(p)}
    BY <1>1, <1>4, TaskProperties DEF CleanOK, TaskOK
  <2>3. FilesOK(q)'
    BY <2>1, <2>2 DEF FilesOK, StepOf
  <2> PICK needs : needs = Requires(Last(q), tasks[q].version)
    OBVIOUS
  <2>4. ASSUME tasks[q].at \in {"asking", "waiting", "done"}
        PROVE  \A d \in DOMAIN needs : Provided(q, d, needs[d])'
    <3>1. \A d \in DOMAIN needs : Provided(q, d, needs[d])
      BY <2>1, <2>4 DEF NeedsOK
    <3> QED BY <1>4, <3>1, ProvidedKept
  <2>5. NeedsOK(q)'
    BY <2>1, <2>4 DEF NeedsOK
  <2> QED BY <2>3, <2>5
<1> QED BY <1>1, <1>2, <1>3, <1>4 DEF CleanOK

\* A step of p keeps the invariant, if p is as it should be after it.
LEMMA StepInv ==
  ASSUME InstallInv, NEW p \in DOMAIN tasks, StepOf(p), VersionsExist', AnswersOK(p)',
         tasks'[p].at \in Required => required'[Last(p)] # NoVersion,
         ~tainted => FilesOK(p)' /\ NeedsOK(p)'
  PROVE  InstallInv'
<1>1. InstallTypeOK' /\ TreeOK'
  BY StepTypes, StepTree
<1>2. \A q \in DOMAIN tasks' : TaskOK(q)'
  BY StepOthers, StepOwn DEF StepOf
<1>3. ~tainted' => CleanOK'
  BY StepClean DEF StepOf, Calling
<1>4. moved = {} /\ InstalledCanRun' /\ MovesOK'
  BY <1>1 DEF InstallInv, InstalledCanRun, MovesOK, Calling, StepOf
<1> QED BY <1>1, <1>2, <1>3, <1>4 DEF InstallInv

Places == {"download", "rmrf", "mkdir", "tar", "rmArchive", "npm", "resolve", "asking",
           "waiting", "done", "failed"}

\* A call that goes on to another place.
LEMMA ToDoes ==
  ASSUME InstallTypeOK, NEW p \in DOMAIN tasks, NEW pc \in Places, To(p, pc)
  PROVE  /\ tasks' \in [DOMAIN tasks -> Tasks] /\ DOMAIN tasks' = DOMAIN tasks
         /\ \A q \in DOMAIN tasks \ {p} : tasks'[q] = tasks[q]
         /\ tasks'[p].at = pc /\ tasks'[p].version = tasks[p].version /\ tasks'[p].answers = tasks[p].answers
<1> PICK t : t = [tasks[p] EXCEPT !.at = pc]
  OBVIOUS
<1>1. tasks' = [tasks EXCEPT ![p] = t] /\ tasks \in [DOMAIN tasks -> Tasks]
  BY DEF To, InstallTypeOK
<1>2. tasks[p] \in Tasks
  BY TaskProperties
<1>3. t \in Tasks /\ t.at = pc /\ t.version = tasks[p].version /\ t.answers = tasks[p].answers
  BY <1>2 DEF Tasks, Places
<1> QED BY <1>1, <1>3

\* If that is all but for its files, its answers stay as they should be.
LEMMA ToStep ==
  ASSUME InstallInv, NEW p \in DOMAIN tasks, NEW pc \in Places, To(p, pc), tasks[p].at \notin {"done", "failed"},
         \/ pc = "failed"
         \/ /\ tasks[p].at = "waiting" /\ pc = "done"
            /\ \A q \in Children(p) : tasks[q].at = "done"
         \/ /\ tasks[p].at \notin {"asking", "waiting"} /\ pc \notin {"asking", "waiting", "done"},
         UNCHANGED <<installed, enabled, stagedModules, commands, tainted, target, moves, moved, cut>>, VersionFields',
         \A m \in Modules \ {Last(p)} : /\ archive'[m] = archive[m] /\ extracted'[m] = extracted[m]
                                        /\ required'[m] = required[m],
         required[Last(p)] # NoVersion => required'[Last(p)] = required[Last(p)]
  PROVE  StepOf(p) /\ AnswersOK(p)'
<1>1. InstallTypeOK /\ TaskOK(p)
  BY DEF InstallInv, InstalledCanRun
<1>2. /\ tasks' \in [DOMAIN tasks -> Tasks] /\ DOMAIN tasks' = DOMAIN tasks
      /\ \A q \in DOMAIN tasks \ {p} : tasks'[q] = tasks[q]
      /\ tasks'[p].at = pc /\ tasks'[p].version = tasks[p].version /\ tasks'[p].answers = tasks[p].answers
  BY <1>1, ToDoes
<1>3. StepOf(p)
  BY <1>2 DEF StepOf
<1>4. AnswersOK(p)'
  BY <1>1, <1>2 DEF AnswersOK, TaskOK
<1> QED BY <1>3, <1>4

\* The fields of the type invariant that hold versions.
LEMMA FieldsHold == InstallInv => VersionFields
BY DEF InstallInv, InstalledCanRun, InstallTypeOK, VersionFields

\* The archive is downloaded.
LEMMA DownloadInv ==
  ASSUME InstallInv, NEW p \in DOMAIN tasks, downloadModule(p)
  PROVE  InstallInv'
<1> PICK m : m = Last(p)
  OBVIOUS
<1>1. InstallTypeOK /\ TaskOK(p) /\ VersionFields /\ VersionsExist
  BY FieldsHold DEF InstallInv, InstalledCanRun
<1>2. m \in Modules /\ tasks[p].version \in ModuleVersions /\ tasks[p].version \in VersionsOf(m)
  BY <1>1, TaskProperties DEF TaskOK
<1>3. /\ tasks[p].at = "download" /\ To(p, "rmrf") /\ archive' = [archive EXCEPT ![m] = tasks[p].version]
      /\ UNCHANGED <<extracted, installed, enabled, stagedModules, required, installFailures, commands, tainted, target, moves, moved, cut>>
  BY DEF downloadModule, History, Moving
<1>4. VersionFields'
  BY <1>1, <1>2, <1>3 DEF VersionFields
<1>5. \A n \in Modules \ {m} : archive'[n] = archive[n]
  BY <1>1, <1>3 DEF VersionFields
<1>6. archive'[m] = tasks[p].version
  BY <1>1, <1>2, <1>3 DEF VersionFields
<1>7. StepOf(p) /\ AnswersOK(p)'
  BY <1>3, <1>4, <1>5, ToStep DEF Places
<1>8. VersionsExist'
  BY <1>1, <1>2, <1>3, <1>5, <1>6 DEF VersionsExist
<1>9. tasks'[p].at = "rmrf" /\ tasks'[p].version = tasks[p].version
  BY <1>1, <1>3, ToDoes DEF Places
<1>10. ~tainted => FilesOK(p)' /\ NeedsOK(p)'
  <2>1. ~tainted => FilesOK(p)
    BY DEF InstallInv, CleanOK, Calling
  <2> QED BY <1>3, <1>6, <1>9, <2>1 DEF FilesOK, NeedsOK, Required, Extracted
<1> QED BY <1>7, <1>8, <1>9, <1>10, StepInv DEF Required

\* A step of extractModule sets the archive and the directory of its module.
LEMMA ExtractStep ==
  ASSUME InstallInv, NEW p \in DOMAIN tasks, NEW pc \in Places, To(p, pc),
         NEW v \in {archive[Last(p)], NoVersion}, NEW e \in {extracted[Last(p)], archive[Last(p)], Empty, NoVersion},
         archive' = [archive EXCEPT ![Last(p)] = v], extracted' = [extracted EXCEPT ![Last(p)] = e],
         \/ tasks[p].at \in {"rmrf", "mkdir"} /\ pc \in {"mkdir", "tar", "failed"} /\ v = archive[Last(p)]
         \/ tasks[p].at = "tar" /\ pc = "rmArchive" /\ v = archive[Last(p)] /\ e = archive[Last(p)]
         \/ tasks[p].at = "tar" /\ pc = "failed"
         \/ tasks[p].at = "rmArchive" /\ pc = "npm" /\ e = extracted[Last(p)],
         UNCHANGED <<installed, enabled, stagedModules, required, installFailures, commands, tainted, target, moves, moved, cut>>
  PROVE  InstallInv'
<1> PICK m : m = Last(p)
  OBVIOUS
<1>1. InstallTypeOK /\ TaskOK(p) /\ VersionFields /\ VersionsExist
  BY FieldsHold DEF InstallInv, InstalledCanRun
<1>2. m \in Modules /\ archive[m] \in ModuleVersions \cup {NoVersion, Broken}
      /\ extracted[m] \in ModuleVersions \cup {NoVersion, Empty, Broken}
  BY <1>1, TaskProperties DEF TaskOK, VersionFields
<1>3. VersionFields'
  BY <1>1, <1>2 DEF VersionFields
<1>4. \A n \in Modules \ {m} : archive'[n] = archive[n] /\ extracted'[n] = extracted[n]
  BY <1>1 DEF VersionFields
<1>5. archive'[m] = v /\ extracted'[m] = e
  BY <1>1, <1>2 DEF VersionFields
<1>6. StepOf(p) /\ AnswersOK(p)'
  BY <1>3, <1>4, ToStep
<1>7. VersionsExist'
  BY <1>1, <1>2, <1>4, <1>5 DEF VersionsExist
<1>8. tasks'[p].at = pc /\ tasks'[p].version = tasks[p].version
  BY <1>1, ToDoes
<1>9. ~tainted => FilesOK(p)' /\ NeedsOK(p)'
  <2>1. ~tainted => FilesOK(p)
    BY DEF InstallInv, CleanOK, Calling
  <2> QED BY <1>5, <1>8, <2>1 DEF FilesOK, NeedsOK, Required, Extracted
<1> QED BY <1>6, <1>7, <1>8, <1>9, StepInv DEF Required

\* The archive is extracted.
LEMMA ExtractInv ==
  ASSUME InstallInv, NEW p \in DOMAIN tasks, extractModule(p)
  PROVE  InstallInv'
<1> PICK m : m = Last(p)
  OBVIOUS
<1>1. VersionFields
  BY FieldsHold
<1>2. archive = [archive EXCEPT ![m] = archive[m]] /\ extracted = [extracted EXCEPT ![m] = extracted[m]]
  BY <1>1 DEF VersionFields
<1>3. UNCHANGED <<installed, enabled, stagedModules, required, installFailures, commands, tainted, target, moves, moved, cut>>
  BY DEF extractModule, History, Moving
<1>4. CASE tasks[p].at = "rmrf" /\ extracted' = [extracted EXCEPT ![m] = NoVersion]
           /\ To(p, "mkdir") /\ UNCHANGED archive
  BY <1>2, <1>3, <1>4, ExtractStep DEF Places
<1>5. CASE tasks[p].at = "mkdir" /\ extracted' = [extracted EXCEPT ![m] = Empty]
           /\ To(p, "tar") /\ UNCHANGED archive
  BY <1>2, <1>3, <1>5, ExtractStep DEF Places
<1>6. CASE tasks[p].at \in {"mkdir", "tar"} /\ To(p, "failed") /\ UNCHANGED <<archive, extracted>>
  BY <1>2, <1>3, <1>6, ExtractStep DEF Places
<1>7. CASE tasks[p].at = "tar" /\ extracted' = [extracted EXCEPT ![m] = archive[m]]
           /\ To(p, "rmArchive") /\ UNCHANGED archive
  BY <1>2, <1>3, <1>7, ExtractStep DEF Places
<1>8. CASE tasks[p].at = "rmArchive" /\ archive' = [archive EXCEPT ![m] = NoVersion]
           /\ To(p, "npm") /\ UNCHANGED extracted
  BY <1>2, <1>3, <1>8, ExtractStep DEF Places
<1> QED BY <1>4, <1>5, <1>6, <1>7, <1>8 DEF extractModule

\* The module's description is required, and npm installs what it names.
LEMMA NPMInv ==
  ASSUME InstallInv, NEW p \in DOMAIN tasks, installModuleNPMDependencies(p)
  PROVE  InstallInv'
<1> PICK m : m = Last(p)
  OBVIOUS
<1> PICK v : v = Require(m)
  OBVIOUS
<1> PICK pc : pc = IF v = NoVersion THEN "failed" ELSE "resolve"
  OBVIOUS
<1>1. InstallTypeOK /\ TaskOK(p) /\ VersionFields /\ VersionsExist
  BY FieldsHold DEF InstallInv, InstalledCanRun
<1>2. m \in Modules
  BY <1>1, TaskProperties DEF TaskOK
<1>3. /\ v \in ModuleVersions \cup {NoVersion}
      /\ v # NoVersion => v \in VersionsOf(m)
      /\ required[m] # NoVersion => v = required[m]
      /\ required[m] = NoVersion /\ extracted[m] \in ModuleVersions => v = extracted[m]
  <2>1. \A w \in ModuleVersions : w \notin {NoVersion, Empty, Broken}
    BY InstallAssumption DEF NoVersion, Empty, Broken
  <2> QED BY <1>1, <1>2, <2>1 DEF Require, VersionFields, VersionsExist
<1>4. /\ tasks[p].at = "npm" /\ To(p, pc) /\ required' = [required EXCEPT ![m] = v] /\ pc \in Places
      /\ UNCHANGED <<archive, extracted, installed, enabled, stagedModules, installFailures, commands, tainted, target, moves, moved, cut>>
  BY DEF installModuleNPMDependencies, Directories, History, Moving, Places
<1>5. VersionFields'
  BY <1>1, <1>2, <1>3, <1>4 DEF VersionFields
<1>6. \A n \in Modules \ {m} : required'[n] = required[n]
  BY <1>1, <1>4 DEF VersionFields
<1>7. required'[m] = v
  BY <1>1, <1>2, <1>4 DEF VersionFields
<1>8. StepOf(p) /\ AnswersOK(p)'
  BY <1>3, <1>4, <1>5, <1>6, <1>7, ToStep DEF Places
<1>9. VersionsExist'
  BY <1>1, <1>2, <1>3, <1>4, <1>6, <1>7 DEF VersionsExist
<1>10. tasks'[p].at = pc /\ tasks'[p].version = tasks[p].version
  BY <1>1, <1>4, ToDoes
<1>11. ~tainted => FilesOK(p)' /\ NeedsOK(p)'
  <2>1. ~tainted => FilesOK(p)
    BY DEF InstallInv, CleanOK, Calling
  <2>2. tasks[p].version \in ModuleVersions /\ tasks[p].version # NoVersion
    BY <1>1, VersionsAre DEF TaskOK
  <2>3. ~tainted => required[m] = NoVersion /\ extracted[m] = tasks[p].version
    BY <1>4, <2>1 DEF FilesOK, Required, Extracted
  <2>4. ~tainted => v = tasks[p].version
    BY <1>3, <2>2, <2>3
  <2> QED BY <1>4, <1>7, <1>10, <2>2, <2>3, <2>4 DEF FilesOK, NeedsOK, Required, Extracted
<1>12. tasks'[p].at \in Required => required'[m] # NoVersion
  BY <1>7, <1>10 DEF Required
<1> QED BY <1>8, <1>9, <1>11, <1>12, StepInv

\* A call ends, because all it made are done or because one of them failed.
LEMMA SettleInv ==
  ASSUME InstallInv, NEW p \in DOMAIN tasks, Settle(p)
  PROVE  InstallInv'
<1>1. InstallTypeOK /\ TaskOK(p) /\ VersionFields /\ VersionsExist
  BY FieldsHold DEF InstallInv, InstalledCanRun
<1>2. UNCHANGED <<archive, extracted, installed, enabled, stagedModules, required, commands, tainted, target, moves, moved, cut>>
  BY DEF Settle, Directories, History, Moving
<1>3. VersionFields'
  BY <1>1, <1>2 DEF VersionFields, Settle
<1>4. PICK pc \in {"failed", "done"} :
        /\ To(p, pc) /\ tasks[p].at \notin {"done", "failed"}
        /\ pc = "done" => tasks[p].at = "waiting" /\ \A q \in Children(p) : tasks[q].at = "done"
  BY DEF Settle
<1>5. StepOf(p) /\ AnswersOK(p)'
  BY <1>2, <1>3, <1>4, ToStep DEF Places
<1>6. VersionsExist'
  BY <1>1, <1>2 DEF VersionsExist
<1>7. tasks'[p].at = pc /\ tasks'[p].version = tasks[p].version /\ tasks'[p].answers = tasks[p].answers
  BY <1>1, <1>4, ToDoes DEF Places
<1>8. ASSUME ~tainted PROVE FilesOK(p)' /\ NeedsOK(p)'
  <2>1. FilesOK(p) /\ NeedsOK(p)
    BY <1>8 DEF InstallInv, CleanOK, Calling
  <2>2. FilesOK(p)'
    BY <1>2, <1>4, <1>7, <2>1 DEF FilesOK, Required, Extracted
  <2> PICK needs : needs = Requires(Last(p), tasks[p].version)
    OBVIOUS
  <2>3. ASSUME pc = "done" PROVE \A d \in DOMAIN needs : Provided(p, d, needs[d])'
    <3>1. \A d \in DOMAIN needs : Provided(p, d, needs[d])
      BY <1>4, <2>1, <2>3 DEF NeedsOK
    <3> QED BY <1>4, <1>5, <2>3, <3>1, ProvidedKept
  <2>4. NeedsOK(p)'
    BY <1>7, <2>3 DEF NeedsOK
  <2> QED BY <2>2, <2>4
<1>9. tasks'[p].at \in Required => required'[Last(p)] # NoVersion
  BY <1>1, <1>2, <1>4, <1>7 DEF TaskOK, Required
<1> QED BY <1>5, <1>6, <1>8, <1>9, StepInv

\* What is there of a module in the middle of something is one of its versions or none.
LEMMA UnpackedAre ==
  ASSUME InstallInv, NEW m \in Modules, NEW x \in Unpacked(m)
  PROVE  /\ x \in ModuleVersions \cup {NoVersion, Empty, Broken}
         /\ x \notin {NoVersion, Empty, Broken} => x \in VersionsOf(m)
<1>1. VersionFields /\ VersionsExist
  BY FieldsHold DEF InstallInv
<1>2. archive[m] \in ModuleVersions => archive[m] \in VersionsOf(m)
  BY <1>1, InstallAssumption DEF VersionsExist, NoVersion, Broken
<1> QED BY <1>1, <1>2 DEF Unpacked, VersionFields, VersionsExist

\* A call fails.
LEMMA FailInv ==
  ASSUME InstallInv, NEW p \in DOMAIN tasks, Fail(p)
  PROVE  InstallInv'
<1> PICK m : m = Last(p)
  OBVIOUS
<1>1. InstallTypeOK /\ TaskOK(p) /\ VersionFields /\ VersionsExist
  BY FieldsHold DEF InstallInv, InstalledCanRun
<1>2. m \in Modules
  BY <1>1, TaskProperties DEF TaskOK
<1>3. /\ UNCHANGED <<installed, enabled, stagedModules, commands, tainted, target, moves, moved, cut>>
      /\ To(p, "failed") /\ tasks[p].at \notin {"done", "failed"}
      /\ installFailures' \in 0..MaxInstallFailures
  BY <1>1, InstallAssumption DEF Fail, Fails, History, Moving, VersionFields
<1>4. PICK a \in {archive[m], Broken} : archive' = [archive EXCEPT ![m] = a]
  BY <1>1 DEF Fail, VersionFields
<1>5. PICK e \in {extracted[m]} \cup Unpacked(m) : extracted' = [extracted EXCEPT ![m] = e]
  BY <1>1 DEF Fail, VersionFields
<1>6. PICK v \in {required[m], Require(m)} : required' = [required EXCEPT ![m] = v]
  BY <1>1 DEF Fail, VersionFields
<1>7. /\ e \in ModuleVersions \cup {NoVersion, Empty, Broken}
      /\ e \notin {NoVersion, Empty, Broken} => e \in VersionsOf(m)
  BY <1>1, <1>2, UnpackedAre DEF VersionFields, VersionsExist
<1>8. /\ v \in ModuleVersions \cup {NoVersion}
      /\ v # NoVersion => v \in VersionsOf(m)
      /\ required[m] # NoVersion => v = required[m]
  <2>1. \A w \in ModuleVersions : w \notin {NoVersion, Empty, Broken}
    BY InstallAssumption DEF NoVersion, Empty, Broken
  <2> QED BY <1>1, <1>2, <2>1 DEF Require, VersionFields, VersionsExist
<1>9. VersionFields'
  BY <1>1, <1>2, <1>3, <1>4, <1>5, <1>6, <1>7, <1>8 DEF VersionFields
<1>10. /\ \A n \in Modules \ {m} : archive'[n] = archive[n] /\ extracted'[n] = extracted[n] /\ required'[n] = required[n]
       /\ archive'[m] = a /\ extracted'[m] = e /\ required'[m] = v
  BY <1>1, <1>2, <1>4, <1>5, <1>6 DEF VersionFields
<1>11. StepOf(p) /\ AnswersOK(p)'
  BY <1>3, <1>8, <1>9, <1>10, ToStep DEF Places
<1>12. VersionsExist'
  BY <1>1, <1>2, <1>7, <1>8, <1>10 DEF VersionsExist
<1>13. tasks'[p].at = "failed"
  BY <1>1, <1>3, ToDoes DEF Places
<1>14. FilesOK(p)' /\ NeedsOK(p)'
  BY <1>13 DEF FilesOK, NeedsOK, Required, Extracted
<1> QED BY <1>11, <1>12, <1>13, <1>14, StepInv DEF Required

\* The best of some versions is one of them.
LEMMA BestDoes ==
  ASSUME NEW S \in SUBSET ModuleVersions, S # {}
  PROVE  Best(S) \in S
<1>1. S \in SUBSET Nat /\ IsFiniteSet(S)
  BY InstallAssumption, FS_Subset
<1>2. \E v \in S : \A w \in S : w <= v
  BY <1>1, GreatestExists
<1> QED BY <1>2 DEF Best

\* The dependencies are looked at.
LEMMA ResolveInv ==
  ASSUME InstallInv, NEW p \in DOMAIN tasks, Resolve(p)
  PROVE  InstallInv'
<1> PICK m : m = Last(p)
  OBVIOUS
<1> PICK needs : needs = Requires(m, required[m])
  OBVIOUS
<1> PICK ask : ask = {d \in DOMAIN needs : installed[d] = NoVersion /\ stagedModules[d] = NoVersion}
  OBVIOUS
<1>1. InstallTypeOK /\ TaskOK(p) /\ VersionFields /\ VersionsExist /\ TreeOK
  BY FieldsHold DEF InstallInv, InstalledCanRun
<1>2. m \in Modules /\ tasks[p] \in Tasks
  BY <1>1, TaskProperties DEF TaskOK
<1>3. /\ tasks[p].at = "resolve"
      /\ UNCHANGED <<archive, extracted, installed, enabled, stagedModules, required, installFailures,
                     commands, tainted, target, moves, moved, cut>>
      /\ IF Conflicts(needs)
           THEN To(p, "failed")
           ELSE tasks' = [tasks EXCEPT ![p].at = "asking", ![p].answers = [d \in ask |-> NoVersion]]
  BY DEF Resolve, Directories, History, Moving
<1>4. VersionFields'
  BY <1>1, <1>3 DEF VersionFields
<1>5. VersionsExist'
  BY <1>1, <1>3 DEF VersionsExist
<1>6. required[m] \in ModuleVersions /\ required[m] \in VersionsOf(m) /\ DOMAIN tasks[p].answers = {}
  BY <1>1, <1>2, <1>3, VersionsAre DEF TaskOK, AnswersOK, VersionsExist, Required
<1>7. DOMAIN needs \subseteq Modules
  BY <1>2, <1>6, NeedsAre
<1>8. CASE Conflicts(needs)
  <2>1. StepOf(p) /\ AnswersOK(p)'
    BY <1>3, <1>4, <1>8, ToStep DEF Places
  <2>2. tasks'[p].at = "failed"
    BY <1>1, <1>3, <1>8, ToDoes DEF Places
  <2>3. FilesOK(p)' /\ NeedsOK(p)'
    BY <2>2 DEF FilesOK, NeedsOK, Required, Extracted
  <2> QED BY <1>5, <2>1, <2>2, <2>3, StepInv DEF Required
<1>9. CASE ~Conflicts(needs)
  <2> PICK a : a = [d \in ask |-> NoVersion]
    OBVIOUS
  <2> PICK t : t = [version |-> tasks[p].version, at |-> "asking", answers |-> a]
    OBVIOUS
  <2>1. ask \subseteq Modules /\ a \in [ask -> ModuleVersions \cup {NoVersion}]
    BY <1>7
  <2>2. a \in Answers
    BY <2>1, AnswersMake
  <2>3. t \in Tasks
    BY <1>1, <2>2, TaskProperties, TaskMake
  <2>4. t.version = tasks[p].version /\ t.at = "asking" /\ t.answers = a
    OBVIOUS
  <2>5. tasks' = [tasks EXCEPT ![p] = t]
    <3> PICK x : x = tasks[p]
      OBVIOUS
    <3> PICK y : y = [x EXCEPT !.at = "asking"]
      OBVIOUS
    <3> PICK z : z = [y EXCEPT !.answers = a]
      OBVIOUS
    <3>1. tasks' = [tasks EXCEPT ![p] = z]
      BY <1>1, <1>3, <1>9 DEF InstallTypeOK
    <3>2. y \in Tasks /\ y.version = tasks[p].version /\ y.at = "asking"
      BY <1>2 DEF Tasks
    <3>3. z \in Tasks /\ z.version = tasks[p].version /\ z.at = "asking" /\ z.answers = a
      BY <2>2, <3>2 DEF Tasks, Answers
    <3>4. z = [version |-> z.version, at |-> z.at, answers |-> z.answers]
      BY <3>3 DEF Tasks
    <3> QED BY <3>1, <3>3, <3>4
  <2>6. /\ tasks' \in [DOMAIN tasks -> Tasks] /\ DOMAIN tasks' = DOMAIN tasks
        /\ \A q \in DOMAIN tasks \ {p} : tasks'[q] = tasks[q]
        /\ tasks'[p] = t
    BY <1>1, <2>3, <2>5 DEF InstallTypeOK
  <2>7. StepOf(p)
    BY <1>3, <1>4, <1>6, <2>4, <2>6 DEF StepOf
  <2>8. AnswersOK(p)'
    <3>1. \A d \in ask : d \in DOMAIN needs /\ installed[d] = NoVersion /\ a[d] = NoVersion
      OBVIOUS
    <3>2. DOMAIN a = ask
      OBVIOUS
    <3> QED BY <1>3, <1>7, <2>4, <2>6, <3>1, <3>2 DEF AnswersOK
  <2>9. ASSUME ~tainted PROVE FilesOK(p)' /\ NeedsOK(p)'
    <3>1. FilesOK(p)
      BY <2>9 DEF InstallInv, CleanOK, Calling
    <3>2. FilesOK(p)'
      BY <1>3, <2>4, <2>6, <3>1 DEF FilesOK, Required, Extracted
    <3>3. needs = Requires(Last(p), tasks[p].version)
      BY <1>3, <3>1 DEF FilesOK, Required
    <3>4. ASSUME NEW d \in DOMAIN needs PROVE Provided(p, d, needs[d])'
      <4>1. CASE installed[d] # NoVersion
        BY <1>3, <1>9, <4>1 DEF Provided, Conflicts
      <4>2. CASE installed[d] = NoVersion /\ stagedModules[d] # NoVersion
        <5>1. stagedModules[d] \in needs[d]
          BY <1>9, <4>2 DEF Conflicts
        <5>2. PICK q \in DOMAIN tasks : d \in DOMAIN tasks[q].answers /\ tasks[q].answers[d] = stagedModules[d]
          BY <1>1, <1>7, <4>2 DEF TreeOK
        <5>3. tasks'[q] = tasks[q]
          BY <1>6, <2>6, <5>2
        <5> QED BY <1>3, <2>6, <4>2, <5>1, <5>2, <5>3 DEF Provided
      <4>3. CASE d \in ask
        BY <1>3, <2>4, <2>6, <4>3 DEF Provided
      <4> QED BY <4>1, <4>2, <4>3
    <3>5. NeedsOK(p)'
      BY <2>4, <2>6, <3>3, <3>4 DEF NeedsOK
    <3> QED BY <3>2, <3>5
  <2>10. tasks'[p].at \in Required => required'[Last(p)] # NoVersion
    BY <1>3, <1>6, VersionsAre
  <2> QED BY <1>5, <2>7, <2>8, <2>9, <2>10, StepInv
<1> QED BY <1>8, <1>9

\* The registry answers.
LEMMA AnswerInv ==
  ASSUME InstallInv, NEW p \in DOMAIN tasks, NEW d \in Modules, getActualVersion(p, d)
  PROVE  InstallInv'
<1> PICK m : m = Last(p)
  OBVIOUS
<1> PICK needs : needs = Requires(m, required[m])
  OBVIOUS
<1> PICK found : found = needs[d] \cap VersionsOf(d)
  OBVIOUS
<1> PICK best : best = Best(found)
  OBVIOUS
<1>1. InstallTypeOK /\ TaskOK(p) /\ VersionFields /\ VersionsExist /\ AnswersOK(p)
  BY FieldsHold DEF InstallInv, InstalledCanRun, TaskOK
<1>2. m \in Modules /\ tasks[p] \in Tasks /\ tasks[p].answers \in Answers
  BY <1>1, TaskProperties DEF TaskOK
<1>3. /\ tasks[p].at = "asking" /\ d \in DOMAIN tasks[p].answers /\ tasks[p].answers[d] = NoVersion
      /\ UNCHANGED <<archive, extracted, installed, enabled, required, installFailures, commands, tainted, target, moves, moved, cut>>
      /\ IF found = {}
           THEN To(p, "failed") /\ UNCHANGED stagedModules
           ELSE /\ tasks' = [tasks EXCEPT ![p].answers[d] = best]
                /\ stagedModules' = [stagedModules EXCEPT ![d] = best]
  BY DEF getActualVersion, Directories, History, Moving
<1>4. VersionsExist'
  BY <1>1, <1>3 DEF VersionsExist
<1>5. CASE found = {}
  <2>1. VersionFields'
    BY <1>1, <1>3, <1>5 DEF VersionFields
  <2>2. StepOf(p) /\ AnswersOK(p)'
    BY <1>3, <1>5, <2>1, ToStep DEF Places
  <2>3. tasks'[p].at = "failed"
    BY <1>1, <1>3, <1>5, ToDoes DEF Places
  <2>4. FilesOK(p)' /\ NeedsOK(p)'
    BY <2>3 DEF FilesOK, NeedsOK, Required, Extracted
  <2> QED BY <1>4, <2>2, <2>3, <2>4, StepInv DEF Required
<1>6. CASE found # {}
  <2>1. best \in needs[d] /\ best \in VersionsOf(d) /\ best \in ModuleVersions /\ best # NoVersion
    <3>1. found \in SUBSET ModuleVersions
      BY DEF VersionsOf
    <3> QED BY <1>6, <3>1, BestDoes, VersionsAre
  <2> PICK a : a = [tasks[p].answers EXCEPT ![d] = best]
    OBVIOUS
  <2> PICK t : t = [version |-> tasks[p].version, at |-> "asking", answers |-> a]
    OBVIOUS
  <2>2. /\ DOMAIN a = DOMAIN tasks[p].answers /\ a[d] = best
        /\ \A e \in DOMAIN a : e # d => a[e] = tasks[p].answers[e]
    BY <1>3
  <2>3. a \in Answers
    <3>1. DOMAIN tasks[p].answers \subseteq Modules
          /\ tasks[p].answers \in [DOMAIN tasks[p].answers -> ModuleVersions \cup {NoVersion}]
      BY <1>2, AnswersProperties
    <3>2. a \in [DOMAIN tasks[p].answers -> ModuleVersions \cup {NoVersion}]
      BY <2>1, <3>1
    <3> QED BY <3>1, <3>2, AnswersMake
  <2>4. t \in Tasks
    BY <1>1, <2>3, TaskProperties, TaskMake
  <2>5. t.version = tasks[p].version /\ t.at = "asking" /\ t.answers = a
    OBVIOUS
  <2>6. tasks' = [tasks EXCEPT ![p] = t]
    <3>1. tasks' = [tasks EXCEPT ![p] = [tasks[p] EXCEPT !.answers = a]]
      BY <1>1, <1>3, <1>6 DEF InstallTypeOK
    <3>2. [tasks[p] EXCEPT !.answers = a] = t
      BY <1>2, <1>3 DEF Tasks
    <3> QED BY <3>1, <3>2
  <2>7. /\ tasks' \in [DOMAIN tasks -> Tasks] /\ DOMAIN tasks' = DOMAIN tasks
        /\ \A q \in DOMAIN tasks \ {p} : tasks'[q] = tasks[q]
        /\ tasks'[p] = t
    BY <1>1, <2>4, <2>6 DEF InstallTypeOK
  <2>8. VersionFields' /\ \A e \in Modules : stagedModules'[e] = IF e = d THEN best ELSE stagedModules[e]
    BY <1>1, <1>3, <1>6, <2>1 DEF VersionFields
  <2>9. StepOf(p)
    <3>1. \A e \in DOMAIN tasks[p].answers :
            /\ e \in DOMAIN tasks'[p].answers
            /\ tasks[p].answers[e] # NoVersion => tasks'[p].answers[e] = tasks[p].answers[e]
      BY <1>3, <2>2, <2>5, <2>7
    <3>2. \A e \in Modules : stagedModules'[e] # stagedModules[e] =>
            e \in DOMAIN tasks'[p].answers /\ tasks'[p].answers[e] = stagedModules'[e]
      BY <1>3, <2>2, <2>5, <2>7, <2>8
    <3>3. tasks[p].at = "asking" /\ tasks'[p].at = "asking" /\ tasks'[p].version = tasks[p].version
      BY <1>3, <2>5, <2>7
    <3> QED BY <1>3, <2>7, <2>8, <3>1, <3>2, <3>3 DEF StepOf
  <2>10. AnswersOK(p)'
    BY <1>1, <1>3, <2>1, <2>2, <2>5, <2>7 DEF AnswersOK
  <2>11. ASSUME ~tainted PROVE FilesOK(p)' /\ NeedsOK(p)'
    <3>1. FilesOK(p) /\ NeedsOK(p)
      BY <2>11 DEF InstallInv, CleanOK, Calling
    <3>2. FilesOK(p)'
      BY <1>3, <2>5, <2>7, <3>1 DEF FilesOK, Required, Extracted
    <3>3. needs = Requires(Last(p), tasks[p].version)
      BY <1>3, <3>1 DEF FilesOK, Required
    <3>4. ASSUME NEW e \in DOMAIN needs PROVE Provided(p, e, needs[e])'
      <4>1. CASE e = d
        <5>1. installed'[d] = NoVersion /\ d \in DOMAIN tasks'[p].answers /\ tasks'[p].answers[d] = best
          BY <1>1, <1>3, <2>2, <2>5, <2>7 DEF AnswersOK
        <5> QED BY <2>1, <2>7, <4>1, <5>1 DEF Provided
      <4>2. CASE e # d
        <5>1. Provided(p, e, needs[e])
          BY <1>3, <3>1, <3>3 DEF NeedsOK
        <5>2. tasks'[p].at = "asking" /\ (e \in DOMAIN tasks[p].answers => tasks'[p].answers[e] = tasks[p].answers[e])
          BY <2>2, <2>5, <2>7, <4>2
        <5> QED BY <2>9, <5>1, <5>2, ProvidedKept
      <4> QED BY <4>1, <4>2
    <3>5. NeedsOK(p)'
      BY <2>5, <2>7, <3>3, <3>4 DEF NeedsOK
    <3> QED BY <3>2, <3>5
  <2>12. tasks'[p].at \in Required => required'[Last(p)] # NoVersion
    BY <1>1, <1>3 DEF TaskOK, Required
  <2> QED BY <1>4, <2>9, <2>10, <2>11, <2>12, StepInv
<1> QED BY <1>5, <1>6

\* A new call.
LEMMA NewTask ==
  ASSUME NEW v \in ModuleVersions
  PROVE  /\ Task(v) \in Tasks /\ Task(v).version = v /\ Task(v).at = "download"
         /\ DOMAIN Task(v).answers = {}
<1>1. NoAnswers \in [{} -> ModuleVersions \cup {NoVersion}] /\ DOMAIN NoAnswers = {}
  BY DEF NoAnswers
<1>2. NoAnswers \in Answers
  BY <1>1, AnswersMake
<1>3. Task(v) = [version |-> v, at |-> "download", answers |-> NoAnswers]
  BY DEF Task
<1> QED BY <1>1, <1>2, <1>3, TaskMake

\* What is greater than zero is one or more.
LEMMA OneOrMore == \A n \in Nat : n > 0 => n = 1 \/ n > 1
OBVIOUS

\* The dependencies are installed.
LEMMA DependenciesInv ==
  ASSUME InstallInv, NEW p \in DOMAIN tasks, InstallDependencies(p)
  PROVE  InstallInv'
<1> PICK answers : answers = tasks[p].answers
  OBVIOUS
<1> PICK children : children = {Append(p, d) : d \in DOMAIN answers}
  OBVIOUS
<1> PICK T : T = DOMAIN tasks
  OBVIOUS
<1>1. /\ InstallTypeOK /\ VersionFields /\ VersionsExist /\ TreeOK
      /\ \A q \in T : TaskOK(q)
  BY FieldsHold DEF InstallInv, InstalledCanRun
<1>2. /\ p \in Seq(Modules) /\ Len(p) > 0 /\ Len(p) \in Nat /\ Last(p) \in Modules
      /\ tasks[p] \in Tasks /\ DOMAIN answers \subseteq Modules /\ T \subseteq Seq(Modules)
  BY <1>1, TaskProperties DEF TaskOK, InstallTypeOK
<1>3. /\ tasks[p].at = "asking" /\ \A d \in DOMAIN answers : answers[d] # NoVersion
      /\ tasks' = [q \in T \cup children |->
                     IF q \in children THEN Task(answers[Last(q)])
                     ELSE IF q = p THEN [tasks[p] EXCEPT !.at = "waiting"] ELSE tasks[q]]
      /\ tainted' = (tainted \/ \E q \in T : Last(q) \in DOMAIN answers)
      /\ UNCHANGED <<archive, extracted, installed, enabled, stagedModules, required, commands,
                     installFailures, target, moves, moved, cut>>
  BY DEF InstallDependencies, Directories, Moving
<1>4. ASSUME NEW d \in DOMAIN answers
      PROVE  /\ answers[d] \in VersionsOf(d) /\ answers[d] \in ModuleVersions
             /\ installed[d] = NoVersion
  BY <1>1, <1>3, VersionsAre DEF TaskOK, AnswersOK
<1>5. ASSUME NEW c \in children
      PROVE  \E d \in DOMAIN answers :
               /\ c \in Seq(Modules) /\ Len(c) = Len(p) + 1 /\ Last(c) = d
               /\ c[1] = p[1] /\ Front(c) = p /\ c \notin T
  <2>1. PICK d \in DOMAIN answers : c = Append(p, d)
    OBVIOUS
  <2>2. c \in Seq(Modules) /\ Len(c) = Len(p) + 1 /\ Last(c) = d /\ c[1] = p[1] /\ Front(c) = p
    BY <1>2, <2>1, AppendPath
  <2>3. Len(c) > 1
    BY <1>2, <2>2
  <2>4. ASSUME c \in T PROVE FALSE
    <3>1. TaskOK(c)
      BY <1>1, <2>4
    <3>2. ChildOK(c)
      BY <2>3, <3>1 DEF TaskOK
    <3> QED BY <1>3, <2>2, <3>2 DEF ChildOK
  <2> QED BY <2>1, <2>2, <2>4
<1> PICK t : t = [tasks[p] EXCEPT !.at = "waiting"]
  OBVIOUS
<1>6. t \in Tasks /\ t.at = "waiting" /\ t.version = tasks[p].version /\ t.answers = answers
  BY <1>2 DEF Tasks
<1>7. ASSUME NEW c \in children
      PROVE  /\ tasks'[c] \in Tasks /\ tasks'[c].version = answers[Last(c)] /\ tasks'[c].at = "download"
             /\ DOMAIN tasks'[c].answers = {}
  <2>1. tasks'[c] = Task(answers[Last(c)])
    BY <1>3
  <2>2. answers[Last(c)] \in ModuleVersions
    BY <1>4, <1>5
  <2> QED BY <2>1, <2>2, NewTask
<1>8. /\ DOMAIN tasks' = T \cup children
      /\ tasks'[p] = t
      /\ \A q \in T \ {p} : tasks'[q] = tasks[q]
  BY <1>3, <1>5
<1>9. \A q \in T : tasks[q] \in Tasks
  BY <1>1, TaskProperties
<1>10. tasks' \in [T \cup children -> Tasks]
  <2>1. \A q \in T \cup children : tasks'[q] \in Tasks
    BY <1>6, <1>7, <1>8, <1>9
  <2>2. tasks' = [q \in T \cup children |-> tasks'[q]]
    BY <1>3
  <2> QED BY <2>1, <2>2
<1>11. T \cup children \subseteq Seq(Modules)
  BY <1>2, <1>5
<1>12. tainted' \in BOOLEAN /\ (~tainted' => ~tainted)
  BY Zenon, <1>3
<1>13. InstallTypeOK'
  BY <1>1, <1>3, <1>8, <1>10, <1>11, <1>12 DEF InstallTypeOK
<1>14. ASSUME NEW q \in T, q # p PROVE TaskOK(q)'
  <2>1. TaskOK(q) /\ tasks'[q] = tasks[q] /\ q \in Seq(Modules)
    BY <1>1, <1>2, <1>8, <1>14
  <2>2. ASSUME Len(q) > 1 PROVE ChildOK(q)'
    <3>1. ChildOK(q) /\ Front(q) \in T
      BY <2>1, <2>2 DEF TaskOK, ChildOK
    <3>2. Front(q) # p
      BY <1>3, <3>1 DEF ChildOK
    <3>3. tasks'[Front(q)] = tasks[Front(q)]
      BY <1>8, <3>1, <3>2
    <3> QED BY <1>8, <2>1, <3>1, <3>3 DEF ChildOK
  <2>3. AnswersOK(q)'
    BY <1>3, <1>8, <2>1 DEF TaskOK, AnswersOK
  <2> QED BY <1>3, <2>1, <2>2, <2>3 DEF TaskOK
<1>15. TaskOK(p)'
  <2>1. TaskOK(p)
    BY <1>1
  <2>2. ASSUME Len(p) > 1 PROVE ChildOK(p)'
    <3>1. ChildOK(p) /\ Front(p) \in T
      BY <2>1, <2>2 DEF TaskOK, ChildOK
    <3>2. Front(p) # p
      BY <1>2, <2>2, FrontPath
    <3>3. tasks'[Front(p)] = tasks[Front(p)]
      BY <1>8, <3>1, <3>2
    <3> QED BY <1>3, <1>6, <1>8, <3>1, <3>3 DEF ChildOK
  <2>3. AnswersOK(p)'
    BY <1>3, <1>4, <1>6, <1>8 DEF AnswersOK
  <2> QED BY <1>3, <1>6, <1>8, <2>1, <2>2, <2>3 DEF TaskOK, Required
<1>16. ASSUME NEW c \in children PROVE TaskOK(c)'
  <2> PICK d \in DOMAIN answers :
        /\ c \in Seq(Modules) /\ Len(c) = Len(p) + 1 /\ Last(c) = d
        /\ c[1] = p[1] /\ Front(c) = p /\ c \notin T
    BY <1>5
  <2>1. answers[d] \in VersionsOf(d)
    BY <1>4
  <2>2. ChildOK(c)'
    BY <1>6, <1>7, <1>8 DEF ChildOK
  <2> QED BY <1>2, <1>7, <2>1, <2>2 DEF TaskOK, AnswersOK, Required
<1>17. TreeOK'
  <2>1. \A q \in T \cup children : q[1] = p[1]
    BY <1>1, <1>5 DEF TreeOK
  <2>2. \A q \in T : q \in DOMAIN tasks' /\ tasks'[q].answers = tasks[q].answers
    BY <1>6, <1>8
  <2>3. \E q \in T : Len(q) = 1
    BY <1>1 DEF TreeOK, Calling
  <2>4. \A q \in DOMAIN tasks' : target' = {q[1]}
    BY <1>1, <1>3, <1>8, <2>1 DEF TreeOK
  <2>5. ASSUME NEW d \in Modules, stagedModules'[d] # NoVersion
        PROVE  \E q \in DOMAIN tasks' : d \in DOMAIN tasks'[q].answers /\ tasks'[q].answers[d] = stagedModules'[d]
    <3>1. PICK q \in T : d \in DOMAIN tasks[q].answers /\ tasks[q].answers[d] = stagedModules[d]
      BY <1>1, <1>3, <2>5 DEF TreeOK
    <3> QED BY <1>3, <2>2, <3>1
  <2>6. \A m \in Modules : required'[m] # NoVersion => \E q \in DOMAIN tasks' : Last(q) = m
    BY <1>1, <1>3, <2>2 DEF TreeOK
  <2>7. \E q \in DOMAIN tasks' : Len(q) = 1
    BY <2>2, <2>3
  <2> QED BY <2>4, <2>5, <2>6, <2>7 DEF TreeOK
<1>18. VersionsExist'
  BY <1>1, <1>3 DEF VersionsExist
<1>19. InstalledCanRun' /\ MovesOK'
  BY <1>3, <1>12, <1>13 DEF InstallInv, InstalledCanRun, MovesOK, Calling
<1>20. ASSUME ~tainted' PROVE CleanOK'
  <2>1. CleanOK /\ \A q \in T : Last(q) \notin DOMAIN answers
    BY <1>3, <1>20 DEF InstallInv, Calling
  <2>2. ASSUME NEW x \in T \cup children, NEW y \in T \cup children, Last(x) = Last(y) PROVE x = y
    <3>1. CASE x \in T /\ y \in T
      BY <2>1, <2>2, <3>1 DEF CleanOK
    <3>2. \A c \in children : Last(c) \in DOMAIN answers /\ c = Append(p, Last(c))
      <4>1. ASSUME NEW c \in children PROVE Last(c) \in DOMAIN answers /\ c = Append(Front(c), Last(c)) /\ Front(c) = p
        BY <1>2, <1>5, FrontPath
      <4> QED BY <4>1
    <3>3. CASE x \in children /\ y \in children
      BY Zenon, <2>2, <3>2, <3>3
    <3> QED BY <2>1, <2>2, <3>1, <3>2, <3>3
  <2>3. \A m \in Modules : extracted'[m] # NoVersion => \E q \in T \cup children : Last(q) = m
    BY <1>3, <2>1 DEF CleanOK
  <2>4. ASSUME NEW c \in children PROVE FilesOK(c)' /\ NeedsOK(c)'
    <3>1. Last(c) \in DOMAIN answers
      BY <1>5
    <3>2. required[Last(c)] = NoVersion
      BY <1>1, <1>2, <2>1, <3>1 DEF TreeOK
    <3> QED BY <1>3, <1>7, <3>2 DEF FilesOK, NeedsOK, Required, Extracted
  <2>5. ASSUME NEW q \in T PROVE FilesOK(q)' /\ NeedsOK(q)'
    <3>1. FilesOK(q) /\ NeedsOK(q)
      BY <2>1 DEF CleanOK
    <3>2. /\ tasks'[q].version = tasks[q].version
          /\ tasks'[q].at = tasks[q].at \/ (q = p /\ tasks[q].at = "asking" /\ tasks'[q].at = "waiting")
      BY <1>3, <1>6, <1>8
    <3>3. FilesOK(q)'
      BY <1>3, <3>1, <3>2 DEF FilesOK, Required, Extracted
    <3> PICK needs : needs = Requires(Last(q), tasks[q].version)
      OBVIOUS
    <3>4. ASSUME tasks[q].at \in {"asking", "waiting", "done"}, NEW d \in DOMAIN needs
          PROVE  Provided(q, d, needs[d])'
      <4>1. Provided(q, d, needs[d])
        BY <3>1, <3>4 DEF NeedsOK
      <4>2. \A x \in T : x \in DOMAIN tasks' /\ tasks'[x].answers = tasks[x].answers
        BY <1>6, <1>8
      <4>3. ~(q = p /\ d \in DOMAIN tasks[q].answers /\ tasks[q].answers[d] = NoVersion)
        BY <1>3
      <4> QED BY <1>3, <3>2, <4>1, <4>2, <4>3 DEF Provided
    <3>5. NeedsOK(q)'
      BY <3>2, <3>4 DEF NeedsOK
    <3> QED BY <3>3, <3>5
  <2> QED BY <1>8, <2>2, <2>3, <2>4, <2>5 DEF CleanOK
<1>21. \A q \in DOMAIN tasks' : TaskOK(q)'
  BY <1>8, <1>14, <1>15, <1>16
<1> QED BY <1>17, <1>18, <1>19, <1>20, <1>21 DEF InstallInv

\* When the calls are over nothing is staged or required.
LEMMA NothingGoesOn ==
  ASSUME InstallInv, ~Calling
  PROVE  stagedModules = None /\ required = None /\ DOMAIN tasks = {}
<1>1. InstallTypeOK /\ TreeOK /\ DOMAIN tasks = {}
  BY DEF InstallInv, InstalledCanRun, Calling
<1>2. \A m \in Modules : stagedModules[m] = NoVersion /\ required[m] = NoVersion
  BY <1>1 DEF TreeOK
<1>3. /\ stagedModules \in [Modules -> ModuleVersions \cup {NoVersion}]
      /\ required \in [Modules -> ModuleVersions \cup {NoVersion}]
  BY <1>1 DEF InstallTypeOK
<1> QED BY <1>1, <1>2, <1>3 DEF None

\* Nor is there anything else to keep.
LEMMA NoCallsInv ==
  ASSUME InstalledCanRun', (DOMAIN tasks = {})', (required = None)', (stagedModules = None)', VersionsExist',
         (DOMAIN moves \cap cut = {})'
  PROVE  InstallInv'
<1>1. \A m \in Modules : stagedModules'[m] = NoVersion /\ required'[m] = NoVersion
  BY DEF None
<1>2. ~Calling'
  BY DEF Calling
<1>3. TreeOK' /\ MovesOK'
  BY <1>1, <1>2 DEF TreeOK, MovesOK
<1> QED BY <1>2, <1>3 DEF InstallInv

\* There is no call.
LEMMA NoCalls == <<>> \in [DOMAIN <<>> -> Tasks] /\ DOMAIN <<>> = {} /\ {} \subseteq Seq(Modules)
OBVIOUS

\* And nothing that is moved.
LEMMA NoMoves == <<>> \in [DOMAIN <<>> -> {"copy", "rmrf", "rmdir"}] /\ DOMAIN <<>> \subseteq Modules
OBVIOUS

\* Nothing is there.
LEMMA NothingThere ==
  /\ None \in [Modules -> ModuleVersions \cup {NoVersion}]
  /\ None \in [Modules -> ModuleVersions \cup {NoVersion, Broken}]
  /\ None \in [Modules -> ModuleVersions \cup {NoVersion, Empty, Broken}]
  /\ \A m \in Modules : None[m] = NoVersion
BY DEF None

\* The commands that do not install.
LEMMA CommandInv ==
  ASSUME InstallInv, NEW m \in Modules, enableModule(m) \/ disableModule(m) \/ uninstall(m)
  PROVE  InstallInv'
<1>1. InstallTypeOK /\ VersionsExist /\ DOMAIN tasks = {} /\ DOMAIN moves = {} /\ ~Calling
  BY DEF InstallInv, InstalledCanRun, enableModule, disableModule, uninstall, Idle, Calling
<1>2. stagedModules = None /\ required = None
  BY <1>1, NothingGoesOn
<1>3. UNCHANGED <<archive, extracted, tasks, moves, stagedModules, required, commands, tainted, target>>
  BY DEF enableModule, disableModule, uninstall, History, Moving
<1>4. \/ UNCHANGED <<installed, moved, cut, installFailures>>
      \/ /\ moved' = {} /\ cut' = {} /\ installFailures' \in 0..MaxInstallFailures
         /\ \E x \in {installed[m], Broken, NoVersion} : installed' = [installed EXCEPT ![m] = x]
  <2>1. CASE enableModule(m) \/ disableModule(m)
    BY <2>1 DEF enableModule, disableModule, History, Moving
  <2>2. CASE uninstall(m)
    BY <1>1, <2>2, InstallAssumption DEF uninstall, Fails, Remains, InstallTypeOK
  <2> QED BY <2>1, <2>2
<1>5. enabled' \subseteq Modules
  BY <1>1 DEF InstallTypeOK, enableModule, disableModule, uninstall
<1>6. InstallTypeOK'
  BY <1>1, <1>3, <1>4, <1>5 DEF InstallTypeOK
<1>7. InstalledCanRun'
  BY <1>3, <1>4, <1>6 DEF InstallInv, InstalledCanRun, InPlace
<1>8. VersionsExist'
  BY <1>1, <1>3 DEF VersionsExist
<1>9. /\ (DOMAIN tasks = {})' /\ (DOMAIN moves = {})'
      /\ (required = None)' /\ (stagedModules = None)'
  BY <1>1, <1>2, <1>3 DEF None
<1> QED BY <1>7, <1>8, <1>9, NoCallsInv

\* A command begins: the first call has its module for itself, if staging is empty.
LEMMA InstallCommandInv ==
  ASSUME InstallInv, NEW m \in Modules, NEW v \in VersionsOf(m), install(m, v)
  PROVE  InstallInv'
<1>1. InstallTypeOK /\ VersionsExist /\ DOMAIN moves = {} /\ ~Calling
  BY DEF InstallInv, InstalledCanRun, install, Idle, Calling
<1>2. /\ commands < MaxCommands /\ commands' = commands + 1 /\ target' = {m} /\ moved' = {} /\ cut' = {}
      /\ tasks' = [p \in {<<m>>} |-> Task(v)]
      /\ UNCHANGED <<archive, extracted, installed, enabled, moves, stagedModules, required, installFailures>>
  BY DEF install, Directories
<1>3. tainted' \in BOOLEAN /\ (~tainted' => extracted = None)
  BY Zenon DEF install
<1>14. \A x \in Modules : stagedModules[x] = NoVersion /\ required[x] = NoVersion
  BY <1>1, NothingGoesOn, NothingThere
<1> PICK r : r = <<m>>
  OBVIOUS
<1>4. r \in Seq(Modules) /\ Len(r) = 1 /\ Last(r) = m /\ r[1] = m
  BY DEF Last
<1>5. v \in ModuleVersions /\ Task(v) \in Tasks /\ Task(v).version = v /\ Task(v).at = "download"
      /\ DOMAIN Task(v).answers = {}
  BY VersionsAre, NewTask
<1>6. DOMAIN tasks' = {r} /\ tasks'[r] = Task(v) /\ tasks' \in [{r} -> Tasks]
  BY <1>2, <1>5
<1>7. commands' \in 0..MaxCommands
  BY <1>1, <1>2, InstallAssumption DEF InstallTypeOK
<1>8. InstallTypeOK'
  BY <1>1, <1>2, <1>3, <1>4, <1>6, <1>7 DEF InstallTypeOK
<1>9. VersionsExist'
  BY <1>1, <1>2 DEF VersionsExist
<1>10. TaskOK(r)'
  BY <1>4, <1>5, <1>6 DEF TaskOK, AnswersOK, Required
<1>11. TreeOK' /\ MovesOK'
  BY <1>1, <1>2, <1>4, <1>6, <1>14 DEF TreeOK, MovesOK
<1>12. ASSUME ~tainted' PROVE CleanOK'
  <2>1. \A x \in Modules : extracted'[x] = NoVersion
    BY <1>2, <1>3, <1>12, NothingThere
  <2>2. FilesOK(r)' /\ NeedsOK(r)'
    BY <1>2, <1>4, <1>5, <1>6, <1>14 DEF FilesOK, NeedsOK, Required, Extracted
  <2> QED BY <1>6, <2>1, <2>2 DEF CleanOK
<1>13. InstalledCanRun'
  BY <1>2, <1>8 DEF InstallInv, InstalledCanRun
<1> QED BY <1>6, <1>9, <1>10, <1>11, <1>12, <1>13 DEF InstallInv

\* The process ends and leaves its files.
LEMMA LeaveInv ==
  ASSUME InstallInv, GiveUp
  PROVE  InstallInv'
<1>1. InstallTypeOK /\ VersionsExist /\ moved = {} /\ DOMAIN moves = {}
  BY DEF InstallInv, InstalledCanRun, MovesOK, Calling, GiveUp, Over
<1>2. UNCHANGED <<archive, extracted, installed, enabled, installFailures, commands, tainted, target, moves, moved, cut>>
  BY DEF GiveUp, Directories, History, Moving
<1>3. tasks' = <<>> /\ stagedModules' = None /\ required' = None
  BY DEF GiveUp, Exits
<1>4. (DOMAIN tasks = {})' /\ (required = None)' /\ (stagedModules = None)' /\ (DOMAIN moves = {})'
  BY <1>1, <1>2, <1>3, NoCalls DEF None
<1>5. InstallTypeOK'
  BY <1>1, <1>2, <1>3, NoCalls, NothingThere DEF InstallTypeOK
<1>6. VersionsExist'
  BY <1>1, <1>2, <1>3, NothingThere DEF VersionsExist
<1>7. InstalledCanRun'
  BY <1>1, <1>2, <1>5 DEF InstalledCanRun
<1> QED BY <1>4, <1>6, <1>7, NoCallsInv

\* Some path is shortest.
LEMMA ShortestExists ==
  ASSUME NEW P \in SUBSET Seq(Modules), P # {}
  PROVE  \E p \in P : \A q \in P : ~(Len(q) < Len(p))
<1> DEFINE R == OpToRel(<, Nat)
           L == {Len(p) : p \in P}
<1> HIDE DEF R
<1>1. L \in SUBSET Nat /\ L # {}
  <2>1. \A p \in P : Len(p) \in Nat
    OBVIOUS
  <2>2. L \subseteq Nat
    BY <2>1
  <2>3. PICK p \in P : TRUE
    OBVIOUS
  <2>4. Len(p) \in L
    BY <2>3
  <2> QED BY <2>2, <2>4
<1>2. PICK n \in L : \A k \in L : <<k, n>> \notin R
  <2>1. IsWellFoundedOn(R, Nat)
    BY NatLessThanWellFounded DEF R
  <2> HIDE DEF L
  <2> QED BY <1>1, <2>1, WFMin
<1>3. PICK p \in P : n = Len(p)
  OBVIOUS
<1>4. ASSUME NEW q \in P PROVE ~(Len(q) < Len(p))
  <2>1. <<Len(q), n>> \notin R
    BY <1>2
  <2>2. Len(q) \in Nat /\ n \in Nat
    BY <1>3
  <2> QED BY <1>3, <2>1, <2>2 DEF R, OpToRel
<1> QED BY <1>4

\* There is one command.
LEMMA RootDoes ==
  ASSUME InstallInv, Calling
  PROVE  Root \in DOMAIN tasks /\ Len(Root) = 1 /\ \A p \in DOMAIN tasks : Len(p) = 1 => p = Root
<1>1. InstallTypeOK /\ TreeOK
  BY DEF InstallInv, InstalledCanRun
<1>2. \E p \in DOMAIN tasks : Len(p) = 1
  BY <1>1 DEF TreeOK
<1>3. Root \in DOMAIN tasks /\ Len(Root) = 1
  BY <1>2 DEF Root
<1>4. ASSUME NEW p \in DOMAIN tasks, Len(p) = 1 PROVE p = Root
  <2> PICK r : r = Root
    OBVIOUS
  <2>1. r \in DOMAIN tasks /\ Len(r) = 1
    BY <1>3
  <2>2. target = {p[1]} /\ target = {r[1]}
    BY <1>1, <1>4, <2>1 DEF TreeOK
  <2>3. p \in Seq(Modules) /\ r \in Seq(Modules)
    BY <1>1, <1>4, <2>1 DEF InstallTypeOK
  <2>4. p[1] = r[1]
    BY <2>2
  <2> QED BY <1>4, <2>1, <2>3, <2>4
<1> QED BY <1>3, <1>4

\* When the command is done all calls are.
LEMMA AllDone ==
  ASSUME InstallInv, Calling, tasks[Root].at = "done"
  PROVE  \A p \in DOMAIN tasks : tasks[p].at = "done"
<1> DEFINE P == {p \in DOMAIN tasks : tasks[p].at # "done"}
<1>1. InstallTypeOK /\ \A p \in DOMAIN tasks : TaskOK(p)
  BY DEF InstallInv, InstalledCanRun
<1>2. SUFFICES ASSUME P # {} PROVE FALSE
  OBVIOUS
<1>3. P \in SUBSET Seq(Modules)
  BY <1>1 DEF InstallTypeOK
<1>4. PICK p \in P : \A q \in P : ~(Len(q) < Len(p))
  <2> HIDE DEF P
  <2> QED BY <1>2, <1>3, ShortestExists
<1>5. p \in DOMAIN tasks /\ p \in Seq(Modules) /\ tasks[p].at # "done" /\ Len(p) > 0 /\ Len(p) \in Nat
  BY <1>1, <1>3 DEF TaskOK
<1>6. Len(p) # 1
  BY <1>5, RootDoes
<1>7. Len(p) > 1
  BY Zenon, <1>5, <1>6, OneOrMore
<1>8. ChildOK(p)
  BY <1>1, <1>5, <1>7 DEF TaskOK
<1>9. Len(p) = Len(Front(p)) + 1 /\ Front(p) \in Seq(Modules)
  BY <1>5, <1>7, FrontPath
<1>10. Front(p) \in P
  BY <1>5, <1>8 DEF ChildOK
<1> QED BY <1>4, <1>9, <1>10

\* The calls are over: what is to be moved can run.
LEMMA MoveInv ==
  ASSUME InstallInv, moveStagingToInstalled
  PROVE  InstallInv'
<1> PICK staged : staged = {m \in Modules : extracted[m] # NoVersion}
  OBVIOUS
<1>1. InstallTypeOK /\ VersionsExist /\ Calling /\ TreeOK /\ \A p \in DOMAIN tasks : TaskOK(p)
  BY DEF InstallInv, InstalledCanRun, moveStagingToInstalled, Calling
<1>2. /\ moves' = [m \in staged |-> "copy"] /\ moved' = staged /\ cut' = {}
      /\ tasks' = <<>> /\ stagedModules' = None /\ required' = None
      /\ UNCHANGED <<archive, extracted, installed, enabled, commands, installFailures, tainted, target>>
  BY DEF moveStagingToInstalled, Exits, Directories
<1>3. \A p \in DOMAIN tasks : tasks[p].at = "done"
  BY <1>1, AllDone DEF moveStagingToInstalled
<1>4. \A m : InPlace(m)' = IF m \in staged THEN extracted[m] ELSE installed[m]
  BY <1>2 DEF InPlace
<1>5. InstallTypeOK'
  <2>1. DOMAIN moves' \subseteq Modules /\ moves' \in [DOMAIN moves' -> {"copy", "rmrf", "rmdir"}] /\ moved' \subseteq Modules
    BY <1>2
  <2> QED BY <1>1, <1>2, <2>1, NoCalls, NothingThere DEF InstallTypeOK
<1>6. (DOMAIN tasks = {})' /\ (required = None)' /\ (stagedModules = None)' /\ cut' = {}
  BY <1>2, NoCalls DEF None
<1>7. VersionsExist'
  BY <1>1, <1>2, NothingThere DEF VersionsExist
<1>8. ASSUME ~tainted, NEW m \in staged
      PROVE  /\ extracted[m] \in VersionsOf(m)
             /\ LET needs == Requires(m, extracted[m]) IN
                \A d \in DOMAIN needs \ target : InPlace(d)' \in needs[d]
  <2>1. CleanOK
    BY <1>1, <1>8 DEF InstallInv
  <2>2. PICK p \in DOMAIN tasks : Last(p) = m
    BY <2>1 DEF CleanOK
  <2>3. tasks[p].at = "done" /\ extracted[m] = tasks[p].version /\ TaskOK(p)
    BY <1>1, <1>3, <2>1, <2>2 DEF CleanOK, FilesOK, Extracted
  <2> PICK needs : needs = Requires(m, extracted[m])
    OBVIOUS
  <2>4. \A d \in DOMAIN needs : Provided(p, d, needs[d])
    BY <2>1, <2>2, <2>3 DEF CleanOK, NeedsOK
  <2>5. m \in Modules /\ extracted[m] \in VersionsOf(m) /\ DOMAIN needs \subseteq Modules
    BY <2>2, <2>3, NeedsAre DEF TaskOK
  <2>6. ASSUME NEW d \in DOMAIN needs \ target PROVE InPlace(d)' \in needs[d]
    <3>1. d \in Modules
      BY <2>5
    <3>2. CASE installed[d] # NoVersion /\ installed[d] \in needs[d]
      <4>1. ASSUME d \in staged PROVE FALSE
        <5>1. PICK q \in DOMAIN tasks : Last(q) = d
          BY <2>1, <3>1, <4>1 DEF CleanOK
        <5>2. TaskOK(q) /\ q \in Seq(Modules) /\ Len(q) \in Nat /\ Len(q) > 0
          BY <1>1, TaskProperties DEF TaskOK
        <5>3. CASE Len(q) > 1
          <6>1. ChildOK(q) /\ Front(q) \in DOMAIN tasks
            BY <5>2, <5>3 DEF TaskOK, ChildOK
          <6>2. AnswersOK(Front(q)) /\ d \in DOMAIN tasks[Front(q)].answers
            BY <1>1, <5>1, <6>1 DEF TaskOK, ChildOK
          <6> QED BY <3>2, <6>2 DEF AnswersOK
        <5>4. CASE Len(q) = 1
          <6>1. q[1] = d
            BY <5>1, <5>2, <5>4 DEF Last
          <6> QED BY <1>1, <2>6, <6>1 DEF TreeOK
        <5> QED BY Zenon, <5>2, <5>3, <5>4, OneOrMore
      <4> QED BY <1>4, <3>2, <4>1
    <3>3. ASSUME NEW q \in DOMAIN tasks, d \in DOMAIN tasks[q].answers,
                 tasks[q].answers[d] \in needs[d] \ {NoVersion}
          PROVE  InPlace(d)' \in needs[d]
      <4>1. TaskOK(q) /\ q \in Seq(Modules) /\ Len(q) > 0 /\ tasks[q].at = "done"
        BY <1>1, <1>3, TaskProperties DEF TaskOK
      <4>2. Append(q, d) \in DOMAIN tasks
        BY <3>3, <4>1 DEF TaskOK, AnswersOK
      <4> PICK c : c = Append(q, d)
        OBVIOUS
      <4>3. c \in DOMAIN tasks /\ Last(c) = d /\ Len(c) = Len(q) + 1 /\ Front(c) = q
        BY <3>1, <4>1, <4>2, AppendPath
      <4>4. Len(c) > 1
        BY <4>1, <4>3
      <4>5. TaskOK(c) /\ tasks[c].at = "done"
        BY <1>1, <1>3, <4>3
      <4>6. tasks[c].version = tasks[q].answers[d]
        BY <4>3, <4>4, <4>5 DEF TaskOK, ChildOK
      <4>7. extracted[d] = tasks[c].version
        BY <2>1, <4>3, <4>5 DEF CleanOK, FilesOK, Extracted
      <4>8. d \in staged
        BY <3>1, <3>3, <4>6, <4>7
      <4> QED BY <1>4, <3>3, <4>6, <4>7, <4>8
    <3> QED BY <2>3, <2>4, <2>6, <3>2, <3>3 DEF Provided
  <2> QED BY <2>5, <2>6
<1>9. InstalledCanRun'
  BY <1>2, <1>4, <1>5, <1>8 DEF InstalledCanRun
<1> QED BY <1>6, <1>7, <1>9, NoCallsInv

\* Where a module is in place stays so while the modules are moved.
LEMMA InPlaceKept ==
  ASSUME InstalledCanRun, InstallTypeOK', UNCHANGED <<tainted, target, moved>>,
         \A m \in Modules : InPlace(m)' = InPlace(m)
  PROVE  InstalledCanRun'
<1>1. ASSUME ~tainted, NEW m \in moved
      PROVE  /\ InPlace(m)' \in VersionsOf(m)
             /\ LET needs == Requires(m, InPlace(m)') IN
                \A d \in DOMAIN needs \ target' : InPlace(d)' \in needs[d]
  <2>1. m \in Modules /\ InPlace(m) \in VersionsOf(m)
    BY <1>1 DEF InstalledCanRun, InstallTypeOK
  <2>2. InPlace(m)' = InPlace(m) /\ DOMAIN Requires(m, InPlace(m)) \subseteq Modules
    BY <2>1, NeedsAre
  <2> QED BY <1>1, <2>1, <2>2 DEF InstalledCanRun
<1> QED BY <1>1 DEF InstalledCanRun

\* While modules are moved there are no calls.
LEMMA MovesAre ==
  ASSUME InstallInv, NEW m \in DOMAIN moves
  PROVE  /\ InstalledCanRun /\ InstallTypeOK /\ VersionsExist /\ m \in Modules /\ m \notin cut
         /\ DOMAIN tasks = {} /\ stagedModules = None /\ required = None
         /\ moves[m] \in {"copy", "rmrf", "rmdir"}
<1>1. ~Calling /\ m \notin cut
  BY DEF InstallInv, MovesOK
<1> QED BY <1>1, NothingGoesOn DEF InstallInv, InstalledCanRun, InstallTypeOK

\* A module is copied, or cannot be.
LEMMA CopyInv ==
  ASSUME InstallInv, NEW m \in DOMAIN moves, mv(m)
  PROVE  InstallInv'
<1>1. /\ InstalledCanRun /\ InstallTypeOK /\ VersionsExist /\ m \in Modules /\ m \notin cut
      /\ DOMAIN tasks = {} /\ stagedModules = None /\ required = None
  BY MovesAre
<1>2. /\ moves[m] = "copy"
      /\ UNCHANGED <<archive, extracted, enabled, tasks, stagedModules, required, commands, tainted, target, moved>>
  BY DEF mv
<1>3. /\ extracted[m] \in ModuleVersions \cup {NoVersion, Empty, Broken}
      /\ installed[m] \in ModuleVersions \cup {NoVersion, Broken}
      /\ DOMAIN moves \subseteq Modules /\ moves \in [DOMAIN moves -> {"copy", "rmrf", "rmdir"}]
      /\ installed \in [Modules -> ModuleVersions \cup {NoVersion, Broken}] /\ cut \subseteq Modules
  BY <1>1 DEF InstallTypeOK
<1>4. DOMAIN moves \cap cut = {}
  BY DEF InstallInv, MovesOK
<1>5. \/ /\ installed' = [installed EXCEPT ![m] = extracted[m]] /\ extracted[m] # Empty
         /\ moves' = [moves EXCEPT ![m] = "rmrf"] /\ cut' = cut /\ installFailures' = installFailures
      \/ /\ \E x \in Copied(m) : installed' = [installed EXCEPT ![m] = x]
         /\ Moved(m) /\ cut' = cut \cup {m} /\ installFailures' \in 0..MaxInstallFailures
  BY <1>1, InstallAssumption DEF mv, Fails, InstallTypeOK
<1>6. /\ InstallTypeOK' /\ (DOMAIN moves \cap cut = {})'
      /\ \A x \in Modules : InPlace(x)' = InPlace(x)
  <2>1. CASE /\ installed' = [installed EXCEPT ![m] = extracted[m]] /\ extracted[m] # Empty
             /\ moves' = [moves EXCEPT ![m] = "rmrf"] /\ cut' = cut /\ installFailures' = installFailures
    <3>1. /\ installed' \in [Modules -> ModuleVersions \cup {NoVersion, Broken}]
          /\ moves' \in [DOMAIN moves -> {"copy", "rmrf", "rmdir"}] /\ DOMAIN moves' = DOMAIN moves
      BY <1>3, <2>1
    <3>2. InstallTypeOK'
      BY <1>1, <1>2, <2>1, <3>1 DEF InstallTypeOK
    <3>3. ASSUME NEW x \in Modules PROVE InPlace(x)' = InPlace(x)
      <4>1. CASE x = m
        BY <1>1, <1>2, <1>3, <2>1, <4>1 DEF InPlace
      <4>2. CASE x # m
        <5>1. installed'[x] = installed[x] /\ extracted'[x] = extracted[x] /\ (x \in DOMAIN moves => moves'[x] = moves[x])
          BY <1>2, <1>3, <2>1, <4>2
        <5> QED BY <2>1, <3>1, <5>1 DEF InPlace
      <4> QED BY <4>1, <4>2
    <3> QED BY <1>4, <2>1, <3>1, <3>2, <3>3
  <2>2. CASE /\ \E x \in Copied(m) : installed' = [installed EXCEPT ![m] = x]
             /\ Moved(m) /\ cut' = cut \cup {m} /\ installFailures' \in 0..MaxInstallFailures
    <3>1. Copied(m) \subseteq ModuleVersions \cup {NoVersion, Broken}
      BY <1>3 DEF Copied
    <3>2. installed' \in [Modules -> ModuleVersions \cup {NoVersion, Broken}]
      BY <1>3, <2>2, <3>1
    <3>3. /\ DOMAIN moves' = DOMAIN moves \ {m} /\ moves' \in [DOMAIN moves' -> {"copy", "rmrf", "rmdir"}]
          /\ \A x \in DOMAIN moves' : moves'[x] = moves[x]
      BY <1>3, <2>2 DEF Moved
    <3>4. InstallTypeOK'
      <4>1. cut' \subseteq Modules /\ DOMAIN moves' \subseteq Modules
        BY <1>1, <1>3, <2>2, <3>3
      <4> QED BY <1>1, <1>2, <2>2, <3>2, <3>3, <4>1 DEF InstallTypeOK
    <3>5. ASSUME NEW x \in Modules PROVE InPlace(x)' = InPlace(x)
      <4>1. CASE x = m
        BY <1>2, <2>2, <4>1 DEF InPlace
      <4>2. CASE x # m
        <5>1. installed'[x] = installed[x] /\ extracted'[x] = extracted[x]
          BY <1>2, <1>3, <2>2, <4>2
        <5> QED BY <2>2, <3>3, <4>2, <5>1 DEF InPlace
      <4> QED BY <4>1, <4>2
    <3> QED BY <1>4, <2>2, <3>3, <3>4, <3>5
  <2> QED BY <1>5, <2>1, <2>2
<1>7. VersionsExist'
  BY <1>1, <1>2 DEF VersionsExist
<1>8. InstalledCanRun'
  BY <1>1, <1>2, <1>6, InPlaceKept
<1>9. (DOMAIN tasks = {})' /\ (required = None)' /\ (stagedModules = None)'
  BY <1>1, <1>2 DEF None
<1> QED BY <1>6, <1>7, <1>8, <1>9, NoCallsInv

\* A module that was copied is removed from the staging directory.
LEMMA RemovedInv ==
  ASSUME InstallInv, NEW m \in DOMAIN moves, rmrf(m)
  PROVE  InstallInv'
<1>1. /\ InstalledCanRun /\ InstallTypeOK /\ VersionsExist /\ m \in Modules /\ m \notin cut
      /\ DOMAIN tasks = {} /\ stagedModules = None /\ required = None
  BY MovesAre
<1>2. /\ \A x \in DOMAIN moves : moves[x] # "copy"
      /\ UNCHANGED <<archive, installed, enabled, tasks, stagedModules, required, commands, tainted, target, moved, cut>>
  BY DEF rmrf
<1>3. /\ extracted[m] \in ModuleVersions \cup {NoVersion, Empty, Broken}
      /\ DOMAIN moves \subseteq Modules /\ moves \in [DOMAIN moves -> {"copy", "rmrf", "rmdir"}]
      /\ extracted \in [Modules -> ModuleVersions \cup {NoVersion, Empty, Broken}]
  BY <1>1 DEF InstallTypeOK
<1>4. DOMAIN moves \cap cut = {}
  BY DEF InstallInv, MovesOK
<1>5. /\ \E x \in {extracted[m], NoVersion, Empty, Broken} : extracted' = [extracted EXCEPT ![m] = x]
      /\ moves' = [moves EXCEPT ![m] = "rmdir"] \/ Moved(m)
      /\ installFailures' \in 0..MaxInstallFailures
  BY <1>1, InstallAssumption DEF rmrf, Fails, InstallTypeOK
<1>6. /\ DOMAIN moves' \subseteq DOMAIN moves /\ moves' \in [DOMAIN moves' -> {"copy", "rmrf", "rmdir"}]
      /\ \A x \in DOMAIN moves' : moves'[x] # "copy"
  BY <1>2, <1>3, <1>5 DEF Moved
<1>7. /\ extracted' \in [Modules -> ModuleVersions \cup {NoVersion, Empty, Broken}]
      /\ \A x \in Modules \ {m} : extracted'[x] = extracted[x]
      /\ extracted'[m] \in {extracted[m], NoVersion, Empty, Broken}
  BY <1>1, <1>3, <1>5
<1>8. InstallTypeOK' /\ (DOMAIN moves \cap cut = {})'
  BY <1>1, <1>2, <1>3, <1>4, <1>5, <1>6, <1>7 DEF InstallTypeOK
<1>9. \A x \in Modules : InPlace(x)' = InPlace(x)
  BY <1>1, <1>2, <1>6, <1>7 DEF InPlace
<1>10. VersionsExist'
  BY <1>1, <1>2, <1>7 DEF VersionsExist
<1>11. InstalledCanRun'
  BY <1>1, <1>2, <1>8, <1>9, InPlaceKept
<1>12. (DOMAIN tasks = {})' /\ (required = None)' /\ (stagedModules = None)'
  BY <1>1, <1>2 DEF None
<1> QED BY <1>8, <1>10, <1>11, <1>12, NoCallsInv

\* The process is killed: what is not copied is still in the staging directory.
LEMMA KilledInv ==
  ASSUME InstallInv, Killed
  PROVE  InstallInv'
<1> DEFINE half == {Last(p) : p \in {q \in DOMAIN tasks : tasks[q].at \in {"rmrf", "tar"}}}
                     \cup {m \in DOMAIN moves : moves[m] \in {"rmrf"}}
           copying == {m \in DOMAIN moves : moves[m] \in {"copy"}}
<1>1. InstallTypeOK /\ InstalledCanRun /\ VersionsExist /\ MovesOK /\ \A p \in DOMAIN tasks : TaskOK(p)
  BY DEF InstallInv, InstalledCanRun
<1>2. /\ moves' = <<>> /\ cut' = cut \cup copying /\ tasks' = <<>> /\ stagedModules' = None /\ required' = None
      /\ UNCHANGED <<enabled, commands, tainted, target, moved>>
      /\ installFailures' \in 0..MaxInstallFailures
  BY <1>1, InstallAssumption DEF Killed, Exits, Fails, InstallTypeOK
<1>3. PICK S \in SUBSET {Last(p) : p \in {q \in DOMAIN tasks : tasks[q].at \in {"download"}}} :
        archive' = [m \in Modules |-> IF m \in S THEN Broken ELSE archive[m]]
  BY DEF Killed
<1>4. PICK f \in [half -> ModuleVersions \cup {NoVersion, Empty, Broken}] :
        /\ \A m \in half : f[m] \in Unpacked(m)
        /\ extracted' = [m \in Modules |-> IF m \in half THEN f[m] ELSE extracted[m]]
  BY DEF Killed
<1>5. \/ installed' = installed
      \/ \E m \in copying : \E x \in Copied(m) : installed' = [installed EXCEPT ![m] = x]
  BY DEF Killed
<1>6. DOMAIN moves \subseteq Modules /\ copying \subseteq Modules
  BY <1>1 DEF InstallTypeOK
<1>7. archive' \in [Modules -> ModuleVersions \cup {NoVersion, Broken}]
  BY <1>1, <1>3 DEF InstallTypeOK
<1>8. extracted' \in [Modules -> ModuleVersions \cup {NoVersion, Empty, Broken}]
  BY <1>1, <1>4 DEF InstallTypeOK
<1>9. installed' \in [Modules -> ModuleVersions \cup {NoVersion, Broken}]
  <2>1. \A m \in Modules : Copied(m) \subseteq ModuleVersions \cup {NoVersion, Broken}
    BY <1>1 DEF Copied, InstallTypeOK
  <2> QED BY <1>1, <1>5, <1>6, <2>1 DEF InstallTypeOK
<1>10. InstallTypeOK'
  BY <1>1, <1>2, <1>6, <1>7, <1>8, <1>9, NoCalls, NoMoves, NothingThere DEF InstallTypeOK
<1>11. ASSUME NEW m \in Modules
       PROVE  /\ archive'[m] \notin {NoVersion, Broken} => archive'[m] \in VersionsOf(m)
              /\ extracted'[m] \notin {NoVersion, Empty, Broken} => extracted'[m] \in VersionsOf(m)
  <2>1. archive'[m] \in {archive[m], Broken}
    BY <1>3
  <2>2. extracted'[m] = IF m \in half THEN f[m] ELSE extracted[m]
    BY <1>4
  <2>3. m \in half => (f[m] \notin {NoVersion, Empty, Broken} => f[m] \in VersionsOf(m))
    BY <1>4, UnpackedAre
  <2> QED BY <1>1, <2>1, <2>2, <2>3 DEF VersionsExist
<1>12. VersionsExist'
  BY <1>2, <1>11, NothingThere DEF VersionsExist
<1>13. InstalledCanRun'
  <2>1. CASE Calling
    <3>1. moved' = {}
      BY <1>1, <1>2, <2>1 DEF MovesOK
    <3> QED BY <1>10, <3>1 DEF InstalledCanRun
  <2>2. CASE ~Calling
    <3>1. DOMAIN tasks = {}
      BY <2>2 DEF Calling
    <3>2. half = {m \in DOMAIN moves : moves[m] = "rmrf"}
      BY <3>1
    <3>3. ASSUME NEW x \in Modules PROVE InPlace(x)' = InPlace(x)
      <4>1. InPlace(x)' = IF x \in cut \cup copying THEN extracted'[x] ELSE installed'[x]
        BY <1>2 DEF InPlace
      <4>2. InPlace(x) = IF x \in cut \cup copying THEN extracted[x] ELSE installed[x]
        BY DEF InPlace
      <4>3. CASE x \in cut \cup copying
        <5>1. x \notin half
          BY <1>1, <3>2, <4>3 DEF MovesOK
        <5> QED BY <1>4, <4>1, <4>2, <4>3, <5>1
      <4>4. CASE x \notin cut \cup copying
        <5>1. installed'[x] = installed[x]
          BY <1>1, <1>5, <4>4 DEF InstallTypeOK
        <5> QED BY <4>1, <4>2, <4>4, <5>1
      <4> QED BY <4>3, <4>4
    <3> QED BY <1>1, <1>2, <1>10, <3>3, InPlaceKept
  <2> QED BY <2>1, <2>2
<1>14. (DOMAIN tasks = {})' /\ (DOMAIN moves = {})' /\ (required = None)' /\ (stagedModules = None)'
  BY <1>2, NoCalls DEF None
<1> QED BY <1>12, <1>13, <1>14, NoCallsInv

\* Nothing is installed at first.
LEMMA InitInstallInv == InstallInit => InstallInv
<1> SUFFICES ASSUME InstallInit PROVE InstallInv
  OBVIOUS
<1>1. InstallTypeOK
  <2>1. commands \in 0..MaxCommands /\ installFailures \in 0..MaxInstallFailures
    BY InstallAssumption DEF InstallInit
  <2>2. DOMAIN tasks \subseteq Seq(Modules) /\ tasks \in [DOMAIN tasks -> Tasks]
    BY NoCalls DEF InstallInit
  <2>3. DOMAIN moves \subseteq Modules /\ moves \in [DOMAIN moves -> {"copy", "rmrf", "rmdir"}]
    BY NoMoves DEF InstallInit
  <2> QED BY <2>1, <2>2, <2>3, NothingThere DEF InstallInit, InstallTypeOK
<1>2. DOMAIN tasks = {} /\ ~Calling
  BY NoCalls DEF InstallInit, Calling
<1>3. VersionsExist
  BY NothingThere DEF InstallInit, VersionsExist
<1>4. TreeOK
  BY <1>2, NothingThere DEF InstallInit, TreeOK, Calling
<1>5. InstalledCanRun /\ MovesOK
  BY <1>1, <1>2 DEF InstallInit, InstalledCanRun, MovesOK
<1> QED BY <1>2, <1>3, <1>4, <1>5 DEF InstallInv

\* Every step keeps the invariant.
LEMMA NextInstallInv == InstallInv /\ [InstallNext]_installVars => InstallInv'
<1> SUFFICES ASSUME InstallInv, [InstallNext]_installVars PROVE InstallInv'
  OBVIOUS
<1>1. ASSUME NEW m \in Modules, NEW v \in VersionsOf(m), install(m, v) PROVE InstallInv'
  BY <1>1, InstallCommandInv
<1>2. ASSUME NEW m \in Modules, enableModule(m) \/ disableModule(m) \/ uninstall(m) PROVE InstallInv'
  BY <1>2, CommandInv
<1>3. ASSUME NEW p \in DOMAIN tasks, downloadModule(p) PROVE InstallInv'
  BY <1>3, DownloadInv
<1>4. ASSUME NEW p \in DOMAIN tasks, extractModule(p) PROVE InstallInv'
  BY <1>4, ExtractInv
<1>5. ASSUME NEW p \in DOMAIN tasks, installModuleNPMDependencies(p) PROVE InstallInv'
  BY <1>5, NPMInv
<1>6. ASSUME NEW p \in DOMAIN tasks, Resolve(p) PROVE InstallInv'
  BY <1>6, ResolveInv
<1>7. ASSUME NEW p \in DOMAIN tasks, InstallDependencies(p) PROVE InstallInv'
  BY <1>7, DependenciesInv
<1>8. ASSUME NEW p \in DOMAIN tasks, Settle(p) \/ Fail(p) PROVE InstallInv'
  BY <1>8, SettleInv, FailInv
<1>9. ASSUME NEW p \in DOMAIN tasks, NEW d \in Modules, getActualVersion(p, d) PROVE InstallInv'
  BY <1>9, AnswerInv
<1>10. CASE moveStagingToInstalled \/ GiveUp \/ Killed
  BY <1>10, MoveInv, LeaveInv, KilledInv
<1>11. ASSUME NEW m \in DOMAIN moves, mv(m) \/ rmrf(m) PROVE InstallInv'
  BY <1>11, CopyInv, RemovedInv
<1>12. CASE UNCHANGED installVars
  <2>1. UNCHANGED <<archive, extracted, installed, enabled, tasks, moves, stagedModules, required,
                    commands, installFailures, tainted, target, moved, cut>>
    BY <1>12 DEF installVars
  <2>2. InstalledCanRun' /\ VersionsExist' /\ TreeOK' /\ MovesOK'
    BY <2>1 DEF InstallInv, InstalledCanRun, InstallTypeOK, VersionsExist, TreeOK, MovesOK, Calling, InPlace
  <2>3. \A p \in DOMAIN tasks' : TaskOK(p)'
    BY <2>1 DEF InstallInv, TaskOK, AnswersOK, ChildOK
  <2>4. ~tainted' /\ Calling' => CleanOK'
    BY <2>1 DEF InstallInv, CleanOK, FilesOK, NeedsOK, Provided, Calling
  <2> QED BY <2>2, <2>3, <2>4 DEF InstallInv
<1> QED BY <1>1, <1>2, <1>3, <1>4, <1>5, <1>6, <1>7, <1>8, <1>9, <1>10, <1>11, <1>12 DEF InstallNext

\* Whatever the modules, versions and dependencies, and wherever a command failed or
\* was killed (modules.js, installModule and moveStagingToInstalled): what an install
\* command moves suits what it needs, all of it installed or, of what could not be
\* copied, still in the staging directory; unless that was not empty before or a
\* module was installed twice, and but for the command's own module.
THEOREM ModulesCanRun == InstallSpec => []InstalledCanRun
<1>1. InstallInv => InstalledCanRun
  BY DEF InstallInv
<1> QED BY <1>1, InitInstallInv, NextInstallInv, PTL DEF InstallSpec
=============================================================================
