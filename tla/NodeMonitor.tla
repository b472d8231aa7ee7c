----------------------------- MODULE NodeMonitor -----------------------------
(***************************************************************************)
(* Gossip of heartbeats between servers (src/core/nodeMonitor.js).  Each   *)
(* server counts its own ticks and keeps the highest count it heard of     *)
(* every other server, with the time it last heard something new; a server *)
(* is reachable while that time is recent.                                 *)
(*                                                                         *)
(* Times are abstracted to fresh: whether the last time is less than tFail *)
(* ago.  Counts stop at MaxCount, from where on ticks repeat the same map. *)
(***************************************************************************)
EXTENDS Integers, FiniteSets

CONSTANTS Nodes,
          gossipPeers,    \* the peers of each server (addPeer)
          MaxCount,       \* bound: counts
          MaxRestarts,    \* bound: restarts of all servers together
          MaxMsgs         \* bound: heartbeats under way (the others are lost)

ASSUME MonitorAssumption ==
  /\ gossipPeers \in [Nodes -> SUBSET Nodes]
  /\ {MaxCount, MaxRestarts, MaxMsgs} \subseteq Nat

VARIABLES count,          \* heartbeatMap: its counts, of the servers it has
          fresh,          \* the servers whose time is less than tFail ago
          msgs,           \* heartbeats under way
          restarts,       \* restarts so far
          highest         \* history: the highest count each server ever had

vars == <<count, fresh, msgs, restarts, highest>>

Counts == UNION {[S -> 0..MaxCount] : S \in SUBSET Nodes}
Heartbeats == [from : Nodes, to : Nodes, map : Counts]

TypeOK ==
  /\ count \in [Nodes -> Counts]
  /\ \A n \in Nodes : n \in DOMAIN count[n] /\ fresh[n] \subseteq DOMAIN count[n] \ {n}
  /\ msgs \subseteq Heartbeats /\ Cardinality(msgs) <= MaxMsgs
  /\ restarts \in 0..MaxRestarts
  /\ highest \in [Nodes -> 0..MaxCount]

Init ==
  /\ count = [n \in Nodes |-> [m \in {n} |-> 0]]
  /\ fresh = [n \in Nodes |-> {}]
  /\ msgs = {} /\ restarts = 0
  /\ highest = [n \in Nodes |-> 0]

AtMost(a, b) == IF a <= b THEN a ELSE b
AtLeast(a, b) == IF a >= b THEN a ELSE b

isReachable(n, m) == m = n \/ m \in fresh[n]

\* Of the peers in S the first from a random one on, or nobody.
OneOf(S) == IF S = {} THEN {{}} ELSE {{m} : m \in S}

\* Mutant: the server counts for all the servers it knows.
TickCountsAll(n, to) ==
  LET map == [m \in DOMAIN count[n] |-> AtMost(count[n][m] + 1, MaxCount)]
  IN  /\ to \subseteq gossipPeers[n]
      /\ count' = [count EXCEPT ![n] = map]
      /\ highest' = [highest EXCEPT ![n] = AtLeast(@, map[n])]
      /\ msgs' = msgs \cup [from : {n}, to : to, map : {map}]
      /\ Cardinality(msgs') <= MaxMsgs
      /\ UNCHANGED <<fresh, restarts>>

\* A turn of the interval: count, and send the map to one reachable and to one
\* unreachable peer.
Tick(n, to) ==
  LET map == [count[n] EXCEPT ![n] = AtMost(@ + 1, MaxCount)]
      near == {m \in gossipPeers[n] : isReachable(n, m)}
  IN  /\ \E one \in OneOf(near), other \in OneOf(gossipPeers[n] \ near) : to = one \cup other
      /\ count' = [count EXCEPT ![n] = map]
      /\ highest' = [highest EXCEPT ![n] = AtLeast(@, map[n])]
      /\ \E lost \in SUBSET to :
           msgs' = msgs \cup [from : {n}, to : to \ lost, map : {map}]
      /\ Cardinality(msgs') <= MaxMsgs
      /\ UNCHANGED <<fresh, restarts>>

\* mergeHeartbeatMap: the higher count of each server.  A restarted server
\* learns its own former count this way.
Merge(mine, theirs) ==
  [m \in DOMAIN mine \cup DOMAIN theirs |->
     CASE m \notin DOMAIN theirs -> mine[m]
       [] m \notin DOMAIN mine   -> theirs[m]
       [] OTHER                  -> AtLeast(mine[m], theirs[m])]

\* heartbeatFrom: the servers whose time is renewed.
News(n, theirs) ==
  {m \in DOMAIN theirs \ {n} : m \notin DOMAIN count[n] \/ theirs[m] > count[n][m]}

\* Mutant: the time of the sender is not renewed.
heartbeatUntimed(h) ==
  LET n == h.to
  IN  /\ h \in msgs /\ msgs' = msgs \ {h}
      /\ count' = [count EXCEPT ![n] = Merge(@, h.map)]
      /\ fresh' = [fresh EXCEPT ![n] = @ \cup News(n, h.map)]
      /\ highest' = [highest EXCEPT ![n] = AtLeast(@, count'[n][n])]
      /\ UNCHANGED restarts

\* POST /heartbeat: the sender's time is renewed if it is known, whatever it
\* counts, then its map is merged.
heartbeat(h) ==
  LET n == h.to
  IN  /\ h \in msgs /\ msgs' = msgs \ {h}
      /\ count' = [count EXCEPT ![n] = Merge(@, h.map)]
      /\ fresh' = [fresh EXCEPT ![n] = @ \cup News(n, h.map) \cup ({h.from} \cap DOMAIN count[n])]
      /\ highest' = [highest EXCEPT ![n] = AtLeast(@, count'[n][n])]
      /\ UNCHANGED restarts

\* The cloud passes the map of server m on: merged, and no time renewed for it.
CloudHeartbeat(n, m) ==
  /\ count' = [count EXCEPT ![n] = Merge(@, count[m])]
  /\ fresh' = [fresh EXCEPT ![n] = @ \cup News(n, count[m])]
  /\ highest' = [highest EXCEPT ![n] = AtLeast(@, count'[n][n])]
  /\ UNCHANGED <<msgs, restarts>>

\* A heartbeat to a reachable peer meets an error ("link down"); or time passes.
LinkDown(n, m) ==
  /\ m \in fresh[n]
  /\ fresh' = [fresh EXCEPT ![n] = @ \ {m}]
  /\ UNCHANGED <<count, msgs, restarts, highest>>

\* A heartbeat to an unreachable peer is answered ("link up").  The handler of
\* /heartbeat never answers, but `authorize` before it does when it refuses.
LinkUp(n, m) ==
  /\ m \in gossipPeers[n] \cap DOMAIN count[n] /\ ~isReachable(n, m)
  /\ fresh' = [fresh EXCEPT ![n] = @ \cup {m}]
  /\ UNCHANGED <<count, msgs, restarts, highest>>

\* A server ends and starts with nothing but itself, at 0.
Restart(n) ==
  /\ restarts < MaxRestarts /\ restarts' = restarts + 1
  /\ count' = [count EXCEPT ![n] = [m \in {n} |-> 0]]
  /\ fresh' = [fresh EXCEPT ![n] = {}]
  /\ UNCHANGED <<msgs, highest>>

Next ==
  \/ \E h \in msgs : heartbeat(h)
  \/ \E n \in Nodes :
       \/ \E to \in SUBSET Nodes : Tick(n, to)
       \/ Restart(n)
       \/ \E m \in Nodes \ {n} : CloudHeartbeat(n, m) \/ LinkDown(n, m) \/ LinkUp(n, m)

\* n ticks and sends a heartbeat to m that does not get lost.
Reaches(n, m) ==
  \E to \in SUBSET Nodes :
    m \in to /\ Tick(n, to) /\ [from |-> n, to |-> m, map |-> count'[n]] \in msgs'

\* A heartbeat of n to m arrives.
Arrives(n, m) == \E h \in msgs : h.from = n /\ h.to = m /\ heartbeat(h)

\* The interval goes on, a heartbeat under way arrives,
\* and, since the peer is chosen by Math.random(), every peer is sent one again
\* and again that does not get lost.
Fairness == \A n \in Nodes : \A m \in gossipPeers[n] : SF_vars(Reaches(n, m)) /\ WF_vars(Arrives(n, m))

Spec == Init /\ [][Next]_vars /\ Fairness

-----------------------------------------------------------------------------
(* Properties *)

\* Nobody is ahead of what a server ever counted, over restarts, late
\* heartbeats and maps passed on: a server that is gone for good is not kept
\* reachable by gossip about it.
CountsAreReal ==
  /\ \A n \in Nodes : \A m \in DOMAIN count[n] : count[n][m] <= highest[m]
  /\ \A h \in msgs : \A m \in DOMAIN h.map : h.map[m] <= highest[m]

\* n is not behind what m remembers of it.
CountsOn(n, m) == n \in DOMAIN count[m] => count[n][n] >= count[m][n]

\* A server that restarts at 0, while the others remember a higher count and
\* take its own for old news, counts again from where it was; and its peers
\* find it reachable again and again, however often a heartbeat gets lost.
RestartedNodeIsHeard ==
  \A n \in Nodes : \A m \in Nodes \ {n} :
    []<>CountsOn(n, m) /\ (m \in gossipPeers[n] => []<>(n \in fresh[m]))
=============================================================================
