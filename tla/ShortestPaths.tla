---------------------------- MODULE ShortestPaths ----------------------------
(***************************************************************************)
(* How a node finds its routes (src/core/router.js getShortestPathTree and *)
(* updateRoutingTable): Dijkstra's algorithm over the link states it       *)
(* knows.  A link counts in the direction in which it was reported, and a  *)
(* neighbor that nothing is known of is passed over.                       *)
(***************************************************************************)
EXTENDS Naturals, FiniteSets

CONSTANTS Vertices, Self

VARIABLES links,        \* the neighbors of each known node
          distance, previous, vertexHeap

pathVars == <<links, distance, previous, vertexHeap>>

Infinity == Cardinality(Vertices)
NoNode == "none"
Known == DOMAIN links

ASSUME PathAssumption == IsFiniteSet(Vertices) /\ Self \in Vertices /\ NoNode \notin Vertices

PathTypeOK ==
  /\ Known \subseteq Vertices /\ Self \in Known
  /\ \A n \in Known : links[n] \subseteq Vertices
  /\ distance \in [Known -> 0..Infinity]
  /\ previous \in [Known -> Known \cup {NoNode}]
  /\ vertexHeap \subseteq Known

StartFrom(known) ==
  /\ links \in [known -> SUBSET Vertices]
  /\ \A n \in known : n \notin links[n]
  /\ distance = [n \in known |-> IF n = Self THEN 0 ELSE Infinity]
  /\ previous = [n \in known |-> NoNode]
  /\ vertexHeap = known

PathInit == \E known \in {k \in SUBSET Vertices : Self \in k} : StartFrom(known)

\* Mutant: a node is taken although another one is nearer.
PopAny(n) ==
  LET nearer == {m \in links[n] \cap Known :
                   distance[n] # Infinity /\ distance[n] + 1 < distance[m]}
  IN  /\ n \in vertexHeap
      /\ vertexHeap' = vertexHeap \ {n}
      /\ distance' = [m \in Known |-> IF m \in nearer THEN distance[n] + 1 ELSE distance[m]]
      /\ previous' = [m \in Known |-> IF m \in nearer THEN n ELSE previous[m]]
      /\ UNCHANGED links

\* One round of the loop: any of the nearest nodes is taken from the heap, and its
\* neighbors that it brings nearer are told so.
Pop(n) ==
  LET nearer == {m \in links[n] \cap Known :
                   distance[n] # Infinity /\ distance[n] + 1 < distance[m]}
  IN  /\ n \in vertexHeap /\ \A m \in vertexHeap : distance[n] <= distance[m]
      /\ vertexHeap' = vertexHeap \ {n}
      /\ distance' = [m \in Known |-> IF m \in nearer THEN distance[n] + 1 ELSE distance[m]]
      /\ previous' = [m \in Known |-> IF m \in nearer THEN n ELSE previous[m]]
      /\ UNCHANGED links

PathNext == \E n \in vertexHeap : Pop(n)

PathSpec == PathInit /\ [][PathNext]_pathVars

\* updateRoutingTable: the tree from the root down.  A node without an entry is
\* the root; its neighbors are their own next hop, all others that of their parent.
routingTable ==
  LET via[n \in {m \in Known : previous[m] # NoNode}] ==
        IF previous[n] = Self THEN n ELSE via[previous[n]]
  IN  via

-----------------------------------------------------------------------------
(* Properties *)

\* The known nodes that n reaches over at most k links.
Within(n, k) ==
  LET near[i \in 0..k] == IF i = 0 THEN {n} ELSE near[i - 1] \cup UNION {links[m] \cap Known : m \in near[i - 1]}
  IN  near[k]

\* In the end exactly the nodes that can be reached have a route, and each route
\* goes to a neighbor that is one link nearer, whichever of several nearest
\* nodes the heap gave first and whatever was reported in one direction only.
RoutesAreShortest ==
  /\ PathTypeOK
  /\ vertexHeap = {} =>
       /\ DOMAIN routingTable = Within(Self, Infinity) \ {Self}
       /\ \A n \in DOMAIN routingTable :
            /\ routingTable[n] \in links[Self]
            /\ \A k \in 1..Infinity : n \in Within(Self, k) => n \in Within(routingTable[n], k - 1)
=============================================================================
