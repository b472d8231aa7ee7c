-------------------------- MODULE RegistrationProofs --------------------------
(***************************************************************************)
(* Registration, for any number of peers, resources, nodes, writes and     *)
(* registrations in progress: DeviceJSCore's maps agree, and a node whose  *)
(* peer controls a resource is named by the owner record that it reads.    *)
(***************************************************************************)
EXTENDS PeerRegistration, ResourceOwners, WellFoundedInduction, TLAPS

(* DeviceJSCore: connected peers and registered resources *)

\* The initial state is well typed.
LEMMA InitTypeOK == Init => TypeOK
<1> SUFFICES ASSUME Init PROVE TypeOK
  OBVIOUS
<1>1. /\ sockets \in [Peers -> 0..MaxSockets]
      /\ marked = {}
      /\ reg \in [Calls -> {Idle} \cup [at : {"put", "index"}, peer : Peers, resource : Resources]]
  BY MaxSocketsAssumption DEF Init
<1>2. DOMAIN peerMap = {} /\ DOMAIN resourceMap = {}
  BY DEF Init
<1>3. doubled \in BOOLEAN
  BY Zenon DEF Init
<1> QED BY <1>1, <1>2, <1>3 DEF TypeOK

\* Every step of DeviceJSCore keeps the maps well typed.
LEMMA NextTypeOK == TypeOK /\ [Next]_vars => TypeOK'
<1> SUFFICES ASSUME TypeOK, [Next]_vars PROVE TypeOK'
  OBVIOUS
<1> USE MaxSocketsAssumption
<1>1. ASSUME NEW p \in Peers, handlePeerConnect(p) PROVE TypeOK'
  BY <1>1 DEF handlePeerConnect, TypeOK, With
<1>2. ASSUME NEW p \in Peers, handlePeerDisconnect(p) PROVE TypeOK'
  BY <1>2 DEF handlePeerDisconnect, TypeOK, Without
<1>3. ASSUME NEW p \in Peers, DisconnectThrows(p) PROVE TypeOK'
  <2>1. /\ sockets' \in [Peers -> 0..MaxSockets]
        /\ marked' = {}
        /\ reg' \in [Calls -> {Idle} \cup [at : {"put", "index"}, peer : Peers, resource : Resources]]
    BY <1>3 DEF DisconnectThrows
  <2>2. DOMAIN peerMap' = {} /\ DOMAIN resourceMap' = {}
    BY <1>3 DEF DisconnectThrows
  <2>3. doubled' \in BOOLEAN
    BY <1>3, Zenon DEF DisconnectThrows
  <2> QED BY <2>1, <2>2, <2>3 DEF TypeOK
<1>4. ASSUME NEW c \in Calls, RegisterChecks(c) PROVE TypeOK'
  <2>1. reg[c] \in [at : {"put", "index"}, peer : Peers, resource : Resources]
    BY <1>4 DEF TypeOK, Idle, RegisterChecks
  <2> QED BY <1>4, <2>1 DEF RegisterChecks, TypeOK
<1>5. ASSUME NEW c \in Calls, RegisterTakes(c) PROVE TypeOK'
  <2>1. reg[c].peer \in Peers /\ reg[c].resource \in Resources
    BY <1>5 DEF TypeOK, Idle, RegisterTakes
  <2>2. reg' \in [Calls -> {Idle} \cup [at : {"put", "index"}, peer : Peers, resource : Resources]]
    BY <1>5 DEF RegisterTakes, TypeOK
  <2>3. CASE reg[c].peer \notin DOMAIN peerMap
    BY <1>5, <2>2, <2>3 DEF RegisterTakes, TypeOK
  <2>4. CASE reg[c].peer \in DOMAIN peerMap
    <3> DEFINE new == [peer |-> reg[c].peer, reachable |-> TRUE]
    <3>1. /\ peerMap' = [peerMap EXCEPT ![reg[c].peer] = @ \cup {reg[c].resource}]
          /\ resourceMap' = With(resourceMap, reg[c].resource, new)
          /\ marked' = marked \cup {reg[c].resource}
          /\ sockets' = sockets /\ doubled' = doubled
      BY <1>5, <2>4 DEF RegisterTakes
    <3>2. new \in [peer : Peers, reachable : BOOLEAN]
      BY <2>1
    <3> HIDE DEF new
    <3>3. /\ DOMAIN resourceMap' \subseteq Resources
          /\ \A x \in DOMAIN resourceMap' : resourceMap'[x] \in [peer : Peers, reachable : BOOLEAN]
      BY <2>1, <3>1, <3>2 DEF TypeOK, With
    <3>4. /\ DOMAIN peerMap' \subseteq Peers
          /\ \A q \in DOMAIN peerMap' : peerMap'[q] \subseteq Resources
      BY <2>1, <3>1 DEF TypeOK
    <3> QED BY <2>1, <2>2, <3>1, <3>3, <3>4 DEF TypeOK
  <2> QED BY <2>3, <2>4
<1>6. ASSUME NEW c \in Calls, RegisterFails(c) PROVE TypeOK'
  BY <1>6 DEF RegisterFails, TypeOK
<1>7. ASSUME NEW p \in Peers, NEW r \in Resources, handleUnregisterResource(p, r)
      PROVE  TypeOK'
  BY <1>7 DEF handleUnregisterResource, TypeOK, Without
<1>8. ASSUME NEW c \in Calls, NEW p \in Peers, NEW r \in Resources, Register(c, p, r)
      PROVE  TypeOK'
  BY <1>8 DEF Register, TypeOK
<1>9. ASSUME NEW r \in Resources, NEW b \in BOOLEAN, markResourceReachable(r, b)
      PROVE  TypeOK'
  BY <1>9 DEF markResourceReachable, TypeOK
<1>10. CASE UNCHANGED vars
  BY <1>10 DEF vars, TypeOK
<1> QED BY <1>1, <1>2, <1>3, <1>4, <1>5, <1>6, <1>7, <1>8, <1>9, <1>10 DEF Next

\* The maps are well typed in every reachable state, however many sockets a
\* peer may have.
THEOREM TypeCorrect == Spec => []TypeOK
BY InitTypeOK, NextTypeOK, PTL DEF Spec

-----------------------------------------------------------------------------

\* While no peer has two sockets, every step keeps owners connected and listed,
\* up to the step that opens a second socket.
LEMMA NextAgree ==
  ASSUME TypeOK, TypeOK', OwnersConnected, OwnedIsListed, EntryIffSocket, [Next]_vars, ~doubled'
  PROVE  OwnersConnected' /\ OwnedIsListed' /\ EntryIffSocket'
<1>1. ASSUME NEW p \in Peers, handlePeerConnect(p)
      PROVE  OwnersConnected' /\ OwnedIsListed' /\ EntryIffSocket'
  <2>a. ~(doubled \/ sockets[p] > 0)
    BY <1>1, Zenon DEF handlePeerConnect
  <2>0. sockets[p] = 0 /\ p \notin DOMAIN peerMap
    BY <1>1, <2>a DEF TypeOK, EntryIffSocket
  <2>1. sockets' = [sockets EXCEPT ![p] = 1] /\ resourceMap' = resourceMap
    BY <1>1, <2>0 DEF handlePeerConnect
  <2>2. /\ DOMAIN peerMap' = DOMAIN peerMap \cup {p} /\ peerMap'[p] = {}
        /\ \A q \in DOMAIN peerMap : peerMap'[q] = peerMap[q]
    BY <1>1, <2>0 DEF handlePeerConnect, With
  <2>3. EntryIffSocket'
    BY <2>1, <2>2 DEF TypeOK, EntryIffSocket
  <2>4. Owned(p) = {}
    BY <2>0 DEF OwnersConnected, Owned
  <2> QED BY <2>1, <2>2, <2>3, <2>4 DEF OwnersConnected, OwnedIsListed, Owned
<1>2. ASSUME NEW p \in Peers, handlePeerDisconnect(p)
      PROVE  OwnersConnected' /\ OwnedIsListed' /\ EntryIffSocket'
  <2>0. sockets[p] = 1 /\ p \in DOMAIN peerMap
    BY <1>2 DEF handlePeerDisconnect, EntryIffSocket
  <2>1. sockets' = [sockets EXCEPT ![p] = 0]
    BY <1>2, <2>0 DEF handlePeerDisconnect
  <2>2. /\ DOMAIN peerMap' = DOMAIN peerMap \ {p}
        /\ \A q \in DOMAIN peerMap' : peerMap'[q] = peerMap[q]
    BY <1>2 DEF handlePeerDisconnect, Without
  <2>3. peerMap[p] \cap Owned(p) = Owned(p)
    BY <2>0 DEF OwnedIsListed
  <2>4. /\ DOMAIN resourceMap' = DOMAIN resourceMap \ Owned(p)
        /\ \A r \in DOMAIN resourceMap' : resourceMap'[r] = resourceMap[r]
    BY <1>2, <2>3 DEF handlePeerDisconnect, Without
  <2>5. EntryIffSocket'
    BY <2>1, <2>2 DEF TypeOK, EntryIffSocket
  <2> QED BY <2>2, <2>4, <2>5 DEF OwnersConnected, OwnedIsListed, Owned
<1>3. ASSUME NEW p \in Peers, DisconnectThrows(p) PROVE FALSE
  <2>1. sockets[p] > 0 /\ p \notin DOMAIN peerMap /\ sockets[p] \in Nat
    BY <1>3 DEF DisconnectThrows, TypeOK
  <2> QED BY <2>1 DEF EntryIffSocket
<1>4. ASSUME NEW c \in Calls, RegisterTakes(c)
      PROVE  OwnersConnected' /\ OwnedIsListed' /\ EntryIffSocket'
  <2> DEFINE p == reg[c].peer
             r == reg[c].resource
  <2>1. CASE p \notin DOMAIN peerMap
    BY <1>4, <2>1 DEF RegisterTakes, OwnersConnected, OwnedIsListed, EntryIffSocket, Owned
  <2>2. CASE p \in DOMAIN peerMap
    <3>1. /\ DOMAIN peerMap' = DOMAIN peerMap
          /\ peerMap'[p] = peerMap[p] \cup {r}
          /\ \A q \in DOMAIN peerMap : q # p => peerMap'[q] = peerMap[q]
          /\ sockets' = sockets
      BY <1>4, <2>2 DEF RegisterTakes
    <3>2. /\ DOMAIN resourceMap' = DOMAIN resourceMap \cup {r}
          /\ resourceMap'[r].peer = p
          /\ \A x \in DOMAIN resourceMap : x # r => resourceMap'[x] = resourceMap[x]
      BY <1>4, <2>2 DEF RegisterTakes, With
    <3> HIDE DEF p, r
    <3> QED BY <2>2, <3>1, <3>2 DEF OwnersConnected, OwnedIsListed, EntryIffSocket, Owned
  <2> QED BY <2>1, <2>2
<1>5. ASSUME NEW p \in Peers, NEW r \in Resources, handleUnregisterResource(p, r)
      PROVE  OwnersConnected' /\ OwnedIsListed' /\ EntryIffSocket'
  <2>1. /\ DOMAIN peerMap' = DOMAIN peerMap /\ p \in DOMAIN peerMap
        /\ peerMap'[p] = peerMap[p] \ {r}
        /\ \A q \in DOMAIN peerMap : q # p => peerMap'[q] = peerMap[q]
        /\ sockets' = sockets
    BY <1>5 DEF handleUnregisterResource
  <2>2. /\ DOMAIN resourceMap' = DOMAIN resourceMap \ {r}
        /\ \A x \in DOMAIN resourceMap' : resourceMap'[x] = resourceMap[x]
    BY <1>5 DEF handleUnregisterResource, Without
  <2> QED BY <2>1, <2>2 DEF OwnersConnected, OwnedIsListed, EntryIffSocket, Owned
<1>6. ASSUME NEW r \in Resources, NEW b \in BOOLEAN, markResourceReachable(r, b)
      PROVE  OwnersConnected' /\ OwnedIsListed' /\ EntryIffSocket'
  <2>1. /\ DOMAIN resourceMap' = DOMAIN resourceMap
        /\ \A x \in DOMAIN resourceMap : resourceMap'[x].peer = resourceMap[x].peer
        /\ peerMap' = peerMap /\ sockets' = sockets
    BY <1>6 DEF markResourceReachable, TypeOK
  <2> QED BY <2>1 DEF OwnersConnected, OwnedIsListed, EntryIffSocket, Owned
<1>7. CASE UNCHANGED <<sockets, peerMap, resourceMap>>
  BY <1>7 DEF OwnersConnected, OwnedIsListed, EntryIffSocket, Owned
<1> QED
  BY <1>1, <1>2, <1>3, <1>4, <1>5, <1>6, <1>7
     DEF Next, vars, RegisterChecks, RegisterFails, Register

\* The history variable is set for good, until the process restarts with maps
\* that agree trivially.
LEMMA DoubledStays ==
  ASSUME [Next]_vars, doubled, ~doubled', TypeOK'
  PROVE  OwnersConnected' /\ OwnedIsListed' /\ EntryIffSocket'
<1>1. PICK p \in Peers : DisconnectThrows(p)
  BY DEF Next, vars, handlePeerConnect, handlePeerDisconnect, RegisterChecks, RegisterTakes,
         RegisterFails, handleUnregisterResource, Register, markResourceReachable
<1> QED
  BY <1>1 DEF DisconnectThrows, OwnersConnected, OwnedIsListed, EntryIffSocket

\* DeviceJSCore, with any number of sockets per peer: the inductive invariant
\* holds whatever registrations are in progress when peers come and go.
THEOREM InvHolds == Spec => []Inv
<1>1. Init => Inv
  BY InitTypeOK DEF Init, Inv, OwnersConnected, OwnedIsListed, EntryIffSocket
<1>2. Inv /\ [Next]_vars => Inv'
  BY NextTypeOK, NextAgree, DoubledStays DEF Inv
<1> QED BY <1>1, <1>2, PTL DEF Spec

\* handlePeerDisconnect and the "Peer disconnected" check of
\* handleRegisterResource: no resource is left to a peer that is gone, unless a
\* peer reconnected before its old socket closed.
THEOREM OwnershipEnds == Spec => []OwnershipEndsWithConnection
<1>1. Inv => OwnershipEndsWithConnection
  BY DEF Inv, OwnershipEndsWithConnection
<1> QED BY InvHolds, <1>1, PTL

-----------------------------------------------------------------------------

\* Every step that changes the resource map tells the reachability map.
LEMMA NextMarks ==
  ASSUME TypeOK, MarksMatchResources, [Next]_vars
  PROVE  MarksMatchResources'
<1> USE DEF MarksMatchResources
<1>1. ASSUME NEW p \in Peers, handlePeerDisconnect(p) PROVE MarksMatchResources'
  <2> DEFINE gone == peerMap[p] \cap Owned(p)
  <2>1. /\ DOMAIN resourceMap' = DOMAIN resourceMap \ gone
        /\ \A r \in DOMAIN resourceMap' : resourceMap'[r] = resourceMap[r]
        /\ marked' = marked \ gone
    BY <1>1 DEF handlePeerDisconnect, Without
  <2> QED BY <2>1
<1>2. ASSUME NEW p \in Peers, DisconnectThrows(p) PROVE MarksMatchResources'
  BY <1>2 DEF DisconnectThrows
<1>3. ASSUME NEW c \in Calls, RegisterTakes(c) PROVE MarksMatchResources'
  <2> DEFINE r == reg[c].resource
  <2>1. CASE reg[c].peer \notin DOMAIN peerMap
    BY <1>3, <2>1 DEF RegisterTakes
  <2>2. CASE reg[c].peer \in DOMAIN peerMap
    <3>1. /\ DOMAIN resourceMap' = DOMAIN resourceMap \cup {r}
          /\ resourceMap'[r].reachable
          /\ \A x \in DOMAIN resourceMap : x # r => resourceMap'[x] = resourceMap[x]
          /\ marked' = marked \cup {r}
      BY <1>3, <2>2 DEF RegisterTakes, With
    <3> HIDE DEF r
    <3> QED BY <3>1
  <2> QED BY <2>1, <2>2
<1>4. ASSUME NEW p \in Peers, NEW r \in Resources, handleUnregisterResource(p, r)
      PROVE  MarksMatchResources'
  <2>1. /\ DOMAIN resourceMap' = DOMAIN resourceMap \ {r}
        /\ \A x \in DOMAIN resourceMap' : resourceMap'[x] = resourceMap[x]
        /\ marked' = marked \ {r}
    BY <1>4 DEF handleUnregisterResource, Without
  <2> QED BY <2>1
<1>5. ASSUME NEW r \in Resources, NEW b \in BOOLEAN, markResourceReachable(r, b)
      PROVE  MarksMatchResources'
  <2>1. /\ r \in DOMAIN resourceMap /\ DOMAIN resourceMap' = DOMAIN resourceMap
        /\ resourceMap'[r].reachable = b
        /\ \A x \in DOMAIN resourceMap : x # r => resourceMap'[x] = resourceMap[x]
        /\ marked' = IF b THEN marked \cup {r} ELSE marked \ {r}
    BY <1>5 DEF markResourceReachable, TypeOK
  <2> QED BY <2>1
<1>6. CASE UNCHANGED <<resourceMap, marked>>
  BY <1>6
<1> QED
  BY <1>1, <1>2, <1>3, <1>4, <1>5, <1>6
     DEF Next, vars, handlePeerConnect, RegisterChecks, RegisterFails, Register

\* DeviceJSCore tells the reachability map of every change, for any number of
\* sockets per peer: the resources marked reachable are those registered and
\* reachable.
THEOREM MarksHold == Spec => []MarksMatchResources
<1>1. Init => MarksMatchResources
  BY DEF Init, MarksMatchResources
<1>2. TypeOK /\ MarksMatchResources /\ [Next]_vars => MarksMatchResources'
  BY NextMarks
<1> QED BY <1>1, <1>2, TypeCorrect, PTL DEF Spec

-----------------------------------------------------------------------------
(* HTTPServer: owner records *)

UpdateType == {NoUpdate} \cup Getting \cup Looked \cup Putting

\* What one more write does to the sequence of writes.
LEMMA AppendFacts ==
  ASSUME OwnersTypeOK, NEW r \in Write, Len(written) + 1 \in Writes
  PROVE  LET w == Len(written) + 1
             next == Append(written, r)
         IN  /\ next \in Seq(Write) /\ Len(next) = w /\ w \in Nat
             /\ DOMAIN written = 1..Len(written)
             /\ DOMAIN next = DOMAIN written \cup {w}
             /\ w \notin DOMAIN written
             /\ next[w] = r
             /\ \A v \in DOMAIN written : next[v] = written[v]
BY DEF OwnersTypeOK

\* The kinds of updates are told apart by where they are.
LEMMA Kinds ==
  ASSUME OwnersTypeOK, NEW u \in Updates
  PROVE  /\ updates[u] \in UpdateType
         /\ updates[u].at = "get" => updates[u] \in Getting
         /\ updates[u].at = "looked" => updates[u] \in Looked
         /\ updates[u].at = "put" => updates[u] \in Putting
         /\ updates[u] = NoUpdate => updates[u].at = "idle"
BY DEF OwnersTypeOK, UpdateType, NoUpdate, Getting, Looked, Putting

\* What one change of an update leaves alone.
LEMMA OneUpdate ==
  ASSUME OwnersTypeOK, NEW c \in Updates, NEW x \in UpdateType,
         updates' = [updates EXCEPT ![c] = x]
  PROVE  /\ updates' \in [Updates -> UpdateType]
         /\ updates'[c] = x
         /\ \A u \in Updates : u # c => updates'[u] = updates[u]
BY DEF OwnersTypeOK, UpdateType

\* The replicas' and the updates' fields.
LEMMA Fields ==
  ASSUME OwnersTypeOK
  PROVE  /\ \A n \in Nodes : /\ store[n] \in Replica
                             /\ store[n].siblings \subseteq Writes /\ store[n].seen \subseteq Writes
         /\ \A w \in DOMAIN written : written[w] \in Write
         /\ Len(written) \in Nat /\ DOMAIN written = 1..Len(written)
BY DEF OwnersTypeOK, Replica

\* The owners that siblings name are nodes.
LEMMA OwnersAreNodes ==
  ASSUME OwnersTypeOK, NEW S, S \subseteq DOMAIN written
  PROVE  mergeOwnerSets(S) \subseteq Nodes
<1>1. \A w \in DOMAIN written : written[w].owners \subseteq Nodes
  <2>1. \A w \in DOMAIN written : written[w] \in Write
    BY Fields
  <2> QED BY <2>1 DEF Write
<1> QED BY <1>1 DEF mergeOwnerSets

-----------------------------------------------------------------------------
(* What each step that changes one update puts in its place *)

LEMMA BeginType ==
  ASSUME OwnersTypeOK, NEW c \in Updates, NEW n \in Nodes,
         NEW op \in {"add", "remove", "sweep", "lookup"}, Begin(c, n, op)
  PROVE  LET x == [at |-> "get", node |-> n, op |-> op]
         IN  x \in Getting /\ x \in UpdateType /\ updates' = [updates EXCEPT ![c] = x]
BY DEF Begin, Getting, UpdateType

LEMMA DecideType ==
  ASSUME OwnersTypeOK, NEW c \in Updates, Decide(c)
  PROVE  \E x \in {NoUpdate} \cup Getting :
           /\ updates' = [updates EXCEPT ![c] = x]
           /\ x # NoUpdate => /\ x.op = "sweep" /\ x.node = updates[c].node
                              /\ updates[c].node \notin controlled
<1> DEFINE u == updates[c]
           x == IF u.node \in u.owners \ controlled
                  THEN [at |-> "get", node |-> u.node, op |-> "sweep"] ELSE NoUpdate
<1>1. u \in Looked
  BY Kinds DEF Decide
<1>2. updates' = [updates EXCEPT ![c] = x]
  BY DEF Decide, OwnersTypeOK
<1>3. x \in {NoUpdate} \cup Getting
  BY <1>1 DEF Looked, Getting
<1>4. x # NoUpdate => x.op = "sweep" /\ x.node = u.node /\ u.node \notin controlled
  OBVIOUS
<1> QED BY <1>2, <1>3, <1>4

LEMMA GetRecordType ==
  ASSUME OwnersTypeOK, SeenIsClosed, NEW c \in Updates, GetRecord(c)
  PROVE  \E x \in {NoUpdate} \cup Looked \cup Putting :
           /\ updates' = [updates EXCEPT ![c] = x]
           /\ x = NoUpdate => updates[c].op = "sweep"
           /\ x # NoUpdate => x.node = updates[c].node /\ x.op = updates[c].op
           /\ x # NoUpdate /\ x.at = "put" =>
                /\ x.context = store[x.node].seen
                /\ x.owners = Update(x.op, mergeOwnerSets(store[x.node].siblings), x.node)
<1> DEFINE u == updates[c]
           here == store[u.node]
           owners == mergeOwnerSets(here.siblings)
           looked == [at |-> "looked", node |-> u.node, op |-> "lookup", owners |-> owners]
           put == [at |-> "put", node |-> u.node, op |-> u.op,
                   owners |-> Update(u.op, owners, u.node), context |-> here.seen]
<1>1. u \in Getting /\ u.node \in Nodes
  BY Kinds DEF GetRecord, Getting
<1>2. owners \subseteq Nodes
  BY <1>1, OwnersAreNodes, Fields DEF SeenIsClosed
<1>3. looked \in Looked
  BY <1>1, <1>2 DEF Looked
<1>4. u.op # "lookup" => put \in Putting
  BY <1>1, <1>2, Fields DEF Putting, Update, Getting
<1>5. \/ u.op = "lookup" /\ updates' = [updates EXCEPT ![c] = looked]
      \/ u.op = "sweep" /\ updates' = [updates EXCEPT ![c] = NoUpdate]
      \/ u.op # "lookup" /\ updates' = [updates EXCEPT ![c] = put]
  BY DEF GetRecord
<1>6. looked # NoUpdate /\ looked.at = "looked" /\ put # NoUpdate
  BY DEF NoUpdate
<1>7. CASE u.op = "lookup" /\ updates' = [updates EXCEPT ![c] = looked]
  <2> looked \in Looked
    BY <1>3
  <2> WITNESS looked \in {NoUpdate} \cup Looked \cup Putting
  <2> QED BY <1>6, <1>7
<1>8. CASE u.op = "sweep" /\ updates' = [updates EXCEPT ![c] = NoUpdate]
  BY <1>8
<1>9. CASE u.op # "lookup" /\ updates' = [updates EXCEPT ![c] = put]
  <2> put \in Putting
    BY <1>4, <1>9
  <2> WITNESS put \in {NoUpdate} \cup Looked \cup Putting
  <2> QED BY <1>6, <1>9
<1> QED BY <1>3, <1>5, <1>7, <1>8, <1>9

LEMMA GetFailsType ==
  ASSUME OwnersTypeOK, NEW c \in Updates, GetFails(c)
  PROVE  \E x \in {NoUpdate} \cup Putting :
           /\ updates' = [updates EXCEPT ![c] = x]
           /\ x = NoUpdate => updates[c].op \in {"lookup", "sweep"}
           /\ x # NoUpdate => x.node = updates[c].node /\ x.op = updates[c].op
           /\ x # NoUpdate => x.context = {} /\ x.owners = Update(x.op, {}, x.node)
<1> DEFINE u == updates[c]
           put == [at |-> "put", node |-> u.node, op |-> u.op,
                   owners |-> Update(u.op, {}, u.node), context |-> {}]
<1>1. u \in Getting
  BY Kinds DEF GetFails
<1>2. u.op \notin {"lookup", "sweep"} => put \in Putting
  BY <1>1 DEF Putting, Update, Getting
<1>3. \/ u.op \in {"lookup", "sweep"} /\ updates' = [updates EXCEPT ![c] = NoUpdate]
      \/ u.op \notin {"lookup", "sweep"} /\ updates' = [updates EXCEPT ![c] = put]
  BY DEF GetFails
<1>4. put # NoUpdate
  BY DEF NoUpdate
<1>5. CASE u.op \in {"lookup", "sweep"} /\ updates' = [updates EXCEPT ![c] = NoUpdate]
  BY <1>5
<1>6. CASE u.op \notin {"lookup", "sweep"} /\ updates' = [updates EXCEPT ![c] = put]
  <2> put \in Putting
    BY <1>2, <1>6
  <2> WITNESS put \in {NoUpdate} \cup Putting
  <2> QED BY <1>4, <1>6
<1> QED BY <1>3, <1>5, <1>6

\* A number that is at least as far below n as another one is at most that one.
LEMMA LessAway ==
  ASSUME NEW n \in Nat
  PROVE  \A k, m \in 0..n : ~(n - k < n - m) => k <= m
OBVIOUS

\* A set of numbers up to n has a greatest one.
LEMMA GreatestExists ==
  ASSUME NEW n \in Nat, NEW S \in SUBSET (0..n), S # {}
  PROVE  \E m \in S : \A k \in S : k <= m
<1> DEFINE R == OpToRel(<, Nat)
           D == {n - k : k \in S}
<1> HIDE DEF R
<1>1. D \in SUBSET Nat /\ D # {}
  <2>1. \A k \in S : k \in Nat /\ n - k \in Nat
    OBVIOUS
  <2>2. D \subseteq Nat
    BY <2>1
  <2>3. PICK k \in S : TRUE
    OBVIOUS
  <2>4. n - k \in D
    OBVIOUS
  <2> QED BY <2>2, <2>4
<1>2. PICK d \in D : \A e \in D : <<e, d>> \notin R
  <2> HIDE DEF D
  <2>1. IsWellFoundedOn(R, Nat)
    BY NatLessThanWellFounded DEF R
  <2> QED BY <1>1, <2>1, WFMin
<1>3. PICK m \in S : d = n - m
  OBVIOUS
<1>4. ASSUME NEW k \in S PROVE k <= m
  <2>1. <<n - k, d>> \notin R
    BY <1>2
  <2>2. ~(n - k < n - m)
    BY <1>3, <2>1 DEF OpToRel, R
  <2>3. k \in 0..n /\ m \in 0..n
    OBVIOUS
  <2> QED BY <2>2, <2>3, LessAway
<1> QED BY <1>4

-----------------------------------------------------------------------------
(* Steps that write nothing *)

\* Nothing is written, and what is about to be written is as before, or was
\* made of nothing, or of what its node's replica has.
QuietStep ==
  /\ written' = written /\ store' = store
  /\ \A u \in Updates : updates'[u].at = "put" =>
       \/ updates'[u] = updates[u]
       \/ /\ updates[u] # NoUpdate
          /\ updates'[u].node = updates[u].node /\ updates'[u].op = updates[u].op
          /\ \/ /\ updates'[u].context = {}
                /\ updates'[u].owners = Update(updates[u].op, {}, updates[u].node)
             \/ /\ updates'[u].context = store[updates[u].node].seen
                /\ updates'[u].owners =
                     Update(updates[u].op, mergeOwnerSets(store[updates[u].node].siblings), updates[u].node)

\* Nobody new becomes a controller who must be named, except by an update that
\* is not through yet.
SameControllers ==
  \A n \in controlled' \ spoiled' :
    /\ Pending(n, {"remove", "sweep"})' = {}
    /\ Pending(n, {"add"})' = {} => n \in controlled \ spoiled /\ Pending(n, {"add"}) = {}

LEMMA QuietClosed ==
  ASSUME OwnersTypeOK, OwnersTypeOK', SeenIsClosed, QuietStep
  PROVE  SeenIsClosed'
<1>1. ASSUME NEW u \in Updates, updates'[u].at = "put"
      PROVE  /\ updates'[u].context \subseteq store[updates'[u].node].seen
             /\ \A w \in updates'[u].context : written[w].context \subseteq updates'[u].context
  <2>1. CASE updates'[u] = updates[u]
    BY <1>1, <2>1 DEF SeenIsClosed
  <2>2. CASE updates'[u].context = {}
    BY <2>2
  <2>3. CASE /\ updates'[u].node = updates[u].node
             /\ updates'[u].context = store[updates[u].node].seen
    <3>1. updates'[u].node \in Nodes
      BY <1>1 DEF OwnersTypeOK, NoUpdate, Getting, Looked, Putting
    <3> QED BY <2>3, <3>1 DEF SeenIsClosed
  <2> QED BY <1>1, <2>1, <2>2, <2>3 DEF QuietStep
<1> QED BY <1>1 DEF SeenIsClosed, QuietStep

LEMMA QuietSucceeded ==
  ASSUME SeenIsSucceeded, QuietStep
  PROVE  SeenIsSucceeded'
BY DEF SeenIsSucceeded, Follows, QuietStep

LEMMA QuietAdds ==
  ASSUME AddsNameTheirNode, QuietStep
  PROVE  AddsNameTheirNode'
<1> SUFFICES ASSUME NEW u \in Updates, updates'[u].at = "put", updates'[u].op = "add"
             PROVE  updates'[u].node \in updates'[u].owners
  BY DEF AddsNameTheirNode
<1>1. CASE updates'[u] = updates[u]
  BY <1>1 DEF AddsNameTheirNode
<1>2. CASE updates'[u] # updates[u]
  BY <1>2 DEF QuietStep, Update
<1> QED BY <1>1, <1>2

\* What a node's replica has names whoever is remembered in it.
LEMMA SiblingsRemember ==
  ASSUME OwnersTypeOK, SeenIsClosed, SeenIsSucceeded,
         NEW n, NEW m \in Nodes, NEW w \in store[m].seen, Remembered(n, w)
  PROVE  n \in mergeOwnerSets(store[m].siblings)
<1>1. PICK s \in store[m].siblings : Follows(s, w)
  BY DEF SeenIsSucceeded
<1>2. s \in DOMAIN written
  BY DEF SeenIsClosed
<1>3. n \in written[s].owners
  BY <1>1, <1>2 DEF Remembered
<1> QED BY <1>3 DEF mergeOwnerSets

LEMMA QuietRemembered ==
  ASSUME OwnersTypeOK, OwnersTypeOK', SeenIsClosed, SeenIsSucceeded, QuietStep,
         NEW n \in Nodes, NEW w, Remembered(n, w),
         Pending(n, {"remove", "sweep"}) = {}, Pending(n, {"add"}) = {}
  PROVE  Remembered(n, w)'
<1>1. ASSUME NEW u \in Updates, updates'[u].at = "put", w \in updates'[u].context
      PROVE  n \in updates'[u].owners
  <2>1. CASE updates'[u] = updates[u]
    BY <1>1, <2>1 DEF Remembered
  <2>2. CASE updates'[u] # updates[u]
    <3> DEFINE m == updates[u].node
    <3>1. /\ updates[u] # NoUpdate /\ w \in store[m].seen
          /\ updates'[u].owners = Update(updates[u].op, mergeOwnerSets(store[m].siblings), m)
      BY <1>1, <2>2 DEF QuietStep
    <3>2. m \in Nodes /\ updates[u].op \in {"add", "remove", "sweep", "lookup"}
      BY <3>1 DEF OwnersTypeOK, Getting, Looked, Putting
    <3>3. n \in mergeOwnerSets(store[m].siblings)
      BY <3>1, <3>2, SiblingsRemember
    <3>4. m = n => updates[u].op = "lookup"
      BY <3>1, <3>2 DEF Pending
    <3>5. updates'[u].op # "lookup" /\ updates'[u].op = updates[u].op
      BY <1>1, <2>2 DEF QuietStep, OwnersTypeOK, NoUpdate, Getting, Looked, Putting
    <3> QED BY <3>1, <3>3, <3>4, <3>5 DEF Update
  <2> QED BY <2>1, <2>2
<1> QED BY <1>1 DEF Remembered, Follows, QuietStep

LEMMA QuietController ==
  ASSUME OwnersInv, OwnersTypeOK', QuietStep, SameControllers
  PROVE  ControllerIsRemembered'
<1> SUFFICES ASSUME NEW n \in controlled' \ spoiled', Pending(n, {"add"})' = {}
             PROVE  \E w \in store'[n].seen : Remembered(n, w)'
  BY DEF ControllerIsRemembered, SameControllers
<1>1. n \in controlled \ spoiled /\ Pending(n, {"add"}) = {} /\ n \in Nodes
  BY DEF SameControllers, OwnersTypeOK
<1>2. Pending(n, {"remove", "sweep"}) = {}
  BY <1>1, OwnersInv DEF OwnersInv, ControllerIsRemembered
<1>3. PICK w \in store[n].seen : Remembered(n, w)
  BY <1>1, OwnersInv DEF OwnersInv, ControllerIsRemembered
<1>4. Remembered(n, w)'
  BY <1>1, <1>2, <1>3, QuietRemembered DEF OwnersInv
<1> QED BY <1>3, <1>4 DEF QuietStep

LEMMA QuietInv ==
  ASSUME OwnersInv, OwnersTypeOK', QuietStep, SameControllers
  PROVE  OwnersInv'
BY QuietClosed, QuietSucceeded, QuietAdds, QuietController DEF OwnersInv

\* A change of one update that is not about to write is quiet.
LEMMA OneQuiet ==
  ASSUME OwnersTypeOK, NEW c \in Updates, NEW x \in UpdateType,
         updates' = [updates EXCEPT ![c] = x], UNCHANGED <<written, store>>,
         x = NoUpdate \/ x \in Getting \/ x \in Looked
  PROVE  QuietStep
<1>1. x.at # "put"
  BY DEF NoUpdate, Getting, Looked
<1> QED BY <1>1, OneUpdate DEF QuietStep

LEMMA RegisterInv ==
  ASSUME OwnersInv, NEW c \in Updates, NEW n \in Nodes, register(c, n)
  PROVE  OwnersInv'
<1> DEFINE x == [at |-> "get", node |-> n, op |-> "add"]
<1>1. OwnersTypeOK /\ x \in Getting /\ x \in UpdateType /\ updates' = [updates EXCEPT ![c] = x]
  BY BeginType DEF OwnersInv, register
<1>2. /\ updates' \in [Updates -> UpdateType] /\ updates'[c] = x
      /\ \A u \in Updates : u # c => updates'[u] = updates[u]
  BY <1>1, OneUpdate
<1>3. OwnersTypeOK'
  BY <1>1, <1>2 DEF register, OwnersTypeOK, UpdateType
<1>4. QuietStep
  BY <1>1, OneQuiet DEF register
<1>5. SameControllers
  <2> SUFFICES ASSUME NEW m \in controlled' \ spoiled'
               PROVE  /\ Pending(m, {"remove", "sweep"})' = {}
                      /\ Pending(m, {"add"})' = {} => m \in controlled \ spoiled /\ Pending(m, {"add"}) = {}
    BY DEF SameControllers
  <2>1. CASE m = n
    <3>1. Pending(n, {"remove", "sweep"}) = {}
      BY <2>1 DEF register
    <3>2. c \in Pending(n, {"add"})'
      BY <1>2 DEF Pending, NoUpdate
    <3> QED BY <1>2, <2>1, <3>1, <3>2 DEF Pending
  <2>2. CASE m # n
    <3>1. m \in controlled \ spoiled
      BY <2>2 DEF register
    <3>2. Pending(m, {"remove", "sweep"}) = {}
      BY <3>1 DEF OwnersInv, ControllerIsRemembered
    <3>3. updates[c] = NoUpdate
      BY DEF register, Begin
    <3> QED BY <1>2, <2>2, <3>1, <3>2, <3>3 DEF Pending
  <2> QED BY <2>1, <2>2
<1> QED BY <1>3, <1>4, <1>5, QuietInv

\* One update changes: no removal of a controller begins, and no registration
\* of one is dropped.
LEMMA OneSame ==
  ASSUME OwnersInv, NEW c \in Updates, NEW x \in UpdateType, updates' = [updates EXCEPT ![c] = x],
         controlled' \ spoiled' \subseteq controlled \ spoiled,
         x # NoUpdate /\ x.op \in {"remove", "sweep"} /\ x.node \in controlled' \ spoiled'
           => updates[c] # NoUpdate /\ updates[c].op = x.op /\ updates[c].node = x.node,
         updates[c] # NoUpdate /\ updates[c].op = "add" /\ updates[c].node \in controlled' \ spoiled'
           => x # NoUpdate /\ x.op = "add" /\ x.node = updates[c].node
  PROVE  SameControllers
<1> SUFFICES ASSUME NEW m \in controlled' \ spoiled'
             PROVE  /\ Pending(m, {"remove", "sweep"})' = {}
                    /\ Pending(m, {"add"})' = {} => m \in controlled \ spoiled /\ Pending(m, {"add"}) = {}
  BY DEF SameControllers
<1>1. /\ updates'[c] = x
      /\ \A u \in Updates : u # c => updates'[u] = updates[u]
  BY OneUpdate DEF OwnersInv
<1>2. m \in controlled \ spoiled /\ Pending(m, {"remove", "sweep"}) = {}
  BY DEF OwnersInv, ControllerIsRemembered
<1>3. Pending(m, {"remove", "sweep"})' = {}
  BY <1>1, <1>2 DEF Pending
<1>4. Pending(m, {"add"})' = {} => Pending(m, {"add"}) = {}
  BY <1>1 DEF Pending
<1> QED BY <1>2, <1>3, <1>4

LEMMA OneType ==
  ASSUME OwnersTypeOK, NEW c \in Updates, NEW x \in UpdateType, updates' = [updates EXCEPT ![c] = x],
         UNCHANGED <<written, store>>, controlled' \subseteq Nodes, spoiled' \subseteq Nodes
  PROVE  OwnersTypeOK'
<1>1. updates' \in [Updates -> UpdateType]
  BY OneUpdate
<1> QED BY <1>1 DEF OwnersTypeOK, UpdateType

LEMMA BeginInv ==
  ASSUME OwnersInv, NEW c \in Updates, NEW n \in Nodes, unregister(c, n) \/ Lookup(c, n)
  PROVE  OwnersInv'
<1>1. PICK op \in {"remove", "lookup"} :
        /\ Begin(c, n, op) /\ UNCHANGED <<written, store, spoiled>>
        /\ controlled' \subseteq controlled
        /\ op = "remove" => n \notin controlled'
  BY DEF unregister, Lookup
<1> DEFINE x == [at |-> "get", node |-> n, op |-> op]
<1>2. OwnersTypeOK /\ x \in Getting /\ x \in UpdateType /\ updates' = [updates EXCEPT ![c] = x]
  BY <1>1 DEF OwnersInv, Begin, Getting, UpdateType
<1>3. OwnersTypeOK'
  BY <1>1, <1>2, OneType DEF OwnersTypeOK
<1>4. QuietStep
  BY <1>1, <1>2, OneQuiet
<1>5. updates[c] = NoUpdate
  BY <1>1 DEF Begin
<1>6. SameControllers
  BY <1>1, <1>2, <1>5, OneSame
<1> QED BY <1>3, <1>4, <1>6, QuietInv

LEMMA DisconnectInv ==
  ASSUME OwnersInv, NEW n \in Nodes, Disconnect(n)
  PROVE  OwnersInv'
<1>1. OwnersTypeOK' /\ QuietStep
  BY DEF Disconnect, OwnersInv, OwnersTypeOK, QuietStep
<1>2. SameControllers
  BY DEF Disconnect, OwnersInv, ControllerIsRemembered, SameControllers, Pending
<1> QED BY <1>1, <1>2, QuietInv

LEMMA DecideInv ==
  ASSUME OwnersInv, NEW c \in Updates, Decide(c)
  PROVE  OwnersInv'
<1>1. PICK x \in {NoUpdate} \cup Getting :
        /\ updates' = [updates EXCEPT ![c] = x]
        /\ x # NoUpdate => /\ x.op = "sweep" /\ x.node = updates[c].node
                           /\ updates[c].node \notin controlled
  BY DecideType DEF OwnersInv
<1>2. x \in UpdateType /\ OwnersTypeOK /\ UNCHANGED <<controlled, written, store, spoiled>>
  BY DEF UpdateType, OwnersInv, Decide
<1>3. OwnersTypeOK'
  BY <1>1, <1>2, OneType DEF OwnersTypeOK
<1>4. QuietStep
  BY <1>1, <1>2, OneQuiet
<1>5. updates[c].op = "lookup"
  BY <1>2, Kinds DEF Decide, Looked
<1>6. SameControllers
  BY <1>1, <1>2, <1>5, OneSame
<1> QED BY <1>3, <1>4, <1>6, QuietInv

LEMMA GetRecordInv ==
  ASSUME OwnersInv, NEW c \in Updates, GetRecord(c)
  PROVE  OwnersInv'
<1>1. PICK x \in {NoUpdate} \cup Looked \cup Putting :
        /\ updates' = [updates EXCEPT ![c] = x]
        /\ x = NoUpdate => updates[c].op = "sweep"
        /\ x # NoUpdate => x.node = updates[c].node /\ x.op = updates[c].op
        /\ x # NoUpdate /\ x.at = "put" =>
             /\ x.context = store[x.node].seen
             /\ x.owners = Update(x.op, mergeOwnerSets(store[x.node].siblings), x.node)
  BY GetRecordType DEF OwnersInv
<1>2. x \in UpdateType /\ OwnersTypeOK /\ UNCHANGED <<controlled, written, store, spoiled>>
  BY DEF UpdateType, OwnersInv, GetRecord
<1>3. OwnersTypeOK'
  BY <1>1, <1>2, OneType DEF OwnersTypeOK
<1>4. updates[c] # NoUpdate /\ updates[c].at = "get"
  BY DEF GetRecord, NoUpdate
<1>5. QuietStep
  <2>1. /\ updates'[c] = x
        /\ \A u \in Updates : u # c => updates'[u] = updates[u]
    BY <1>1, <1>2, OneUpdate
  <2>2. x.at = "put" => x # NoUpdate
    BY DEF NoUpdate
  <2> QED BY <1>1, <1>2, <1>4, <2>1, <2>2 DEF QuietStep
<1>6. SameControllers
  BY <1>1, <1>2, <1>4, OneSame
<1> QED BY <1>3, <1>5, <1>6, QuietInv

LEMMA GetFailsInv ==
  ASSUME OwnersInv, NEW c \in Updates, GetFails(c)
  PROVE  OwnersInv'
<1>1. PICK x \in {NoUpdate} \cup Putting :
        /\ updates' = [updates EXCEPT ![c] = x]
        /\ x = NoUpdate => updates[c].op \in {"lookup", "sweep"}
        /\ x # NoUpdate => x.node = updates[c].node /\ x.op = updates[c].op
        /\ x # NoUpdate => x.context = {} /\ x.owners = Update(x.op, {}, x.node)
  BY GetFailsType DEF OwnersInv
<1>2. x \in UpdateType /\ OwnersTypeOK /\ UNCHANGED <<controlled, written, store, spoiled>>
  BY DEF UpdateType, OwnersInv, GetFails
<1>3. OwnersTypeOK'
  BY <1>1, <1>2, OneType DEF OwnersTypeOK
<1>4. updates[c] # NoUpdate /\ updates[c].at = "get"
  BY DEF GetFails, NoUpdate
<1>5. QuietStep
  <2>1. /\ updates'[c] = x
        /\ \A u \in Updates : u # c => updates'[u] = updates[u]
    BY <1>1, <1>2, OneUpdate
  <2>2. x.at = "put" => x # NoUpdate
    BY DEF NoUpdate
  <2> QED BY <1>1, <1>2, <1>4, <2>1, <2>2 DEF QuietStep
<1>6. SameControllers
  BY <1>1, <1>2, <1>4, OneSame
<1> QED BY <1>3, <1>5, <1>6, QuietInv

LEMMA NoPutInv ==
  ASSUME OwnersInv, NEW c \in Updates, PutFails(c), UNCHANGED <<written, store, controlled>>,
         updates' = [updates EXCEPT ![c] = NoUpdate]
  PROVE  OwnersInv'
<1>1. /\ NoUpdate \in UpdateType /\ updates' = [updates EXCEPT ![c] = NoUpdate]
      /\ UNCHANGED <<controlled, written, store>> /\ spoiled' = spoiled \cup {updates[c].node}
  BY DEF PutFails, UpdateType
<1>2. OwnersTypeOK /\ updates[c].node \in Nodes
  BY Kinds DEF OwnersInv, PutFails, Putting
<1>3. OwnersTypeOK'
  BY <1>1, <1>2, OneType DEF OwnersTypeOK
<1>4. QuietStep
  BY <1>1, <1>2, OneQuiet
<1>5. SameControllers
  BY <1>1, OneSame
<1> QED BY <1>3, <1>4, <1>5, QuietInv

LEMMA RestartInv ==
  ASSUME OwnersInv, NEW n \in Nodes, Restart(n)
  PROVE  OwnersInv'
<1>1. /\ controlled' = controlled \ {n} /\ UNCHANGED <<written, store, spoiled>>
      /\ \A c \in Updates : updates'[c] = IF updates[c] # NoUpdate /\ updates[c].node = n THEN NoUpdate ELSE updates[c]
      /\ updates' = [c \in Updates |-> updates'[c]]
  BY DEF Restart
<1>2. updates' \in [Updates -> UpdateType]
  BY <1>1 DEF OwnersInv, OwnersTypeOK, UpdateType
<1>3. OwnersTypeOK'
  BY <1>1, <1>2 DEF OwnersInv, OwnersTypeOK, UpdateType
<1>4. QuietStep
  BY <1>1 DEF QuietStep, NoUpdate
<1>5. SameControllers
  <2> SUFFICES ASSUME NEW m \in controlled' \ spoiled'
               PROVE  /\ Pending(m, {"remove", "sweep"})' = {}
                      /\ Pending(m, {"add"})' = {} => m \in controlled \ spoiled /\ Pending(m, {"add"}) = {}
    BY DEF SameControllers
  <2>1. m # n /\ m \in controlled \ spoiled /\ Pending(m, {"remove", "sweep"}) = {}
    BY <1>1 DEF OwnersInv, ControllerIsRemembered
  <2> QED BY <1>1, <2>1 DEF Pending
<1> QED BY <1>3, <1>4, <1>5, QuietInv

-----------------------------------------------------------------------------
(* Writing the record *)

LEMMA PutInv ==
  ASSUME OwnersInv, NEW c \in Updates, Put(c), spoiled' \in {spoiled, spoiled \cup {updates[c].node}}
  PROVE  OwnersInv'
<1> PICK w : w = Len(written) + 1
  OBVIOUS
<1> DEFINE call == updates[c]
           n0 == call.node
           r == [owners |-> call.owners, context |-> call.context]
           here == [siblings |-> (store[n0].siblings \ call.context) \cup {w}, seen |-> store[n0].seen \cup {w}]
<1>1. /\ OwnersTypeOK /\ SeenIsClosed /\ SeenIsSucceeded /\ AddsNameTheirNode /\ ControllerIsRemembered
  BY DEF OwnersInv
<1>2. call \in Putting /\ n0 \in Nodes /\ r \in Write /\ w \in Writes /\ call # NoUpdate
  <2>1. call \in Putting /\ w \in Writes
    BY <1>1, Kinds DEF Put
  <2> QED BY <2>1 DEF Putting, Write, NoUpdate
<1>3. /\ written' = Append(written, r)
      /\ store' = [store EXCEPT ![n0] = here]
      /\ updates' = [updates EXCEPT ![c] = NoUpdate]
      /\ UNCHANGED controlled /\ spoiled \subseteq spoiled'
  BY DEF Put
<1>4. /\ written' \in Seq(Write) /\ Len(written') = w /\ w \in Nat
      /\ DOMAIN written = 1..Len(written)
      /\ DOMAIN written' = DOMAIN written \cup {w}
      /\ w \notin DOMAIN written
      /\ written'[w] = r
      /\ \A v \in DOMAIN written : written'[v] = written[v]
  BY <1>1, <1>2, <1>3, AppendFacts
<1>5. /\ store'[n0] = here
      /\ \A m \in Nodes : m # n0 => store'[m] = store[m]
  BY <1>1, <1>2, <1>3 DEF OwnersTypeOK
<1>6. /\ updates' \in [Updates -> UpdateType] /\ updates'[c] = NoUpdate
      /\ \A u \in Updates : u # c => updates'[u] = updates[u]
  BY <1>1, <1>3, OneUpdate DEF UpdateType
<1>7. OwnersTypeOK'
  <2>1. here \in Replica
    BY <1>1, <1>2, Fields DEF Replica
  <2>2. store' \in [Nodes -> Replica]
    BY <1>1, <1>3, <2>1 DEF OwnersTypeOK
  <2>3. Len(written') <= MaxWrites
    BY <1>2, <1>4, MaxWritesAssumption DEF Writes
  <2>4. spoiled' \subseteq Nodes
    BY <1>1, <1>2 DEF OwnersTypeOK
  <2> QED BY <1>1, <1>3, <1>4, <1>6, <2>2, <2>3, <2>4 DEF OwnersTypeOK, UpdateType
<1> HIDE DEF here, r, n0, call
\* What the call read is part of what its node has seen, with all before it.
<1>8. /\ call.context \subseteq store[n0].seen /\ store[n0].seen \subseteq DOMAIN written
      /\ \A v \in call.context : written[v].context \subseteq call.context
  BY <1>1, <1>2 DEF SeenIsClosed, call, n0, Putting
<1>9. r.owners = call.owners /\ r.context = call.context
      /\ here.siblings = (store[n0].siblings \ call.context) \cup {w} /\ here.seen = store[n0].seen \cup {w}
  BY DEF r, here
<1>10. SeenIsClosed'
  <2>1. \A v \in DOMAIN written' : written'[v].context \subseteq 1..(v - 1)
    <3>1. call.context \subseteq 1..(w - 1)
      BY <1>4, <1>8
    <3> QED BY <1>1, <1>4, <1>9, <3>1 DEF SeenIsClosed
  <2>2. \A v \in DOMAIN written' : \A x \in written'[v].context : written'[x].context \subseteq written'[v].context
    <3>1. \A v \in DOMAIN written : written[v].context \subseteq DOMAIN written
      BY <1>1, <1>4 DEF SeenIsClosed
    <3> QED BY <1>1, <1>4, <1>8, <1>9, <3>1 DEF SeenIsClosed
  <2>3. \A m \in Nodes : /\ store'[m].siblings \subseteq store'[m].seen
                         /\ store'[m].seen \subseteq DOMAIN written'
                         /\ \A x \in store'[m].seen : written'[x].context \subseteq store'[m].seen
    <3> SUFFICES ASSUME NEW m \in Nodes
                 PROVE  /\ store'[m].siblings \subseteq store'[m].seen
                        /\ store'[m].seen \subseteq DOMAIN written'
                        /\ \A x \in store'[m].seen : written'[x].context \subseteq store'[m].seen
      OBVIOUS
    <3>1. CASE m = n0
      BY <1>1, <1>2, <1>4, <1>5, <1>8, <1>9, <3>1 DEF SeenIsClosed
    <3>2. CASE m # n0
      BY <1>1, <1>4, <1>5, <3>2 DEF SeenIsClosed
    <3> QED BY <3>1, <3>2
  <2>4. ASSUME NEW u \in Updates, updates'[u].at = "put"
        PROVE  /\ updates'[u].context \subseteq store'[updates'[u].node].seen
               /\ \A x \in updates'[u].context : written'[x].context \subseteq updates'[u].context
    <3>1. updates'[u] = updates[u] /\ updates[u].at = "put"
      BY <1>6, <2>4 DEF NoUpdate
    <3>2. updates[u].node \in Nodes
      BY <1>1, <3>1, Kinds DEF Putting
    <3>3. /\ updates[u].context \subseteq store[updates[u].node].seen
          /\ store[updates[u].node].seen \subseteq DOMAIN written
          /\ \A x \in updates[u].context : written[x].context \subseteq updates[u].context
      BY <1>1, <3>1, <3>2 DEF SeenIsClosed
    <3>4. store[updates[u].node].seen \subseteq store'[updates[u].node].seen
      BY <1>5, <1>9, <3>2
    <3> QED BY <1>4, <3>1, <3>3, <3>4
  <2> QED BY <2>1, <2>2, <2>3, <2>4 DEF SeenIsClosed
\* Who followed an old write still does; what follows the new one is new.
<1>11. \A s, v \in DOMAIN written : Follows(s, v)' <=> Follows(s, v)
  BY <1>4 DEF Follows
<1>12. \A v : Follows(w, v)' <=> v = w \/ v \in call.context
  BY <1>4, <1>9 DEF Follows
<1>13. \A s \in DOMAIN written : ~Follows(s, w)'
  <2>1. \A s \in DOMAIN written : written[s].context \subseteq DOMAIN written
    BY <1>1, <1>4 DEF SeenIsClosed
  <2> QED BY <1>4, <2>1 DEF Follows
<1>14. SeenIsSucceeded'
  <2> SUFFICES ASSUME NEW m \in Nodes, NEW v \in store'[m].seen
               PROVE  \E s \in store'[m].siblings : Follows(s, v)'
    BY DEF SeenIsSucceeded
  <2>1. store[m].seen \subseteq DOMAIN written /\ store[m].siblings \subseteq DOMAIN written
    BY <1>1 DEF SeenIsClosed
  <2>2. CASE m # n0
    BY <1>1, <1>5, <1>11, <2>1, <2>2 DEF SeenIsSucceeded
  <2>3. CASE m = n0 /\ v = w
    BY <1>5, <1>9, <1>12, <2>3
  <2>4. CASE m = n0 /\ v # w
    <3>1. v \in store[n0].seen
      BY <1>5, <1>9, <2>4
    <3>2. PICK s \in store[n0].siblings : Follows(s, v)
      BY <1>1, <1>2, <3>1 DEF SeenIsSucceeded
    <3>3. CASE s \in call.context
      <4>1. v \in call.context
        BY <1>8, <3>2, <3>3 DEF Follows
      <4> QED BY <1>5, <1>9, <1>12, <2>4, <4>1
    <3>4. CASE s \notin call.context
      BY <1>5, <1>9, <1>11, <2>1, <2>4, <3>1, <3>2, <3>4
    <3> QED BY <3>3, <3>4
  <2> QED BY <2>2, <2>3, <2>4
<1>15. AddsNameTheirNode'
  BY <1>1, <1>6 DEF AddsNameTheirNode, NoUpdate
<1>16. ControllerIsRemembered'
  <2> SUFFICES ASSUME NEW n \in controlled \ spoiled
               PROVE  /\ Pending(n, {"remove", "sweep"})' = {}
                      /\ Pending(n, {"add"})' = {} => \E v \in store'[n].seen : Remembered(n, v)'
    BY <1>3 DEF ControllerIsRemembered
  <2>1. n \in Nodes /\ Pending(n, {"remove", "sweep"}) = {}
    BY <1>1 DEF ControllerIsRemembered, OwnersTypeOK
  <2>2. Pending(n, {"remove", "sweep"})' = {}
    BY <1>6, <2>1 DEF Pending
  <2>3. CASE Pending(n, {"add"}) = {}
    <3>1. PICK v \in store[n].seen : Remembered(n, v)
      BY <1>1, <2>3 DEF ControllerIsRemembered
    <3>2. v \in DOMAIN written /\ v \in store'[n].seen
      BY <1>1, <1>5, <1>9, <2>1, <3>1 DEF SeenIsClosed
    <3>3. v \in call.context => n \in call.owners
      BY <3>1 DEF Remembered, call, Put
    <3>4. \A s \in DOMAIN written' : Follows(s, v)' => n \in written'[s].owners
      BY <1>4, <1>9, <1>11, <1>12, <3>1, <3>2, <3>3 DEF Remembered
    <3>5. \A u \in Updates : updates'[u].at = "put" /\ v \in updates'[u].context => n \in updates'[u].owners
      BY <1>6, <3>1 DEF Remembered, NoUpdate
    <3> QED BY <2>2, <3>2, <3>4, <3>5 DEF Remembered
  <2>4. CASE Pending(n, {"add"}) # {} /\ Pending(n, {"add"})' = {}
    <3>1. n0 = n /\ call.op = "add"
      BY <1>6, <2>4 DEF Pending, n0, call
    <3>2. n \in call.owners
      BY <1>1, <3>1 DEF AddsNameTheirNode, Put, call, n0
    <3>3. \A s \in DOMAIN written' : Follows(s, w)' => n \in written'[s].owners
      BY <1>4, <1>9, <1>13, <3>2
    <3>4. \A u \in Updates : ~(updates'[u].at = "put" /\ w \in updates'[u].context)
      <4> SUFFICES ASSUME NEW u \in Updates, updates'[u].at = "put" PROVE w \notin updates'[u].context
        OBVIOUS
      <4>1. updates'[u] = updates[u] /\ updates[u].at = "put"
        BY <1>6 DEF NoUpdate
      <4>2. updates[u].context \subseteq DOMAIN written
        BY <1>1, <4>1, Kinds DEF SeenIsClosed, Putting
      <4> QED BY <1>4, <4>1, <4>2
    <3>5. w \in store'[n].seen
      BY <1>5, <1>9, <3>1
    <3> QED BY <2>2, <3>3, <3>4, <3>5 DEF Remembered
  <2> QED BY <2>2, <2>3, <2>4
<1> QED BY <1>7, <1>10, <1>14, <1>15, <1>16 DEF OwnersInv

-----------------------------------------------------------------------------
(* Replicas that merge *)

\* Of the writes that follow a write and that a replica or another has seen,
\* the last is a sibling in each that has seen it.
LEMMA LastFollower ==
  ASSUME OwnersTypeOK, SeenIsClosed, SeenIsSucceeded, NEW m \in Nodes, NEW n \in Nodes,
         NEW v \in store[m].seen \cup store[n].seen
  PROVE  \E z \in store[m].seen \cup store[n].seen :
           /\ Follows(z, v)
           /\ z \in store[m].seen => z \in store[m].siblings
           /\ z \in store[n].seen => z \in store[n].siblings
<1> DEFINE All == store[m].seen \cup store[n].seen
           After == {z \in All : Follows(z, v)}
<1>1. Len(written) \in Nat /\ DOMAIN written = 1..Len(written) /\ All \subseteq DOMAIN written
  BY Fields DEF SeenIsClosed
<1>2. After \in SUBSET (0..Len(written)) /\ v \in After
  BY <1>1 DEF Follows
<1>3. PICK z \in After : \A k \in After : k <= z
  <2> HIDE DEF After
  <2> QED BY <1>1, <1>2, GreatestExists
<1>4. ASSUME NEW x \in {m, n}, z \in store[x].seen
      PROVE  z \in store[x].siblings
  <2>1. PICK s \in store[x].siblings : Follows(s, z)
    BY <1>4 DEF SeenIsSucceeded
  <2>2. s \in DOMAIN written /\ s \in All
    BY <1>1 DEF SeenIsClosed
  <2>3. CASE s # z
    <3>1. z \in written[s].context
      BY <2>1, <2>3 DEF Follows
    <3>2. v \in written[s].context
      BY <2>2, <3>1 DEF SeenIsClosed, Follows
    <3>3. s \in After
      BY <2>2, <3>2 DEF Follows
    <3>4. z \in 1..(s - 1)
      BY <2>2, <3>1 DEF SeenIsClosed
    <3> QED BY <1>1, <1>3, <2>2, <3>3, <3>4
  <2> QED BY <2>1, <2>3
<1> QED BY <1>3, <1>4

LEMMA SyncInv ==
  ASSUME OwnersInv, NEW m \in Nodes, NEW n \in Nodes, Sync(m, n)
  PROVE  OwnersInv'
<1> PICK a : a = store[n]
  OBVIOUS
<1> PICK b : b = store[m]
  OBVIOUS
<1> PICK here : here = [siblings |-> (a.siblings \cap b.siblings) \cup (a.siblings \ b.seen)
                                       \cup (b.siblings \ a.seen),
                        seen |-> a.seen \cup b.seen]
  OBVIOUS
<1>1. /\ OwnersTypeOK /\ SeenIsClosed /\ SeenIsSucceeded /\ AddsNameTheirNode /\ ControllerIsRemembered
  BY DEF OwnersInv
<1>2. /\ store' = [store EXCEPT ![n] = here]
      /\ UNCHANGED <<controlled, written, updates, spoiled>>
  BY DEF Sync
<1>3. /\ here.siblings = (a.siblings \cap b.siblings) \cup (a.siblings \ b.seen) \cup (b.siblings \ a.seen)
      /\ here.seen = a.seen \cup b.seen
  OBVIOUS
<1>4. /\ store'[n] = here
      /\ \A x \in Nodes : x # n => store'[x] = store[x]
  BY <1>1, <1>2 DEF OwnersTypeOK
<1>5. OwnersTypeOK'
  <2>1. here \in Replica
    BY <1>1, Fields DEF Replica
  <2>2. store' \in [Nodes -> Replica]
    BY <1>1, <1>2, <2>1 DEF OwnersTypeOK
  <2> QED BY <1>1, <1>2, <2>2 DEF OwnersTypeOK
\* A replica only learns.
<1>6. \A x \in Nodes : store[x].seen \subseteq store'[x].seen
  BY <1>3, <1>4
<1>7. SeenIsClosed'
  <2>1. \A x \in Nodes : /\ store'[x].siblings \subseteq store'[x].seen
                         /\ store'[x].seen \subseteq DOMAIN written
                         /\ \A w \in store'[x].seen : written[w].context \subseteq store'[x].seen
    BY <1>1, <1>3, <1>4 DEF SeenIsClosed
  <2>2. ASSUME NEW u \in Updates, updates[u].at = "put"
        PROVE  updates[u].context \subseteq store'[updates[u].node].seen
    <3>1. updates[u].node \in Nodes
      BY <1>1, <2>2, Kinds DEF Putting
    <3> QED BY <1>1, <1>6, <2>2, <3>1 DEF SeenIsClosed
  <2> QED BY <1>1, <1>2, <2>1, <2>2 DEF SeenIsClosed
<1>8. SeenIsSucceeded'
  <2> SUFFICES ASSUME NEW x \in Nodes, NEW v \in store'[x].seen
               PROVE  \E s \in store'[x].siblings : Follows(s, v)
    BY <1>2 DEF SeenIsSucceeded, Follows
  <2>1. CASE x # n
    BY <1>1, <1>4, <2>1 DEF SeenIsSucceeded
  <2>2. CASE x = n
    <3>1. PICK z \in store[m].seen \cup store[n].seen :
            /\ Follows(z, v)
            /\ z \in store[m].seen => z \in store[m].siblings
            /\ z \in store[n].seen => z \in store[n].siblings
      BY <1>1, <1>3, <1>4, <2>2, LastFollower
    <3>2. z \in here.siblings
      BY <1>3, <3>1
    <3> QED BY <1>4, <2>2, <3>1, <3>2
  <2> QED BY <2>1, <2>2
<1>9. AddsNameTheirNode'
  BY <1>1, <1>2 DEF AddsNameTheirNode
<1>10. ControllerIsRemembered'
  <2>1. \A x, w : Remembered(x, w)' <=> Remembered(x, w)
    BY <1>2 DEF Remembered, Follows
  <2>2. \A x, ops : Pending(x, ops)' = Pending(x, ops)
    BY <1>2 DEF Pending
  <2>3. controlled \subseteq Nodes
    BY <1>1 DEF OwnersTypeOK
  <2> QED BY <1>1, <1>2, <1>6, <2>1, <2>2, <2>3 DEF ControllerIsRemembered
<1> QED BY <1>5, <1>7, <1>8, <1>9, <1>10 DEF OwnersInv

-----------------------------------------------------------------------------
(* The invariant *)

LEMMA OwnersInitInv == OwnersInit => OwnersInv
<1> SUFFICES ASSUME OwnersInit PROVE OwnersInv
  OBVIOUS
<1>1. OwnersTypeOK
  BY MaxWritesAssumption DEF OwnersInit, OwnersTypeOK, Replica
<1>2. SeenIsClosed /\ SeenIsSucceeded /\ AddsNameTheirNode
  BY DEF OwnersInit, SeenIsClosed, SeenIsSucceeded, AddsNameTheirNode, NoUpdate
<1>3. ControllerIsRemembered
  BY DEF OwnersInit, ControllerIsRemembered
<1> QED BY <1>1, <1>2, <1>3 DEF OwnersInv

LEMMA OwnersNextInv == OwnersInv /\ [OwnersNext]_ownersVars => OwnersInv'
<1> SUFFICES ASSUME OwnersInv, [OwnersNext]_ownersVars PROVE OwnersInv'
  OBVIOUS
<1>1. ASSUME NEW n \in Nodes, Disconnect(n) PROVE OwnersInv'
  BY <1>1, DisconnectInv
<1>2. ASSUME NEW n \in Nodes, Restart(n) PROVE OwnersInv'
  BY <1>2, RestartInv
<1>3. ASSUME NEW n \in Nodes, NEW m \in Nodes, Sync(m, n) PROVE OwnersInv'
  BY <1>3, SyncInv
<1>4. ASSUME NEW n \in Nodes, NEW c \in Updates, register(c, n) PROVE OwnersInv'
  BY <1>4, RegisterInv
<1>5. ASSUME NEW n \in Nodes, NEW c \in Updates, unregister(c, n) \/ Lookup(c, n) PROVE OwnersInv'
  BY <1>5, BeginInv
<1>6. ASSUME NEW c \in Updates, Decide(c) PROVE OwnersInv'
  BY <1>6, DecideInv
<1>7. ASSUME NEW c \in Updates, GetRecord(c) PROVE OwnersInv'
  BY <1>7, GetRecordInv
<1>8. ASSUME NEW c \in Updates, GetFails(c) PROVE OwnersInv'
  BY <1>8, GetFailsInv
<1>9. ASSUME NEW c \in Updates, PutRecord(c) PROVE OwnersInv'
  BY <1>9, PutInv DEF PutRecord
<1>10. ASSUME NEW c \in Updates, PutFails(c) PROVE OwnersInv'
  BY <1>10, PutInv, NoPutInv DEF PutFails
<1>11. CASE UNCHANGED ownersVars
  <2>1. OwnersTypeOK' /\ QuietStep /\ SameControllers
    BY <1>11 DEF ownersVars, OwnersInv, OwnersTypeOK, QuietStep, SameControllers, Pending, ControllerIsRemembered
  <2> QED BY <2>1, QuietInv
<1> QED BY <1>1, <1>2, <1>3, <1>4, <1>5, <1>6, <1>7, <1>8, <1>9, <1>10, <1>11 DEF OwnersNext

\* The inductive invariant: writes and replicas have seen all that what they
\* have seen had seen, nothing seen is gone without a successor, and for each
\* controller its replica has seen a write after which every write names it.
THEOREM OwnersInvHolds == OwnersSpec => []OwnersInv
<1> QED BY OwnersInitInv, OwnersNextInv, PTL DEF OwnersSpec

\* The owner record that a node reads names the node as long as a peer of it
\* controls the resource, whatever the other nodes write (httpServer.js
\* mergeOwnerSets, /register, /unregister, removeThisNodeFromResourceOwners).
THEOREM ControllersAreNamed == OwnersSpec => []ControllerIsNamed
<1>1. OwnersInv => ControllerIsNamed
  <2> SUFFICES ASSUME OwnersInv, NEW n \in controlled \ spoiled, Pending(n, {"add"}) = {}
               PROVE  n \in mergeOwnerSets(store[n].siblings)
    BY DEF ControllerIsNamed
  <2>1. n \in Nodes
    BY DEF OwnersInv, OwnersTypeOK
  <2>2. PICK w \in store[n].seen : Remembered(n, w)
    BY DEF OwnersInv, ControllerIsRemembered
  <2> QED BY <2>1, <2>2, SiblingsRemember DEF OwnersInv
<1> QED BY <1>1, OwnersInvHolds, PTL
=============================================================================
