-------------------------- MODULE PeerRegistration --------------------------
(***************************************************************************)
(* DeviceJSCore (src/core/core.js): which peers are connected, and which   *)
(* peer controls which resource.                                           *)
(*                                                                         *)
(* A peer is an association id.  The socket server calls handlePeerConnect *)
(* and handlePeerDisconnect for every socket that opens and closes, and a  *)
(* client that reconnects keeps its association id, so two sockets of one  *)
(* peer may be open at the server at once: the old one until it times out. *)
(*                                                                         *)
(* handleRegisterResource waits for the database before and after its      *)
(* check that the resource is free; each wait is a step of the call, and   *)
(* anything may happen in between.                                         *)
(***************************************************************************)
EXTENDS Naturals

CONSTANTS Peers, Resources,
          Calls,        \* registrations that may be in progress together
          MaxSockets    \* sockets one peer may have open at once

ASSUME MaxSocketsAssumption == MaxSockets \in Nat \ {0}

VARIABLES sockets,      \* the number of sockets of each peer open at the server
          peerMap,      \* _devicejsPeerMap: peer -> its resources
          resourceMap,  \* _resourceMap: resource -> its peer and reachability
          marked,       \* resources last marked reachable in the reachability map
          reg,          \* the registrations in progress
          doubled       \* history: since the start, a peer has had two sockets at once

vars == <<sockets, peerMap, resourceMap, marked, reg, doubled>>

Idle == [at |-> "idle"]

Without(f, S) == [x \in DOMAIN f \ S |-> f[x]]
With(f, x, v) == [y \in DOMAIN f \cup {x} |-> IF y = x THEN v ELSE f[y]]

Owned(p) == {r \in DOMAIN resourceMap : resourceMap[r].peer = p}

TypeOK ==
  /\ sockets \in [Peers -> 0..MaxSockets]
  /\ DOMAIN peerMap \subseteq Peers
  /\ \A p \in DOMAIN peerMap : peerMap[p] \subseteq Resources
  /\ DOMAIN resourceMap \subseteq Resources
  /\ \A r \in DOMAIN resourceMap : resourceMap[r] \in [peer : Peers, reachable : BOOLEAN]
  /\ marked \subseteq Resources
  /\ reg \in [Calls -> {Idle} \cup [at : {"put", "index"}, peer : Peers, resource : Resources]]
  /\ doubled \in BOOLEAN

Init == /\ sockets = [p \in Peers |-> 0]
        /\ peerMap = [p \in {} |-> {}]
        /\ resourceMap = [r \in {} |-> {}]
        /\ marked = {}
        /\ reg = [c \in Calls |-> Idle]
        /\ doubled = FALSE

-----------------------------------------------------------------------------
(* Sockets *)

handlePeerConnect(p) ==
  /\ sockets[p] < MaxSockets
  /\ sockets' = [sockets EXCEPT ![p] = @ + 1]
  /\ peerMap' = With(peerMap, p, {})
  /\ doubled' = (doubled \/ sockets[p] > 0)
  /\ UNCHANGED <<resourceMap, marked, reg>>

\* Mutant: the peer is forgotten and its resources are left registered.
DisconnectKeepsResources(p) ==
  /\ sockets[p] > 0 /\ p \in DOMAIN peerMap
  /\ sockets' = [sockets EXCEPT ![p] = @ - 1]
  /\ peerMap' = Without(peerMap, {p})
  /\ UNCHANGED <<resourceMap, marked, reg, doubled>>

\* The resources the peer is listed with and owns are unregistered, then the
\* peer is forgotten, all in one turn of the event loop.
handlePeerDisconnect(p) ==
  LET gone == peerMap[p] \cap Owned(p)
  IN  /\ sockets[p] > 0 /\ p \in DOMAIN peerMap
      /\ sockets' = [sockets EXCEPT ![p] = @ - 1]
      /\ resourceMap' = Without(resourceMap, gone)
      /\ marked' = marked \ gone
      /\ peerMap' = Without(peerMap, {p})
      /\ UNCHANGED <<reg, doubled>>

\* A second socket of the peer closes after the first has taken the entry
\* away: reading `.resources` of undefined throws in the socket's listener,
\* nothing catches it, and the process ends.  start() begins with empty maps
\* and clears the reachability map.
DisconnectThrows(p) ==
  /\ sockets[p] > 0 /\ p \notin DOMAIN peerMap
  /\ sockets' = [q \in Peers |-> 0]
  /\ peerMap' = [q \in {} |-> {}]
  /\ resourceMap' = [r \in {} |-> {}]
  /\ marked' = {}
  /\ reg' = [c \in Calls |-> Idle]
  /\ doubled' = FALSE

-----------------------------------------------------------------------------
(* handleRegisterResource: look up the type, write the resource record;    *)
(* check that the resource is free; write the index; take the resource     *)

Register(c, p, r) ==
  /\ reg[c] = Idle
  /\ p \in DOMAIN peerMap          \* requireNotificationChannel
  /\ reg' = [reg EXCEPT ![c] = [at |-> "put", peer |-> p, resource |-> r]]
  /\ UNCHANGED <<sockets, peerMap, resourceMap, marked, doubled>>

\* "Already registered" ends the call, otherwise addResource is awaited.
RegisterChecks(c) ==
  /\ reg[c].at = "put"
  /\ reg' = [reg EXCEPT ![c] = IF reg[c].resource \in DOMAIN resourceMap
                                 THEN Idle ELSE [@ EXCEPT !.at = "index"]]
  /\ UNCHANGED <<sockets, peerMap, resourceMap, marked, doubled>>

\* Mutant: the peer is neither checked to be there still nor listed with the
\* resource.
RegisterTakesUnchecked(c) ==
  LET p == reg[c].peer
      r == reg[c].resource
  IN  /\ reg[c].at = "index"
      /\ peerMap' = peerMap
      /\ resourceMap' = With(resourceMap, r, [peer |-> p, reachable |-> TRUE])
      /\ marked' = marked \cup {r}
      /\ reg' = [reg EXCEPT ![c] = Idle]
      /\ UNCHANGED <<sockets, doubled>>

\* "Peer disconnected" ends the call without a registration.
RegisterTakes(c) ==
  LET p == reg[c].peer
      r == reg[c].resource
  IN  /\ reg[c].at = "index"
      /\ IF p \notin DOMAIN peerMap
           THEN UNCHANGED <<peerMap, resourceMap, marked>>
           ELSE /\ peerMap' = [peerMap EXCEPT ![p] = @ \cup {r}]
                /\ resourceMap' = With(resourceMap, r, [peer |-> p, reachable |-> TRUE])
                /\ marked' = marked \cup {r}
      /\ reg' = [reg EXCEPT ![c] = Idle]
      /\ UNCHANGED <<sockets, doubled>>

\* An unknown type or a database error ends the call.
RegisterFails(c) ==
  /\ reg[c] # Idle
  /\ reg' = [reg EXCEPT ![c] = Idle]
  /\ UNCHANGED <<sockets, peerMap, resourceMap, marked, doubled>>

-----------------------------------------------------------------------------

\* "No such resource" and "Peer does not own this resource" change nothing.
handleUnregisterResource(p, r) ==
  /\ p \in DOMAIN peerMap          \* requireNotificationChannel
  /\ r \in Owned(p)
  /\ peerMap' = [peerMap EXCEPT ![p] = @ \ {r}]
  /\ marked' = marked \ {r}
  /\ resourceMap' = Without(resourceMap, {r})
  /\ UNCHANGED <<sockets, reg, doubled>>

\* Mutant: the database is told of reachable resources only.
MarkReachableOnly(r, reachable) ==
  /\ DOMAIN peerMap # {}
  /\ r \in DOMAIN resourceMap
  /\ resourceMap' = [resourceMap EXCEPT ![r].reachable = reachable]
  /\ marked' = IF reachable THEN marked \cup {r} ELSE marked
  /\ UNCHANGED <<sockets, peerMap, reg, doubled>>

\* Some connected peer publishes "reachable" or "unreachable" for a resource.
markResourceReachable(r, reachable) ==
  /\ DOMAIN peerMap # {}
  /\ r \in DOMAIN resourceMap
  /\ resourceMap' = [resourceMap EXCEPT ![r].reachable = reachable]
  /\ marked' = IF reachable THEN marked \cup {r} ELSE marked \ {r}
  /\ UNCHANGED <<sockets, peerMap, reg, doubled>>

Next ==
  \/ \E p \in Peers : handlePeerConnect(p) \/ handlePeerDisconnect(p) \/ DisconnectThrows(p)
  \/ \E c \in Calls : RegisterChecks(c) \/ RegisterTakes(c) \/ RegisterFails(c)
  \/ \E r \in Resources :
       \/ \E p \in Peers : handleUnregisterResource(p, r) \/ \E c \in Calls : Register(c, p, r)
       \/ \E reachable \in BOOLEAN : markResourceReachable(r, reachable)

Spec == Init /\ [][Next]_vars

-----------------------------------------------------------------------------
(* Properties *)

\* Whoever controls a resource is connected, however registrations,
\* unregistrations and disconnects overlap.
OwnersConnected ==
  \A r \in DOMAIN resourceMap : resourceMap[r].peer \in DOMAIN peerMap

\* A connected peer is listed with all it controls, so that its disconnect
\* unregisters all of it.
OwnedIsListed == \A p \in DOMAIN peerMap : Owned(p) \subseteq peerMap[p]

\* A peer has an entry exactly while it has its one socket open.
EntryIffSocket ==
  \A p \in Peers : sockets[p] <= 1 /\ (p \in DOMAIN peerMap <=> sockets[p] = 1)

\* The inductive invariant: as long as every old socket closed before the new
\* one of its peer opened, the maps agree.
Inv == TypeOK /\ (~doubled => OwnersConnected /\ OwnedIsListed /\ EntryIffSocket)

\* "the peer is tied to a connection.  if that connection disappears then the
\* mappings are reset": no resource is left to a peer that is gone, unless a
\* peer reconnected before its old socket closed.
OwnershipEndsWithConnection == ~doubled => OwnersConnected

\* The reachability map was last told what the resource map says, also across
\* lost connections, stolen resources and crashes: other servers are not sent
\* to a resource that is gone.
MarksMatchResources ==
  marked = {r \in DOMAIN resourceMap : resourceMap[r].reachable}
=============================================================================
