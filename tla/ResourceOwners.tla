---------------------------- MODULE ResourceOwners ----------------------------
(***************************************************************************)
(* The owner record of a resource (src/core/httpServer.js): which nodes    *)
(* have a peer that controls it.  Nodes keep the record in DeviceDB and    *)
(* change it by reading it, adding or removing themselves, and writing it  *)
(* back with the context they read.  Records of different resources have   *)
(* nothing in common, so one resource is enough.                           *)
(*                                                                         *)
(* DeviceDB (external) keeps a replica per node.  A write supersedes the   *)
(* siblings its context has seen; replicas merge in any order.             *)
(***************************************************************************)
EXTENDS Naturals, Sequences

CONSTANTS Nodes,
          Updates,        \* owner record updates and lookups in progress together
          MaxWrites     \* bound: writes of the record

ASSUME MaxWritesAssumption == MaxWrites \in Nat

VARIABLES controlled,   \* nodes where a peer controls the resource
          written,      \* the owners and the context of each write, in their order
          store,        \* replica of each node: its siblings, and all it has seen
          updates,        \* the updates and lookups in progress
          spoiled       \* history: nodes whose last registration had its write fail,
                        \* or overlapped a removal of the same node

ownersVars == <<controlled, written, store, updates, spoiled>>

NoUpdate == [at |-> "idle"]
Writes == 1..MaxWrites
Replica == [siblings : SUBSET Writes, seen : SUBSET Writes]
Write == [owners : SUBSET Nodes, context : SUBSET Writes]
Getting == [at : {"get"}, node : Nodes, op : {"add", "remove", "sweep", "lookup"}]
Looked == [at : {"looked"}, node : Nodes, op : {"lookup"}, owners : SUBSET Nodes]
Putting == [at : {"put"}, node : Nodes, op : {"add", "remove", "sweep"},
            owners : SUBSET Nodes, context : SUBSET Writes]
Pending(n, ops) == {c \in Updates : updates[c] # NoUpdate /\ updates[c].node = n /\ updates[c].op \in ops}

OwnersTypeOK ==
  /\ controlled \subseteq Nodes /\ spoiled \subseteq Nodes
  /\ written \in Seq(Write) /\ Len(written) <= MaxWrites
  /\ store \in [Nodes -> Replica]
  /\ updates \in [Updates -> {NoUpdate} \cup Getting \cup Looked \cup Putting]

OwnersInit == /\ controlled = {} /\ spoiled = {}
        /\ written = <<>>
        /\ store = [n \in Nodes |-> [siblings |-> {}, seen |-> {}]]
        /\ updates = [c \in Updates |-> NoUpdate]

mergeOwnerSets(siblings) == UNION {written[w].owners : w \in siblings}

Begin(c, n, op) == /\ updates[c] = NoUpdate
                   /\ updates' = [updates EXCEPT ![c] = [at |-> "get", node |-> n, op |-> op]]

-----------------------------------------------------------------------------
(* What starts an update *)

\* handleRegisterResource has given the resource to a peer of this node.
register(c, n) ==
  /\ n \notin controlled
  /\ Begin(c, n, "add")
  /\ controlled' = controlled \cup {n}
  /\ spoiled' = IF Pending(n, {"remove", "sweep"}) # {} THEN spoiled \cup {n} ELSE spoiled \ {n}
  /\ UNCHANGED <<written, store>>

\* handleUnregisterResource has taken it from its peer.
unregister(c, n) ==
  /\ n \in controlled
  /\ Begin(c, n, "remove")
  /\ controlled' = controlled \ {n}
  /\ UNCHANGED <<written, store, spoiled>>

\* The peer's connection closes: the record is left as it is.
Disconnect(n) ==
  /\ n \in controlled
  /\ controlled' = controlled \ {n}
  /\ UNCHANGED <<written, store, updates, spoiled>>

\* A request of this node looks for owners of resources that others control.
Lookup(c, n) ==
  /\ Begin(c, n, "lookup")
  /\ UNCHANGED <<controlled, written, store, spoiled>>

\* Mutant: the lookup removes this node without asking who controls the resource.
DecideBlindly(c) ==
  /\ updates[c].at = "looked"
  /\ updates' = [updates EXCEPT ![c] =
       IF @.node \in @.owners THEN [at |-> "get", node |-> @.node, op |-> "sweep"] ELSE NoUpdate]
  /\ UNCHANGED <<controlled, written, store, spoiled>>

\* The record names this node and no peer of it controls the resource:
\* removeThisNodeFromResourceOwners begins.
Decide(c) ==
  /\ updates[c].at = "looked"
  /\ updates' = [updates EXCEPT ![c] =
       IF @.node \in @.owners \ controlled
         THEN [at |-> "get", node |-> @.node, op |-> "sweep"] ELSE NoUpdate]
  /\ UNCHANGED <<controlled, written, store, spoiled>>

-----------------------------------------------------------------------------
(* Reading and writing the record *)

Update(op, owners, n) == IF op = "add" THEN owners \cup {n} ELSE owners \ {n}

\* The node's replica is read.  A record that does not exist has no siblings
\* and the empty context; removeThisNode... then writes nothing.
GetRecord(c) ==
  LET call == updates[c]
      here == store[call.node]
      owners == mergeOwnerSets(here.siblings)
  IN  /\ call.at = "get"
      /\ updates' = [updates EXCEPT ![c] =
           CASE call.op = "lookup" ->
                  [at |-> "looked", node |-> call.node, op |-> "lookup", owners |-> owners]
             [] call.op = "sweep" /\ here.seen = {} -> NoUpdate
             [] OTHER ->
                  [at |-> "put", node |-> call.node, op |-> call.op,
                   owners |-> Update(call.op, owners, call.node), context |-> here.seen]]
      /\ UNCHANGED <<controlled, written, store, spoiled>>

\* A read that fails is taken for a record that is not there.
GetFails(c) ==
  LET call == updates[c]
  IN  /\ call.at = "get"
      /\ updates' = [updates EXCEPT ![c] =
           IF call.op \in {"lookup", "sweep"} THEN NoUpdate
           ELSE [at |-> "put", node |-> call.node, op |-> call.op,
                 owners |-> Update(call.op, {}, call.node), context |-> {}]]
      /\ UNCHANGED <<controlled, written, store, spoiled>>

\* Mutant: the write supersedes all there is, whatever was read.
PutReplaces(c) ==
  LET call == updates[c]
      w == Len(written) + 1
  IN  /\ call.at = "put" /\ w \in Writes
      /\ written' = Append(written, [owners |-> call.owners, context |-> call.context])
      /\ store' = [store EXCEPT ![call.node] = [siblings |-> {w}, seen |-> @.seen \cup {w}]]
      /\ updates' = [updates EXCEPT ![c] = NoUpdate]
      /\ UNCHANGED <<controlled, spoiled>>

\* The write takes the place of the siblings that were read.
Put(c) ==
  LET call == updates[c]
      w == Len(written) + 1
  IN  /\ call.at = "put" /\ w \in Writes
      /\ written' = Append(written, [owners |-> call.owners, context |-> call.context])
      /\ store' = [store EXCEPT ![call.node] =
                     [siblings |-> (@.siblings \ call.context) \cup {w}, seen |-> @.seen \cup {w}]]
      /\ updates' = [updates EXCEPT ![c] = NoUpdate]
      /\ UNCHANGED controlled

PutRecord(c) == Put(c) /\ UNCHANGED spoiled

\* The error is logged and nothing is written again; the record may be written.
PutFails(c) ==
  /\ updates[c].at = "put"
  /\ \/ Put(c)
     \/ updates' = [updates EXCEPT ![c] = NoUpdate] /\ UNCHANGED <<controlled, written, store>>
  /\ spoiled' = spoiled \cup {updates[c].node}

\* External: the replica of node n hears of the one of node m.  A sibling goes
\* when the other replica has seen it and has it no more.
Sync(m, n) ==
  LET a == store[n]
      b == store[m]
  IN  /\ b.seen \ a.seen # {}
      /\ store' = [store EXCEPT ![n] =
           [siblings |-> (a.siblings \cap b.siblings) \cup (a.siblings \ b.seen)
                           \cup (b.siblings \ a.seen),
            seen |-> a.seen \cup b.seen]]
      /\ UNCHANGED <<controlled, written, updates, spoiled>>

\* A node's process ends and starts again without peers; its writes stay.
Restart(n) ==
  /\ n \in controlled \/ Pending(n, {"add", "remove", "sweep", "lookup"}) # {}
  /\ controlled' = controlled \ {n}
  /\ updates' = [c \in Updates |-> IF updates[c] # NoUpdate /\ updates[c].node = n THEN NoUpdate ELSE updates[c]]
  /\ UNCHANGED <<written, store, spoiled>>

OwnersNext ==
  \/ \E n \in Nodes :
       \/ Disconnect(n) \/ Restart(n)
       \/ \E m \in Nodes : Sync(m, n)
       \/ \E c \in Updates : register(c, n) \/ unregister(c, n) \/ Lookup(c, n)
  \/ \E c \in Updates : Decide(c) \/ GetRecord(c) \/ GetFails(c) \/ PutRecord(c) \/ PutFails(c)

OwnersSpec == OwnersInit /\ [][OwnersNext]_ownersVars

-----------------------------------------------------------------------------
(* Properties *)

\* A node whose peer controls the resource is named by the record it reads
\* once its registration is through, whatever other nodes read and write at
\* the same time and in whatever order replicas merge: other nodes do not
\* overwrite it, and its own lookups do not remove it.  Excepted are a write
\* that failed and a removal of the same node that was under way when the
\* registration came.
ControllerIsNamed ==
  \A n \in controlled \ spoiled :
    Pending(n, {"add"}) = {} => n \in mergeOwnerSets(store[n].siblings)

\* What a write or a replica has seen, it has seen with all it had seen.
SeenIsClosed ==
  /\ \A w \in DOMAIN written : written[w].context \subseteq 1..(w - 1)
  /\ \A w \in DOMAIN written : \A v \in written[w].context : written[v].context \subseteq written[w].context
  /\ \A n \in Nodes : /\ store[n].siblings \subseteq store[n].seen
                      /\ store[n].seen \subseteq DOMAIN written
                      /\ \A w \in store[n].seen : written[w].context \subseteq store[n].seen
  /\ \A u \in Updates : updates[u].at = "put" =>
       /\ updates[u].context \subseteq store[updates[u].node].seen
       /\ \A w \in updates[u].context : written[w].context \subseteq updates[u].context

\* The write s is w, or was made with knowledge of w.
Follows(s, w) == s = w \/ w \in written[s].context

\* Nothing a replica has seen is gone without a successor among the siblings.
SeenIsSucceeded ==
  \A n \in Nodes : \A w \in store[n].seen : \E s \in store[n].siblings : Follows(s, w)

\* A registration that is about to write names its node.
AddsNameTheirNode ==
  \A u \in Updates : updates[u].at = "put" /\ updates[u].op = "add" => updates[u].node \in updates[u].owners

\* w is a write after which nobody forgets node n.
Remembered(n, w) ==
  /\ \A s \in DOMAIN written : Follows(s, w) => n \in written[s].owners
  /\ \A u \in Updates : updates[u].at = "put" /\ w \in updates[u].context => n \in updates[u].owners

ControllerIsRemembered ==
  \A n \in controlled \ spoiled :
    /\ Pending(n, {"remove", "sweep"}) = {}
    /\ Pending(n, {"add"}) = {} => \E w \in store[n].seen : Remembered(n, w)

\* The inductive invariant behind ControllerIsNamed.
OwnersInv ==
  /\ OwnersTypeOK /\ SeenIsClosed /\ SeenIsSucceeded
  /\ AddsNameTheirNode /\ ControllerIsRemembered
=============================================================================
