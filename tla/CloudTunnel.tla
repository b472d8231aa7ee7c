----------------------------- MODULE CloudTunnel -----------------------------
(***************************************************************************)
(* The tunnel from a server to the cloud (src/core/cloudTunnel.js) and the *)
(* subscriptions that the cloud has at the server                          *)
(* (src/core/cloudSubscriberRegistry.js, and the tunnel's listeners in     *)
(* src/core/httpServer.js).                                                *)
(*                                                                         *)
(* The cloud is external: it adds and removes subscriptions, and after a   *)
(* connect it adds all it has, since a disconnect makes the server forget  *)
(* them.  Messages of a connection arrive in order or not at all.          *)
(***************************************************************************)
EXTENDS Integers, Sequences, FiniteSets, SequencesExt

CONSTANTS Subscriptions,    \* ids of the cloud's subscriptions
          MaxInbox          \* bound: messages of the cloud under way

ASSUME SubscriptionsAssumption == IsFiniteSet(Subscriptions)

VARIABLES socket,           \* "none" (null), "closed" or "open"
          isConnected,      \* _isConnected
          inbox,            \* messages of the cloud under way
          cloudSubs,        \* the subscriptions in the cloudSubscriberRegistry
          wanted,           \* external: the subscriptions the cloud has
          kept              \* history: stop() came while the tunnel was connected

tunnelVars == <<socket, isConnected, inbox, cloudSubs, wanted, kept>>

Messages == {"addSubscription", "removeSubscription"} \X Subscriptions

TunnelTypeOK ==
  /\ socket \in {"none", "closed", "open"}
  /\ isConnected \in BOOLEAN /\ kept \in BOOLEAN
  /\ inbox \in Seq(Messages)
  /\ cloudSubs \subseteq Subscriptions /\ wanted \subseteq Subscriptions

TunnelInit ==
  /\ socket = "none" /\ isConnected = FALSE /\ kept = FALSE
  /\ inbox = <<>> /\ cloudSubs = {} /\ wanted = {}

\* start() stops the tunnel first, so it drops a socket that is there.
start ==
  /\ socket' = "closed"
  /\ inbox' = <<>>
  /\ kept' = (cloudSubs # {})
  /\ UNCHANGED <<isConnected, cloudSubs, wanted>>

\* stop() removes the listeners before it disconnects: nobody hears of the
\* disconnect, and _isConnected and the cloud's subscriptions stay.
stop ==
  /\ socket # "none"
  /\ socket' = "none"
  /\ inbox' = <<>>
  /\ kept' = (cloudSubs # {})
  /\ UNCHANGED <<isConnected, cloudSubs, wanted>>

\* The 'connect' listener, at the first connection and at each reconnection.
onConnect ==
  /\ socket = "closed"
  /\ socket' = "open" /\ isConnected' = TRUE
  /\ inbox' = SetToSeq({"addSubscription"} \X wanted)
  /\ UNCHANGED <<cloudSubs, wanted, kept>>

\* Mutant: the cloud's subscriptions are kept over a disconnect.
DisconnectKeepsSubscriptions ==
  /\ socket = "open"
  /\ socket' = "closed" /\ isConnected' = FALSE
  /\ inbox' = <<>>
  /\ UNCHANGED <<cloudSubs, wanted, kept>>

\* The 'disconnect' listener; the server's own makes gc() of the registry.
onDisconnect ==
  /\ socket = "open"
  /\ socket' = "closed" /\ isConnected' = FALSE
  /\ inbox' = <<>>
  /\ cloudSubs' = {}
  /\ kept' = FALSE
  /\ UNCHANGED wanted

\* A message arrives: subscribe() of an id that is there changes nothing.
onSubscriptionMessage ==
  LET id == Head(inbox)[2]
  IN  /\ socket = "open" /\ inbox # <<>>
      /\ cloudSubs' = IF Head(inbox)[1] = "addSubscription" THEN cloudSubs \cup {id} ELSE cloudSubs \ {id}
      /\ inbox' = Tail(inbox)
      /\ UNCHANGED <<socket, isConnected, wanted, kept>>

\* External: the cloud adds or removes a subscription, and tells the server
\* when it is connected.
CloudSubscribes(id) ==
  LET message == <<IF id \in wanted THEN "removeSubscription" ELSE "addSubscription", id>>
  IN  /\ wanted' = (wanted \ {id}) \cup ({id} \ wanted)
      /\ IF socket = "open"
           THEN Len(inbox) < MaxInbox /\ inbox' = Append(inbox, message)
           ELSE UNCHANGED inbox
      /\ UNCHANGED <<socket, isConnected, cloudSubs, kept>>

TunnelNext == \/ start \/ stop \/ onConnect \/ onDisconnect \/ onSubscriptionMessage
              \/ \E id \in Subscriptions : CloudSubscribes(id)

TunnelSpec == TunnelInit /\ [][TunnelNext]_tunnelVars

\* While the tunnel is open and no message is under way, the server has exactly
\* the cloud's subscriptions, whatever was added and removed while it was
\* closed: events neither go to a cloud that wants them no more nor miss one
\* that does.  Excepted is a tunnel that was stopped with subscriptions, until
\* its next disconnect.
CloudSubscriptionsMatch ==
  socket = "open" /\ inbox = <<>> /\ ~kept => cloudSubs = wanted
=============================================================================
