-------------------------- MODULE PeerSubscriptions --------------------------
(***************************************************************************)
(* Subscriptions of clients and how they survive a reconnect: the client   *)
(* (src/core/peer.js, httpPeer.js) keeps the set of what it subscribed to  *)
(* and asks for all of it again when a new connection is ready; the server *)
(* (src/core/httpServer.js) keeps, with each connection, the selectors it  *)
(* has to unsubscribe when the connection closes.                          *)
(*                                                                         *)
(* A client is an association id.  Its requests travel on HTTP connections *)
(* of their own: they are handled in any order, before, after and across   *)
(* the close of the client's socket.  An old socket closes before the next *)
(* one of its client opens (PeerRegistration has the other case).          *)
(*                                                                         *)
(* A /subscribe is a call with a number, which stands for the uuid that    *)
(* the registry draws for it.  The registry (SubscriberRegistry) enters it *)
(* in memory at once and answers after its batches.                        *)
(***************************************************************************)
EXTENDS Naturals, FiniteSets, Sequences, SequencesExt, Functions

CONSTANTS Clients,
          Selections,   \* a client's selection objects: the selectionID of a call
          MaxCalls      \* /subscribe calls in a behaviour

ASSUME PeerAssumption == MaxCalls \in Nat

VARIABLES held,         \* client: its SubscriptionSet
          socket,       \* "closed", "open" at the server, "live" when the client knows
          selectors,    \* peerConnectionMap: client -> selectionID -> subscription ids
          registry,     \* the ids in the subscriber registry's memory
          calls,        \* the /subscribe calls
          unsub,        \* each client's /unsubscribe in flight
          missed,       \* history: clients that were not told of an event (see Publish)
          wanted,       \* history: calls the application was answered and did not cancel
          stray,        \* history: ids in the registry whose /subscribe failed, or was in
                        \* its batches when the connection closed
          disturbed     \* history: clients with a request cut off by a failure or another

peerVars == <<held, socket, selectors, registry, calls, unsub, missed, wanted, stray, disturbed>>

CallNumbers == 1..MaxCalls
Stages == {"new", "sent", "batches", "answer", "done"}
NewCall == [at |-> "new"]
NoUnsub == [at |-> "none"]

InProgress(n) == calls[n].at \notin {"new", "done"}
Of(c) == {n \in CallNumbers : calls[n].at # "new" /\ calls[n].client = c}
On(c, s) == {n \in Of(c) : calls[n].selection = s}
Connected == DOMAIN selectors
Advance(n, step) == calls' = [calls EXCEPT ![n].at = step, ![n].app = @ /\ step # "done"]
Mark(set, S) == set' = set \cup S

PeerTypeOK ==
  /\ held \in [Clients -> SUBSET CallNumbers]
  /\ socket \in [Clients -> {"closed", "open", "live"}]
  /\ DOMAIN selectors \subseteq Clients
  /\ \A c \in DOMAIN selectors : /\ DOMAIN selectors[c] \subseteq Selections
                                 /\ \A s \in DOMAIN selectors[c] : selectors[c][s] \subseteq CallNumbers
  /\ registry \subseteq CallNumbers
  /\ calls \in [CallNumbers -> {NewCall} \cup [at : Stages \ {"new"}, client : Clients,
                                         selection : Selections, app : BOOLEAN]]
  /\ unsub \in [Clients -> {NoUnsub} \cup [at : {"sent"}, selection : Selections, ids : SUBSET CallNumbers]]
  /\ {missed, disturbed} \subseteq SUBSET Clients
  /\ {wanted, stray} \subseteq SUBSET CallNumbers

PeerInit ==
  /\ held = [c \in Clients |-> {}]
  /\ socket = [c \in Clients |-> "closed"]
  /\ selectors = [c \in {} |-> {}]
  /\ registry = {}
  /\ calls = [n \in CallNumbers |-> NewCall]
  /\ unsub = [c \in Clients |-> NoUnsub]
  /\ missed = {} /\ wanted = {} /\ stray = {} /\ disturbed = {}

-----------------------------------------------------------------------------
(* Connections *)

\* The server's 'connection' listener.
Connect(c) ==
  /\ socket[c] = "closed"
  /\ socket' = [socket EXCEPT ![c] = "open"]
  /\ selectors' = [d \in Connected \cup {c} |-> IF d = c THEN [s \in {} |-> {}] ELSE selectors[d]]
  /\ UNCHANGED <<held, registry, calls, unsub, missed, wanted, stray, disturbed>>

\* /subscribe calls of client c, one for each selection of the sequence sels.
Posted(c, sels, app) ==
  LET first == Cardinality({n \in CallNumbers : calls[n].at # "new"})
  IN  /\ first + Len(sels) <= MaxCalls
      /\ calls' = [n \in CallNumbers |->
                     IF n - first \in 1..Len(sels)
                       THEN [at |-> "sent", client |-> c, selection |-> sels[n - first], app |-> app]
                       ELSE calls[n]]

\* Whether unsubscribeAll of selection s is on its way.
Crossed(c, s) == unsub[c] # NoUnsub /\ unsub[c].selection = s /\ unsub[c].ids = {}

\* Mutant: the set is not cleared before the subscriptions are made again.
ReplayKeepsSet(c) ==
  LET old == SetToSeq(held[c])
  IN  /\ socket[c] = "open"
      /\ socket' = [socket EXCEPT ![c] = "live"]
      /\ Posted(c, [i \in DOMAIN old |-> calls[old[i]].selection], FALSE)
      /\ Mark(disturbed, IF \E n \in held[c] : n \in registry \/ Crossed(c, calls[n].selection)
                         THEN {c} ELSE {})
      /\ UNCHANGED <<held, selectors, registry, unsub, missed, wanted, stray>>

\* Mutant: the set is cleared before it is listed.
ReplayClearsFirst(c) ==
  /\ socket[c] = "open"
  /\ socket' = [socket EXCEPT ![c] = "live"]
  /\ held' = [held EXCEPT ![c] = {}]
  /\ UNCHANGED <<selectors, registry, calls, unsub, missed, wanted, stray, disturbed>>

\* The client hears 'ok': it forgets its subscriptions and makes each again,
\* which gives it a new id that the application is not told.  One it made on this
\* connection before it heard 'ok' is made twice.
Replay(c) ==
  LET old == SetToSeq(held[c])
  IN  /\ socket[c] = "open"
      /\ socket' = [socket EXCEPT ![c] = "live"]
      /\ held' = [held EXCEPT ![c] = {}]
      /\ Posted(c, [i \in DOMAIN old |-> calls[old[i]].selection], FALSE)
      /\ Mark(disturbed, IF \E n \in held[c] : n \in registry \/ Crossed(c, calls[n].selection)
                         THEN {c} ELSE {})
      /\ UNCHANGED <<selectors, registry, unsub, missed, wanted, stray>>

\* The server's 'disconnect' listener: unsubscribeAll for every selector.
cleanupConnections(c) ==
  LET pending == {n \in Of(c) : calls[n].at \in {"batches", "answer"}}
  IN  /\ socket[c] # "closed"
      /\ socket' = [socket EXCEPT ![c] = "closed"]
      /\ registry' = registry \ UNION {On(c, s) : s \in DOMAIN selectors[c]}
      /\ selectors' = Restrict(selectors, Connected \ {c})
      /\ stray' = (stray \cup {n \in pending : calls[n].at = "batches"}) \cap registry'
      /\ Mark(disturbed, IF pending # {} THEN {c} ELSE {})
      /\ UNCHANGED <<held, calls, unsub, missed, wanted>>

\* The server ends (PeerRegistration) and starts with empty memory; requests in
\* flight fail.
PeerRestart ==
  /\ socket' = [c \in Clients |-> "closed"]
  /\ selectors' = [c \in {} |-> {}]
  /\ registry' = {}
  /\ calls' = [n \in CallNumbers |-> IF InProgress(n) THEN [calls[n] EXCEPT !.at = "done", !.app = FALSE] ELSE calls[n]]
  /\ unsub' = [c \in Clients |-> NoUnsub]
  /\ missed' = {} /\ stray' = {}
  /\ Mark(disturbed, {c \in Clients : \E n \in Of(c) : InProgress(n)})
  /\ UNCHANGED <<held, wanted>>

-----------------------------------------------------------------------------
(* subscribeToResourceEvent, subscribeToResourceState and /subscribe *)

Subscribe(c, s) ==
  /\ Posted(c, <<s>>, TRUE)
  /\ Mark(disturbed, IF Crossed(c, s) THEN {c} ELSE {})
  /\ UNCHANGED <<held, socket, selectors, registry, unsub, missed, wanted, stray>>

\* requireNotificationChannel refuses the call of a client without an entry.
SubscribeArrives(n) ==
  LET c == calls[n].client
  IN  /\ calls[n].at = "sent"
      /\ IF c \in Connected
           THEN Advance(n, "batches") /\ registry' = registry \cup {n} /\ UNCHANGED disturbed
           ELSE /\ Advance(n, "done") /\ UNCHANGED registry
                /\ Mark(disturbed, IF calls[n].app THEN {} ELSE {c})
      /\ UNCHANGED <<held, socket, selectors, unsub, missed, wanted, stray>>

\* Mutant: the selector is not recorded.
SubscribeStoredUnlisted(n) ==
  /\ calls[n].at = "batches"
  /\ Advance(n, IF calls[n].client \in Connected THEN "answer" ELSE "done")
  /\ UNCHANGED <<held, socket, selectors, registry, unsub, missed, wanted, stray, disturbed>>

\* The batches are done.  If the connection has gone, reading its entry throws,
\* the id stays in the registry and the request is never answered; if another
\* one has come, the id is entered there.
SubscribeStored(n) ==
  LET c == calls[n].client
      s == calls[n].selection
      now == IF c \in Connected THEN selectors[c] ELSE [x \in {} |-> {}]
      ids == {n} \cup IF s \in DOMAIN now THEN now[s] ELSE {}
  IN  /\ calls[n].at = "batches"
      /\ IF c \in Connected
           THEN /\ Advance(n, "answer") /\ stray' = stray \ {n}
                /\ selectors' = [selectors EXCEPT ![c] =
                                   [x \in DOMAIN now \cup {s} |-> IF x = s THEN ids ELSE now[x]]]
           ELSE Advance(n, "done") /\ UNCHANGED <<selectors, stray>>
      /\ UNCHANGED <<held, socket, registry, unsub, missed, wanted, disturbed>>

\* A batch fails: the client is told, the id stays in the registry's memory.
SubscribeFails(n) ==
  /\ calls[n].at = "batches"
  /\ Advance(n, "done")
  /\ Mark(stray, {n} \cap registry) /\ Mark(disturbed, {calls[n].client})
  /\ UNCHANGED <<held, socket, selectors, registry, unsub, missed, wanted>>

\* The answer reaches the client, whichever connection it has by now.
SubscribeAnswered(n) ==
  LET c == calls[n].client
  IN  /\ calls[n].at = "answer"
      /\ Advance(n, "done")
      /\ held' = [held EXCEPT ![c] = @ \cup {n}]
      /\ Mark(wanted, IF calls[n].app THEN {n} ELSE {})
      /\ UNCHANGED <<socket, selectors, registry, unsub, missed, stray, disturbed>>

SubscribeAnswerLost(n) ==
  /\ calls[n].at = "answer"
  /\ Advance(n, "done")
  /\ Mark(disturbed, {calls[n].client})
  /\ UNCHANGED <<held, socket, selectors, registry, unsub, missed, wanted, stray>>

-----------------------------------------------------------------------------
(* unsubscribe(selectionID, id) and unsubscribe(selectionID) *)

\* ids is the one id the application names, or empty for the whole selection,
\* whose subscriptions it has been answered or still waits for.
Unsubscribe(c, s, ids) ==
  /\ unsub[c] = NoUnsub
  /\ \E n \in On(c, s) : n \in held[c] \cup wanted \/ InProgress(n)
  /\ ids \subseteq wanted \cap On(c, s)
  /\ LET gone == IF ids = {} THEN On(c, s) ELSE ids
     IN  /\ held' = [held EXCEPT ![c] = @ \ gone]
         /\ wanted' = wanted \ gone
  /\ unsub' = [unsub EXCEPT ![c] = [at |-> "sent", selection |-> s, ids |-> ids]]
  /\ Mark(disturbed, IF ids = {} /\ \E n \in On(c, s) : InProgress(n) THEN {c} ELSE {})
  /\ UNCHANGED <<socket, selectors, registry, calls, missed, stray>>

\* Mutant: the selector is dropped with the one id.
UnsubscribeDropsSelector(c) ==
  LET s == unsub[c].selection
  IN  /\ unsub[c] # NoUnsub
      /\ unsub' = [unsub EXCEPT ![c] = NoUnsub]
      /\ IF c \in Connected
           THEN /\ registry' = registry \ (IF unsub[c].ids = {} THEN On(c, s) ELSE unsub[c].ids)
                /\ selectors' = [selectors EXCEPT ![c] = Restrict(@, DOMAIN @ \ {s})]
           ELSE UNCHANGED <<registry, selectors>>
      /\ stray' = stray \cap registry'
      /\ UNCHANGED <<held, socket, calls, missed, wanted, disturbed>>

\* One id is also taken off its selector; the selector itself stays.  A client
\* without an entry is refused.
UnsubscribeArrives(c) ==
  LET s == unsub[c].selection
      ids == unsub[c].ids
  IN  /\ unsub[c] # NoUnsub
      /\ unsub' = [unsub EXCEPT ![c] = NoUnsub]
      /\ IF c \in Connected
           THEN /\ registry' = registry \ (IF ids = {} THEN On(c, s) ELSE ids)
                /\ selectors' = IF s \in DOMAIN selectors[c]
                                  THEN [selectors EXCEPT ![c][s] = @ \ ids] ELSE selectors
           ELSE UNCHANGED <<registry, selectors>>
      /\ stray' = stray \cap registry'
      /\ UNCHANGED <<held, socket, calls, missed, wanted, disturbed>>

-----------------------------------------------------------------------------
(* publish: an event that matches the subscriptions of the given calls.  The
   first subscriber without a connection makes it throw, in an order of the
   subscribers that depends on the registry.  missed records it of the events
   that match no stray.                                                      *)

Publish(matched) ==
  LET subscribers == {calls[n].client : n \in matched}
  IN  /\ matched \subseteq registry
      /\ IF subscribers \subseteq Connected \/ matched \cap stray # {}
           THEN UNCHANGED missed
           ELSE \E told \in SUBSET (subscribers \cap Connected) :
                   missed' = missed \cup ((subscribers \cap Connected) \ told)
      /\ UNCHANGED <<held, socket, selectors, registry, calls, unsub, wanted, stray, disturbed>>

PeerNext ==
  \/ \E c \in Clients : \/ Connect(c) \/ Replay(c) \/ cleanupConnections(c)
                        \/ UnsubscribeArrives(c)
                        \/ \E s \in Selections :
                             \/ Subscribe(c, s)
                             \/ Unsubscribe(c, s, {})
                             \/ \E n \in wanted : Unsubscribe(c, s, {n})
  \/ \E n \in CallNumbers : \/ SubscribeArrives(n) \/ SubscribeStored(n) \/ SubscribeFails(n)
                            \/ SubscribeAnswered(n) \/ SubscribeAnswerLost(n)
  \/ \E matched \in SUBSET registry : Publish(matched)
  \/ PeerRestart

PeerSpec == PeerInit /\ [][PeerNext]_peerVars

-----------------------------------------------------------------------------
(* Properties *)

\* Every subscription of the registry will be found by the cleanupConnections of
\* its client's connection, which is open, except those still in their batches
\* and the strays: no other subscription outlives its connection.
RegistryIsListed ==
  \A n \in registry \ stray :
     LET c == calls[n].client
     IN  c \in Connected /\ (calls[n].at = "batches" \/ calls[n].selection \in DOMAIN selectors[c])

\* The types, and that what the registry holds is found when a connection closes.
SelectorsCover == PeerTypeOK /\ RegistryIsListed

\* However subscribe, unsubscribe and disconnect overlap and whatever was
\* published, an event is kept from a connected subscriber only if it matches a
\* subscription that failed or was cut off in its batches.
EventsReachSubscribers == missed = {}

Quiet(c) == socket[c] = "live" /\ unsub[c] = NoUnsub /\ \A n \in Of(c) : ~InProgress(n)

\* Once its requests are through, a client holds exactly the ids that the
\* server has for it, also after reconnects and restarts of the server that
\* cut none of its requests off.
HeldIsRegistered ==
  \A c \in Clients \ disturbed : Quiet(c) => held[c] = registry \cap Of(c)

\* And what the application subscribed to and did not cancel is subscribed.
WantedIsSubscribed ==
  \A c \in Clients \ disturbed : Quiet(c) =>
    \A n \in wanted \cap Of(c) : \E m \in registry \cap Of(c) : calls[m].selection = calls[n].selection

\* A client and the server agree, however often it reconnects.
ReconnectKeepsSubscriptions == HeldIsRegistered /\ WantedIsSubscribed
=============================================================================
