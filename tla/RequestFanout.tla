---------------------------- MODULE RequestFanout ----------------------------
(***************************************************************************)
(* POST /request (src/core/httpServer.js): a command, state get or state   *)
(* set for a selection of resources, some controlled by clients of this    *)
(* server and some by other servers.  One request is modelled, from its    *)
(* arrival to the last late response.                                      *)
(*                                                                         *)
(* Two promises share the request's entry in requestMap: forwarding (the   *)
(* resources that no local client controls) and emitting (the ones that a  *)
(* local client does).  Each evaluates the selection on its own, so a      *)
(* resource that is registered or unregistered in between may be found by  *)
(* both or by neither.  Every wait of the two promises is a step; clients, *)
(* other servers and the 10 second timeout come in between.                *)
(*                                                                         *)
(* Exceptions inside a promise reject it, and Promise.all then cancels the *)
(* request if its entry is still there.  Where the entry is gone the       *)
(* exception has no effect.                                                *)
(***************************************************************************)
EXTENDS Integers, Sequences, FiniteSets, Functions

CONSTANT Resources      \* the resources the selection matches

ASSUME ResourcesAssumption == IsFiniteSet(Resources)

VARIABLES registered,   \* the resources some local client controls (_resourceMap)
          entry,        \* requestMap[commandID]
          timer,        \* the request's timeout is armed
          fwd,          \* where the forwarding promise is, and with which resources
          emitting,     \* where the emitting promise is
          otherIsReady,
          asked,        \* resources whose clients were asked and have not responded
          answers,      \* what was sent to the requester, in order
          cached,       \* resources whose state reached the state cache
          changed       \* history: a registration changed after the request arrived

vars == <<registered, entry, timer, fwd, emitting, otherIsReady, asked, answers, cached, changed>>

NoEntry == [at |-> "none"]

\* What responseSet holds for a resource.  "client" is a local client's
\* response; "remote" and "failed" are the record a forwarded request gave
\* for it, whose own receivedResponse is true or false.  All three are stored
\* as received.
Outcomes == {"pending", "client", "remote", "failed"}

Entries == [at : {"open"}, get : BOOLEAN, isReady : BOOLEAN, pendingResponseCount : Int,
            responseSet : UNION {[S -> Outcomes] : S \in SUBSET Resources},
            updateBatch : SUBSET (Resources \X Outcomes)]

Answers == [status : {200, 400, 500}, timedOut : BOOLEAN,
            responseSet : UNION {[S -> Outcomes] : S \in SUBSET Resources}]

TypeOK ==
  /\ registered \subseteq Resources
  /\ entry = NoEntry \/ entry \in Entries
  /\ timer \in BOOLEAN
  /\ fwd \in [at : {"idle", "select", "lookup", "owners", "sent", "done"}, set : SUBSET Resources]
  /\ emitting \in {"idle", "select", "done"}
  /\ otherIsReady \in BOOLEAN
  /\ asked \subseteq Resources
  /\ \A i \in DOMAIN answers : answers[i] \in Answers
  /\ cached \subseteq Resources
  /\ changed \in BOOLEAN

Init ==
  /\ registered \in SUBSET Resources
  /\ entry = NoEntry
  /\ timer = FALSE
  /\ fwd = [at |-> "idle", set |-> {}]
  /\ emitting = "idle"
  /\ otherIsReady = FALSE
  /\ asked = {}
  /\ answers = <<>>
  /\ cached = {}
  /\ changed = FALSE

Nothing == [r \in {} |-> "pending"]
Pending(set) == {r \in DOMAIN set : set[r] = "pending"}

-----------------------------------------------------------------------------
(* The operations of an entry *)

\* Mutant: the timeout is not cleared.
FinishKeepsTimer(e, timedOut) ==
  /\ answers' = Append(answers, [status |-> 200, timedOut |-> timedOut, responseSet |-> e.responseSet])
  /\ entry' = NoEntry
  /\ UNCHANGED <<timer, cached>>

\* Mutant: the entry stays in requestMap.
FinishKeepsEntry(e, timedOut) ==
  /\ answers' = Append(answers, [status |-> 200, timedOut |-> timedOut, responseSet |-> e.responseSet])
  /\ timer' = FALSE
  /\ entry' = e
  /\ UNCHANGED cached

\* The state cache takes the whole batch or, when one of the values is
\* undefined, none of it.  The record of a forwarded request has no `result`,
\* so its value is undefined.
finish(e, timedOut) ==
  /\ answers' = Append(answers, [status |-> 200, timedOut |-> timedOut, responseSet |-> e.responseSet])
  /\ timer' = FALSE
  /\ cached' = IF \A u \in e.updateBatch : u[2] = "client"
                 THEN cached \cup {u[1] : u \in e.updateBatch} ELSE cached
  /\ entry' = NoEntry

\* `self.requestMap[commandID].cancel`: throws, to no effect, once the entry is gone.
cancel(status) ==
  IF entry = NoEntry
    THEN UNCHANGED <<answers, timer, cached, entry>>
    ELSE /\ answers' = Append(answers, [status |-> status, timedOut |-> FALSE, responseSet |-> Nothing])
         /\ timer' = FALSE
         /\ entry' = NoEntry
         /\ UNCHANGED cached

Keep(e) == entry' = e /\ UNCHANGED <<answers, timer, cached>>

\* Mutant: the second promise to be ready does not look at the count.
ReadyFinishes(e) == finish(e, FALSE)

ready(e) ==
  IF e.pendingResponseCount = 0 THEN finish(e, FALSE) ELSE Keep([e EXCEPT !.isReady = TRUE])

\* The responses resps, one after the other: those of resources that are listed
\* and have not responded count.
response(e, resps) ==
  LET new == DOMAIN resps \cap Pending(e.responseSet)
      now == [e EXCEPT !.responseSet = [r \in DOMAIN @ |-> IF r \in new THEN resps[r] ELSE @[r]],
                       !.updateBatch = IF e.get THEN @ \cup {<<r, resps[r]>> : r \in new} ELSE @,
                       !.pendingResponseCount = @ - Cardinality(new)]
  IN  IF new # {} /\ now.isReady /\ now.pendingResponseCount = 0 THEN finish(now, FALSE) ELSE Keep(now)

-----------------------------------------------------------------------------
(* The request arrives *)

\* Mutant: isReady is not initialised.
NewEntryUnready(get) == [at |-> "open", get |-> get, pendingResponseCount |-> 0,
                         responseSet |-> Nothing, updateBatch |-> {}]

NewEntry(get) == [at |-> "open", get |-> get, isReady |-> FALSE, pendingResponseCount |-> 0,
                  responseSet |-> Nothing, updateBatch |-> {}]

\* Mutant: no timeout is set.
RequestUntimed(get) ==
  /\ fwd.at = "idle"
  /\ entry' = NewEntry(get)
  /\ fwd' = [fwd EXCEPT !.at = "select"]
  /\ emitting' = "select"
  /\ UNCHANGED <<registered, timer, otherIsReady, asked, answers, cached, changed>>

Request(get) ==
  /\ fwd.at = "idle"
  /\ entry' = NewEntry(get)
  /\ timer' = TRUE
  /\ fwd' = [fwd EXCEPT !.at = "select"]
  /\ emitting' = "select"
  /\ UNCHANGED <<registered, otherIsReady, asked, answers, cached, changed>>

\* An invalid selection is answered at once; an invalid category is answered by
\* `cancel` right after the entry was made, in the same turn.
RequestRefused ==
  /\ fwd.at = "idle"
  /\ answers' = Append(answers, [status |-> 400, timedOut |-> FALSE, responseSet |-> Nothing])
  /\ fwd' = [fwd EXCEPT !.at = "done"]
  /\ emitting' = "done"
  /\ UNCHANGED <<registered, entry, timer, otherIsReady, asked, cached, changed>>

\* The callback ends the request with what it has.
Timeout ==
  /\ timer /\ entry # NoEntry
  /\ finish(entry, TRUE)
  /\ UNCHANGED <<registered, fwd, emitting, otherIsReady, asked, changed>>

-----------------------------------------------------------------------------
(* The forwarding promise *)

\* getSelection(selection, false, true) looks up who controls what, and then
\* may wait for the records of resources that are not cached.
ForwardSelects ==
  /\ fwd.at = "select"
  /\ fwd' = [at |-> "lookup", set |-> Resources \ registered]
  /\ UNCHANGED <<registered, entry, timer, emitting, otherIsReady, asked, answers, cached, changed>>

\* Mutant: resources already listed are taken off the count that never
\* included them.
ForwardListsShort ==
  LET new  == IF entry = NoEntry THEN {} ELSE fwd.set \ DOMAIN entry.responseSet
      now  == [entry EXCEPT !.pendingResponseCount = @ + Cardinality(new) - Cardinality(fwd.set \ new),
                            !.responseSet = [r \in DOMAIN @ \cup new |->
                                               IF r \in new THEN "pending" ELSE @[r]]]
  IN  /\ fwd.at = "lookup"
      /\ fwd' = [at |-> IF new # {} THEN "owners" ELSE "done", set |-> new]
      /\ otherIsReady' = TRUE
      /\ IF entry = NoEntry THEN UNCHANGED <<entry, timer, answers, cached>>
           ELSE IF otherIsReady THEN ready(now) ELSE Keep(now)
      /\ UNCHANGED <<registered, emitting, asked, changed>>

\* Resources already listed are the emitting promise's.
ForwardLists ==
  LET new  == IF entry = NoEntry THEN {} ELSE fwd.set \ DOMAIN entry.responseSet
      now  == [entry EXCEPT !.pendingResponseCount = @ + Cardinality(new),
                            !.responseSet = [r \in DOMAIN @ \cup new |->
                                               IF r \in new THEN "pending" ELSE @[r]]]
  IN  /\ fwd.at = "lookup"
      /\ fwd' = [at |-> IF new # {} THEN "owners" ELSE "done", set |-> new]
      /\ otherIsReady' = TRUE
      /\ IF entry = NoEntry THEN UNCHANGED <<entry, timer, answers, cached>>
           ELSE IF otherIsReady THEN ready(now) ELSE Keep(now)
      /\ UNCHANGED <<registered, emitting, asked, changed>>

\* Mutant: a resource whose owners name this node is struck off the list,
\* registered or not, and never off the count.
OwnersReadUncounted(taken, remote) ==
  /\ fwd.at = "owners" /\ entry # NoEntry
  /\ taken \subseteq fwd.set
  /\ remote \subseteq fwd.set \ taken
  /\ fwd' = [at |-> IF remote # {} THEN "sent" ELSE "done", set |-> remote]
  /\ Keep([entry EXCEPT !.responseSet = Restrict(@, DOMAIN @ \ taken)])
  /\ UNCHANGED <<registered, emitting, otherIsReady, asked, changed>>

\* The owners of the resources are read.  A resource that turns out to be
\* controlled here (taken) is left to the emitting promise and struck off,
\* and the request ends if none is left, ready or not; one with a reachable
\* owner is forwarded; one without stays pending.  With the entry gone,
\* striking one off throws and nothing is forwarded.
OwnersRead(taken, remote) ==
  LET left == [entry EXCEPT !.responseSet = Restrict(@, DOMAIN @ \ taken),
                            !.pendingResponseCount = @ - Cardinality(taken)]
  IN  /\ fwd.at = "owners"
      /\ taken \subseteq fwd.set \cap registered
      /\ remote \subseteq fwd.set \ taken
      /\ IF entry = NoEntry
           THEN /\ fwd' = [at |-> IF taken = {} /\ remote # {} THEN "sent" ELSE "done", set |-> remote]
                /\ UNCHANGED <<entry, timer, answers, cached>>
           ELSE /\ fwd' = [at |-> IF remote # {} THEN "sent" ELSE "done", set |-> remote]
                /\ IF taken # {} /\ left.pendingResponseCount = 0 THEN finish(left, FALSE) ELSE Keep(left)
      /\ UNCHANGED <<registered, emitting, otherIsReady, asked, changed>>

\* forwardRequests resolves: an owner gave a response for some resources
\* (or said that it got none, or could not be reached) and nothing for others.
\* With the entry gone the first response throws.
ForwardResponds(resps) ==
  /\ fwd.at = "sent" /\ DOMAIN resps \subseteq fwd.set
  /\ fwd' = [fwd EXCEPT !.at = "done"]
  /\ IF entry = NoEntry THEN UNCHANGED <<entry, timer, answers, cached>> ELSE response(entry, resps)
  /\ UNCHANGED <<registered, emitting, otherIsReady, asked, changed>>

\* The lookup of the selection or of its records fails.
ForwardFails ==
  /\ fwd.at \in {"select", "lookup"}
  /\ fwd' = [fwd EXCEPT !.at = "done"]
  /\ cancel(500)
  /\ UNCHANGED <<registered, emitting, otherIsReady, asked, changed>>

-----------------------------------------------------------------------------
(* The emitting promise *)

EmitLists == [entry EXCEPT !.pendingResponseCount = @ + Cardinality(registered),
                           !.responseSet = [r \in DOMAIN @ \cup registered |->
                                              IF r \in registered THEN "pending" ELSE @[r]]]

\* Mutant: the request is ready without the forwarding promise.
EmitAlone ==
  /\ emitting = "select" /\ entry # NoEntry
  /\ emitting' = "done"
  /\ otherIsReady' = TRUE
  /\ ready(EmitLists)
  /\ asked' = registered
  /\ UNCHANGED <<registered, fwd, changed>>

\* getSelection(selection, true, false), and in the same turn the commands for
\* the clients.  With the entry gone it throws before it asks anyone.
Emit ==
  /\ emitting = "select"
  /\ emitting' = "done"
  /\ otherIsReady' = TRUE
  /\ IF entry = NoEntry
       THEN UNCHANGED <<entry, timer, answers, cached, asked>>
       ELSE /\ IF otherIsReady THEN ready(EmitLists) ELSE Keep(EmitLists)
            /\ asked' = registered
  /\ UNCHANGED <<registered, fwd, changed>>

\* A controller has no socket any more: after some clients were asked (sent)
\* the promise is rejected and the request cancelled.
EmitThrows(sent) ==
  /\ emitting = "select" /\ entry # NoEntry
  /\ sent \subseteq registered /\ sent # registered
  /\ emitting' = "done"
  /\ otherIsReady' = TRUE
  /\ asked' = sent
  /\ cancel(500)
  /\ UNCHANGED <<registered, fwd, changed>>

EmitFails ==
  /\ emitting = "select"
  /\ emitting' = "done"
  /\ cancel(500)
  /\ UNCHANGED <<registered, fwd, otherIsReady, asked, changed>>

\* The 'response' listener of a client's socket.
ClientResponds(r) ==
  /\ r \in asked
  /\ asked' = asked \ {r}
  /\ IF entry = NoEntry THEN UNCHANGED <<entry, timer, answers, cached>>
       ELSE response(entry, [x \in {r} |-> "client"])
  /\ UNCHANGED <<registered, fwd, emitting, otherIsReady, changed>>

\* Clients register and unregister resources (PeerRegistration).
RegistrationChanges(r) ==
  /\ fwd.at # "idle"
  /\ changed' = TRUE
  /\ registered' = IF r \in registered THEN registered \ {r} ELSE registered \cup {r}
  /\ UNCHANGED <<entry, timer, fwd, emitting, otherIsReady, asked, answers, cached>>

\* Both promises and all clients are through.
Done == /\ fwd.at = "done" /\ emitting = "done" /\ entry = NoEntry /\ asked = {}
        /\ UNCHANGED vars

Next ==
  \/ \E get \in BOOLEAN : Request(get)
  \/ RequestRefused
  \/ Timeout
  \/ ForwardSelects
  \/ ForwardLists
  \/ \E taken, remote \in SUBSET Resources : OwnersRead(taken, remote)
  \/ \E S \in SUBSET fwd.set : \E resps \in [S -> {"remote", "failed"}] : ForwardResponds(resps)
  \/ ForwardFails
  \/ Emit
  \/ \E sent \in SUBSET Resources : EmitThrows(sent)
  \/ EmitFails
  \/ \E r \in Resources : ClientResponds(r) \/ RegistrationChanges(r)
  \/ Done

\* A timer that is armed fires: clients, owners and the database may stay
\* silent for ever.
Spec == Init /\ [][Next]_vars /\ WF_vars(Timeout)

-----------------------------------------------------------------------------
(* Properties *)

\* `res` is answered at most once, however the timeout, the responses, the
\* early end of the owner lookup and failures of either promise overlap: a
\* second answer throws "headers already sent".
AnsweredOnce == Len(answers) <= 1

\* A timeout is armed only while the request has its entry: a timeout that
\* found none would throw outside any promise and end the process.
TimeoutFindsEntry == timer => entry # NoEntry

\* The count never falls behind the resources still to respond, also when both
\* promises list a resource, so that `pendingResponseCount == 0` is never
\* reached too soon.
CountCoversPending ==
  entry # NoEntry => entry.pendingResponseCount >= Cardinality(Pending(entry.responseSet))

\* Only the timeout ends a request with a listed resource that has not responded.
CompleteUnlessTimedOut ==
  \A i \in DOMAIN answers : answers[i].timedOut \/ Pending(answers[i].responseSet) = {}

\* Every request is answered, whoever stays silent or fails.
EventuallyAnswered == entry # NoEntry ~> answers # <<>>

\* With registrations that do not change meanwhile, the count is exact: the
\* last response ends the request and it does not run into its timeout.
CountIsExact ==
  ~changed /\ entry # NoEntry =>
    entry.pendingResponseCount = Cardinality(Pending(entry.responseSet))

\* "When this promise resolves, it includes a map of resourceID to response":
\* with registrations that do not change meanwhile, the two promises split the
\* selection without a gap, and an answer that was not cut short covers it.
AnswerCoversSelection ==
  ~changed => \A i \in DOMAIN answers :
    answers[i].status = 200 /\ ~answers[i].timedOut => DOMAIN answers[i].responseSet = Resources

\* `res` is answered at most once, a timeout finds its entry, and the count
\* never falls behind the resources still to respond, however the timeout, the
\* responses, the owner lookup and failures of either promise overlap.
EntryIsSound == TypeOK /\ AnsweredOnce /\ TimeoutFindsEntry /\ CountCoversPending

\* Only the timeout ends a request with a listed resource that has not
\* responded; while registrations do not change the count is exact and an
\* answer that was not cut short covers the selection.
AnswersComplete == CompleteUnlessTimedOut /\ CountIsExact /\ AnswerCoversSelection
=============================================================================
