--------------------------- MODULE ForwardedRequest ---------------------------
(***************************************************************************)
(* A request that is forwarded to the servers that control some of its     *)
(* resources: forwardRequests of the ForwardingManager                     *)
(* (src/core/requestManager.js) at the server that sends it, and its       *)
(* 'request' listener (src/core/httpServer.js) at the servers that get it. *)
(* A server with an address gets it by HTTP, one without through the       *)
(* cloud, if the sender's tunnel (CloudTunnel) is connected.               *)
(*                                                                         *)
(* One call of forwardRequests is modelled, from its start to the last     *)
(* late response.  Calls share nothing but the tunnel.                     *)
(***************************************************************************)
EXTENDS CloudTunnel, FiniteSets

CONSTANTS Servers, Forwarded,   \* Forwarded: the resources of the call
          Owner                 \* the server each resource is forwarded to

\* The call has a list of resources for each server, and none that is empty.
ASSUME ForwardAssumption ==
  /\ IsFiniteSet(Forwarded)
  /\ Owner \in [Forwarded -> Servers]
  /\ \A n \in Servers : \E r \in Forwarded : Owner[r] = n

VARIABLES hasTunnel,    \* the server has a cloud tunnel (coreServerOptions.cloudAddress)
          call,         \* the promise forwardRequests returned
          leg,          \* forwardPromises: one per server
          responseMap,  \* what it has for each resource
          sent,         \* servers to which the request is on its way
          reply,        \* the answers on their way back
          fwdEntry,        \* requestMap[commandID] at each server
          fwdTimer,        \* its timeout is armed
          onward,       \* its resources without a client at that server
          fwdAsked,        \* resources whose clients got the command there
          responded     \* history: resources that responded to someone

forwardVars == <<hasTunnel, call, leg, responseMap, sent, reply, fwdEntry, fwdTimer, onward, fwdAsked, responded>>
fwdVars == <<tunnelVars, forwardVars>>

NoForward == [at |-> "none"]
NoReply == [at |-> "none"]
Of(n) == {r \in Forwarded : Owner[r] = n}
Nobody == [at |-> "none", set |-> {}]

\* One listener's responseSet: receivedResponse of each of its resources.
Sets == UNION {[S -> BOOLEAN] : S \in SUBSET Forwarded}

ForwardTypeOK ==
  /\ TunnelTypeOK
  /\ hasTunnel \in BOOLEAN
  /\ call \in {"idle", "addresses", "waiting", "resolved", "rejected"}
  /\ leg \in [Servers -> {"none", "post", "tunnel", "ended", "rejected"}]
  /\ responseMap \in [Forwarded -> {"none", "failed", "response"}]
  /\ sent \subseteq Servers
  /\ \A n \in Servers :
       /\ reply[n] = NoReply \/ reply[n] \in [at : {"sent"}, status : {200, 400}, timedOut : BOOLEAN, set : Sets]
       /\ fwdEntry[n] = NoForward \/ fwdEntry[n] \in [at : {"open"}, pendingResponseCount : Int, responseSet : Sets]
       /\ onward[n] \in [at : {"none", "lookup", "sent"}, set : SUBSET Forwarded]
  /\ fwdTimer \in [Servers -> BOOLEAN]
  /\ fwdAsked \subseteq Forwarded /\ responded \subseteq Forwarded

ForwardInit ==
  /\ TunnelInit
  /\ hasTunnel \in BOOLEAN
  /\ call = "idle"
  /\ leg = [n \in Servers |-> "none"]
  /\ responseMap = [r \in Forwarded |-> "none"]
  /\ sent = {}
  /\ reply = [n \in Servers |-> NoReply]
  /\ fwdEntry = [n \in Servers |-> NoForward]
  /\ fwdTimer = [n \in Servers |-> FALSE]
  /\ onward = [n \in Servers |-> Nobody]
  /\ fwdAsked = {} /\ responded = {}

senderVars == <<call, leg, responseMap>>
listenerVars == <<reply, fwdEntry, fwdTimer, onward, fwdAsked, responded>>

-----------------------------------------------------------------------------
(* The sender: forwardRequests *)

forwardRequests ==
  /\ call = "idle" /\ call' = "addresses"
  /\ UNCHANGED <<tunnelVars, hasTunnel, leg, responseMap, sent, listenerVars>>

\* getAddresses fails.
AddressesFail ==
  /\ call = "addresses" /\ call' = "rejected"
  /\ UNCHANGED <<tunnelVars, hasTunnel, leg, responseMap, sent, listenerVars>>

\* The addresses of `direct` are known.  Without a tunnel the first server
\* that has none makes the loop throw: the call is rejected, and the requests
\* to the servers before it are on their way.  With a tunnel that is not
\* connected such a server is passed over.  sendMessage does nothing when the
\* socket is null.
SendRequests(direct, tunnelled) ==
  /\ call = "addresses"
  /\ direct \subseteq Servers
  /\ tunnelled = IF hasTunnel /\ isConnected THEN Servers \ direct ELSE {}
  /\ leg' = [n \in Servers |-> CASE n \in direct -> "post" [] n \in tunnelled -> "tunnel" [] OTHER -> "ended"]
  /\ IF direct # Servers /\ ~hasTunnel
       THEN call' = "rejected" /\ sent' \in SUBSET direct
       ELSE call' = "waiting" /\ sent' = direct \cup (IF socket # "none" THEN tunnelled ELSE {})
  /\ UNCHANGED <<tunnelVars, hasTunnel, responseMap, listenerVars>>

\* Mutant: whatever a server lists counts as a response.
MergeAll(set) ==
  responseMap' = [r \in Forwarded |-> IF r \in DOMAIN set THEN "response" ELSE responseMap[r]]

Merge(set) ==
  responseMap' = [r \in Forwarded |->
    IF r \in DOMAIN set THEN (IF set[r] THEN "response" ELSE "failed") ELSE responseMap[r]]

\* An answer arrives.  A status other than 200 is an error to a direct request;
\* through the tunnel the text of the answer names no resource.  The answer to a
\* promise that was settled is ignored.
ReplyArrives(n) ==
  /\ reply[n] # NoReply
  /\ reply' = [reply EXCEPT ![n] = NoReply]
  /\ IF leg[n] \in {"post", "tunnel"}
       THEN /\ leg' = [leg EXCEPT ![n] = "ended"]
            /\ IF reply[n].status = 200 THEN Merge(reply[n].set)
               ELSE IF leg[n] = "post" THEN Merge([r \in Of(n) |-> FALSE])
               ELSE UNCHANGED responseMap
       ELSE UNCHANGED <<leg, responseMap>>
  /\ UNCHANGED <<tunnelVars, hasTunnel, call, sent, fwdEntry, fwdTimer, onward, fwdAsked, responded>>

\* A direct request meets an error: no connection, or one that broke.
PostFails(n) ==
  /\ leg[n] = "post"
  /\ leg' = [leg EXCEPT ![n] = "ended"]
  /\ Merge([r \in Of(n) |-> FALSE])
  /\ UNCHANGED <<tunnelVars, hasTunnel, call, sent, listenerVars>>

\* Promise.all has them all.
Resolve ==
  /\ call = "waiting" /\ \A n \in Servers : leg[n] = "ended"
  /\ call' = "resolved"
  /\ UNCHANGED <<tunnelVars, hasTunnel, leg, responseMap, sent, listenerVars>>

\* The tunnel closes: all promises of responsePromises are rejected, and with
\* the first of them the call.
TunnelDisconnects ==
  LET gone == {n \in Servers : leg[n] = "tunnel"}
  IN  /\ onDisconnect
      /\ leg' = [n \in Servers |-> IF n \in gone THEN "rejected" ELSE leg[n]]
      /\ call' = IF call = "waiting" /\ gone # {} THEN "rejected" ELSE call
      /\ UNCHANGED <<hasTunnel, responseMap, sent, listenerVars>>

\* The cloud's subscriptions use the same tunnel and touch nothing of requests:
\* they are left to CloudTunnel.
TunnelSteps ==
  /\ hasTunnel
  /\ \/ TunnelDisconnects
     \/ (start \/ stop \/ onConnect) /\ UNCHANGED forwardVars

\* What goes through the cloud may get lost there.
CloudLoses(n) ==
  /\ leg[n] \in {"tunnel", "rejected"} /\ (n \in sent \/ reply[n] # NoReply)
  /\ sent' = sent \ {n}
  /\ reply' = [reply EXCEPT ![n] = NoReply]
  /\ UNCHANGED <<tunnelVars, hasTunnel, senderVars, fwdEntry, fwdTimer, onward, fwdAsked, responded>>

-----------------------------------------------------------------------------
(* The servers that get it: the 'request' listener *)

\* Mutant: the timeout is left armed.
FinishForwardTimed(n, e, timedOut) ==
  /\ reply' = [reply EXCEPT ![n] = [at |-> "sent", status |-> 200, timedOut |-> timedOut, set |-> e.responseSet]]
  /\ fwdEntry' = [fwdEntry EXCEPT ![n] = NoForward]
  /\ UNCHANGED fwdTimer

\* The responder answers once; the entry is deleted with its first answer.
finishForward(n, e, timedOut) ==
  /\ reply' = [reply EXCEPT ![n] = [at |-> "sent", status |-> 200, timedOut |-> timedOut, set |-> e.responseSet]]
  /\ fwdEntry' = [fwdEntry EXCEPT ![n] = NoForward]
  /\ fwdTimer' = [fwdTimer EXCEPT ![n] = FALSE]

\* Count k of the entry's resources down, and finish when none is left.
CountDown(n, e, k) ==
  LET now == [e EXCEPT !.pendingResponseCount = @ - k]
  IN  IF k > 0 /\ now.pendingResponseCount = 0 THEN finishForward(n, now, FALSE)
      ELSE fwdEntry' = [fwdEntry EXCEPT ![n] = now] /\ UNCHANGED <<reply, fwdTimer>>

\* Mutant: a resource that responds again is counted again.
ForwardResponseCountsTwice(n, S) ==
  IF fwdEntry[n] = NoForward THEN UNCHANGED <<fwdEntry, reply, fwdTimer>>
  ELSE LET new == S \cap DOMAIN fwdEntry[n].responseSet
       IN  CountDown(n, [fwdEntry[n] EXCEPT !.responseSet = [r \in DOMAIN @ |-> r \in new \/ @[r]]],
                     Cardinality(new))

\* entry.response, for each of the resources S: those that are listed and have
\* not responded count.  Without an entry it is too late.
forwardResponse(n, S) ==
  IF fwdEntry[n] = NoForward THEN UNCHANGED <<fwdEntry, reply, fwdTimer>>
  ELSE LET new == {r \in S \cap DOMAIN fwdEntry[n].responseSet : ~fwdEntry[n].responseSet[r]}
       IN  CountDown(n, [fwdEntry[n] EXCEPT !.responseSet = [r \in DOMAIN @ |-> r \in new \/ @[r]]],
                     Cardinality(new))

\* Mutant: no timeout is set.
ForwardArrivesUntimed(n, local) ==
  /\ n \in sent /\ sent' = sent \ {n}
  /\ local \subseteq Of(n)
  /\ fwdEntry' = [fwdEntry EXCEPT ![n] = [at |-> "open", pendingResponseCount |-> Cardinality(Of(n)),
                                    responseSet |-> [r \in Of(n) |-> FALSE]]]
  /\ fwdAsked' = fwdAsked \cup local
  /\ onward' = [onward EXCEPT ![n] = IF local = Of(n) THEN Nobody
                                     ELSE [at |-> "lookup", set |-> Of(n) \ local]]
  /\ UNCHANGED <<tunnelVars, hasTunnel, senderVars, reply, fwdTimer, responded>>

\* The clients of the resources `local` are asked; for the others the owner
\* records are read.  All of them are counted first, and the entry is ready.
\* (A client without a socket makes the listener throw: the sender meets an error,
\* as in PostFails, and the answer that is given later ends the process, as in
\* ServerCrash.)
ForwardArrives(n, local) ==
  /\ n \in sent /\ sent' = sent \ {n}
  /\ local \subseteq Of(n)
  /\ fwdEntry' = [fwdEntry EXCEPT ![n] = [at |-> "open", pendingResponseCount |-> Cardinality(Of(n)),
                                    responseSet |-> [r \in Of(n) |-> FALSE]]]
  /\ fwdTimer' = [fwdTimer EXCEPT ![n] = TRUE]
  /\ fwdAsked' = fwdAsked \cup local
  /\ onward' = [onward EXCEPT ![n] = IF local = Of(n) THEN Nobody
                                     ELSE [at |-> "lookup", set |-> Of(n) \ local]]
  /\ UNCHANGED <<tunnelVars, hasTunnel, senderVars, reply, responded>>

\* The selection is invalid here.
ForwardRefused(n) ==
  /\ n \in sent /\ sent' = sent \ {n}
  /\ reply' = [reply EXCEPT ![n] = [at |-> "sent", status |-> 400, timedOut |-> FALSE, set |-> <<>>]]
  /\ UNCHANGED <<tunnelVars, hasTunnel, senderVars, fwdEntry, fwdTimer, onward, fwdAsked, responded>>

\* The records of the resources that nobody controls here are read.  The
\* resources `gone` have no record, or one that names this very server: they are
\* counted down.  The others are forwarded once more.  After the entry is gone,
\* counting down throws and nothing is forwarded.
ForwardOwnersRead(n, gone) ==
  /\ onward[n].at = "lookup"
  /\ gone \subseteq onward[n].set
  /\ onward' = [onward EXCEPT ![n] =
       IF gone = @.set \/ (gone # {} /\ fwdEntry[n] = NoForward) THEN Nobody
       ELSE [at |-> "sent", set |-> @.set \ gone]]
  /\ IF fwdEntry[n] = NoForward THEN UNCHANGED <<fwdEntry, reply, fwdTimer>>
     ELSE CountDown(n, fwdEntry[n], Cardinality(gone))
  /\ UNCHANGED <<tunnelVars, hasTunnel, senderVars, sent, fwdAsked, responded>>

\* The read fails, or forwarding once more does: "will receive no response for
\* these".
OnwardFails(n) ==
  /\ onward[n] # Nobody
  /\ onward' = [onward EXCEPT ![n] = Nobody]
  /\ UNCHANGED <<tunnelVars, hasTunnel, senderVars, sent, reply, fwdEntry, fwdTimer, fwdAsked, responded>>

\* The third server answers with responses of the resources S.
OnwardResponds(n, S) ==
  /\ onward[n].at = "sent" /\ S \subseteq onward[n].set
  /\ onward' = [onward EXCEPT ![n] = Nobody]
  /\ forwardResponse(n, S)
  /\ responded' = responded \cup S
  /\ UNCHANGED <<tunnelVars, hasTunnel, senderVars, sent, fwdAsked>>

\* The 'response' listener of a client's socket; a client may respond again.
ForwardClientResponds(r) ==
  /\ r \in fwdAsked
  /\ forwardResponse(Owner[r], {r})
  /\ responded' = responded \cup {r}
  /\ UNCHANGED <<tunnelVars, hasTunnel, senderVars, sent, onward, fwdAsked>>

ForwardTimeout(n) ==
  /\ fwdTimer[n] /\ fwdEntry[n] # NoForward
  /\ finishForward(n, fwdEntry[n], TRUE)
  /\ UNCHANGED <<tunnelVars, hasTunnel, senderVars, sent, onward, fwdAsked, responded>>

\* The server ends and starts again; its clients' late responses find nothing.
ServerCrash(n) ==
  /\ fwdEntry[n] # NoForward
  /\ fwdEntry' = [fwdEntry EXCEPT ![n] = NoForward]
  /\ fwdTimer' = [fwdTimer EXCEPT ![n] = FALSE]
  /\ onward' = [onward EXCEPT ![n] = Nobody]
  /\ fwdAsked' = fwdAsked \ Of(n)
  /\ UNCHANGED <<tunnelVars, hasTunnel, senderVars, sent, reply, responded>>

ForwardNext ==
  \/ forwardRequests \/ AddressesFail \/ Resolve \/ TunnelSteps
  \/ \E direct, tunnelled \in SUBSET Servers : SendRequests(direct, tunnelled)
  \/ \E n \in Servers :
       \/ ReplyArrives(n) \/ PostFails(n) \/ CloudLoses(n)
       \/ ForwardRefused(n) \/ OnwardFails(n) \/ ForwardTimeout(n) \/ ServerCrash(n)
       \/ \E S \in SUBSET Of(n) : ForwardArrives(n, S) \/ ForwardOwnersRead(n, S) \/ OnwardResponds(n, S)
  \/ \E r \in Forwarded : ForwardClientResponds(r)

\* A request by HTTP arrives, is answered, or its connection breaks: in each
\* state one of the three.
PostMoves(n) ==
  /\ leg[n] = "post"
  /\ \/ n \in sent /\ (ForwardRefused(n) \/ \E S \in SUBSET Of(n) : ForwardArrives(n, S))
     \/ ReplyArrives(n)
     \/ n \notin sent /\ fwdEntry[n] = NoForward /\ reply[n] = NoReply /\ PostFails(n)

\* Timers fire, and no request by HTTP stays under way for ever.  Nothing is
\* assumed of clients, databases, crashes and the tunnel.
ForwardFairness == WF_fwdVars(Resolve) /\ \A n \in Servers : WF_fwdVars(ForwardTimeout(n)) /\ WF_fwdVars(PostMoves(n))

ForwardSpec == ForwardInit /\ [][ForwardNext]_fwdVars /\ ForwardFairness

-----------------------------------------------------------------------------
(* Properties *)

\* A listener's timeout is armed exactly while it has its entry (a timer that
\* found none would end the process; an entry without one would never be
\* answered), and an entry always waits for somebody: when the last resource
\* responds or turns out to have no owner, the entry goes.
EntriesWait ==
  \A n \in Servers :
    /\ fwdTimer[n] <=> fwdEntry[n] # NoForward
    /\ fwdEntry[n] # NoForward =>
         fwdEntry[n].pendingResponseCount \in 1..Cardinality({r \in DOMAIN fwdEntry[n].responseSet : ~fwdEntry[n].responseSet[r]})

ForwardedEntryWaits == ForwardTypeOK /\ EntriesWait

\* Only the timeout cuts an answer short of the response of a client that was
\* asked, however responses, repeated responses and the owner lookup interleave.
RepliesComplete ==
  \A n \in Servers : reply[n] # NoReply /\ reply[n].status = 200 /\ ~reply[n].timedOut =>
    \A r \in Of(n) \cap fwdAsked : reply[n].set[r]

\* The sender gets what the abstract answer allows: one answer or none, and no
\* response that no resource gave, over timeouts, errors, crashes, late replies
\* and a tunnel that closes.
AnswerState == CASE call = "resolved" -> "answered" [] call = "rejected" -> "lost" [] OTHER -> "waiting"
AnswerGiven == IF call = "resolved" THEN responseMap ELSE [r \in Forwarded |-> "none"]

Answer == INSTANCE ForwardedAnswer WITH Resources <- Forwarded, state <- AnswerState, answer <- AnswerGiven

ImplementsAnswer == Answer!Spec

\* A call without a leg through the tunnel is settled in the end, with whatever
\* the direct servers gave; only a disconnect of the tunnel loses their answers.
OnlyDirectLegs == call = "waiting" /\ \A n \in Servers : leg[n] \in {"post", "ended"}

DirectCallSettles == OnlyDirectLegs ~> call = "resolved"
=============================================================================
