------------------------------ MODULE MCRequests ------------------------------
(* A request at the server that gets it, its forwarding to other servers, and *)
(* the tunnel with the cloud's subscriptions: the initial state chooses which. *)
EXTENDS RequestFanout, ForwardedRequest

CONSTANTS n1, n2, f3

VARIABLE class

allVars == <<class, vars, fwdVars>>

MCOwner == [r \in Forwarded |-> IF r = f3 THEN n2 ELSE n1]

MCInit ==
  /\ Init /\ ForwardInit
  /\ class \in {"RequestFanout", "ForwardedRequest", "CloudTunnel"}
  /\ class # "RequestFanout" => registered = {}
  /\ class # "ForwardedRequest" => ~hasTunnel

FanoutStep  == class = "RequestFanout" /\ Next /\ UNCHANGED <<class, fwdVars>>
ForwardStep == class = "ForwardedRequest" /\ ForwardNext /\ UNCHANGED <<class, vars>>
TunnelStep  == class = "CloudTunnel" /\ TunnelNext /\ UNCHANGED <<class, vars, forwardVars>>

Fair(action) == class = "ForwardedRequest" /\ action /\ UNCHANGED <<class, vars>>

MCSpec == /\ MCInit /\ [][FanoutStep \/ ForwardStep \/ TunnelStep]_allVars
          /\ WF_allVars(FanoutStep /\ Timeout)
          /\ WF_allVars(Fair(Resolve))
          /\ \A n \in Servers : WF_allVars(Fair(ForwardTimeout(n))) /\ WF_allVars(Fair(PostMoves(n)))
=============================================================================
