--------------------------- MODULE ForwardedAnswer ---------------------------
(***************************************************************************)
(* What POST /request relies on when it forwards a command to the servers  *)
(* that control some of its resources (ForwardResponds of RequestFanout):  *)
(* one answer or none, which may say of each resource that it responded,   *)
(* that it did not, or nothing, and which makes no response up.            *)
(***************************************************************************)
CONSTANT Resources

VARIABLES state,      \* "waiting", "answered" or "lost"
          answer,     \* what the answer says of each resource
          responded   \* resources whose clients have responded

answerVars == <<state, answer, responded>>

Silence == [r \in Resources |-> "none"]

Init == state = "waiting" /\ answer = Silence /\ responded = {}

Respond(S) == responded' = responded \cup S /\ UNCHANGED <<state, answer>>

Answer == /\ state = "waiting" /\ state' = "answered"
          /\ answer' \in [Resources -> {"none", "failed", "response"}]
          /\ \A r \in Resources : answer'[r] = "response" => r \in responded
          /\ UNCHANGED responded

Lose == state = "waiting" /\ state' = "lost" /\ UNCHANGED <<answer, responded>>

Next == Answer \/ Lose \/ \E S \in SUBSET Resources : Respond(S)

Spec == Init /\ [][Next]_answerVars
=============================================================================
