---------------------------- MODULE MCSelfHosted ----------------------------
(* Instances of SelfHosted for TLC.                                        *)
EXTENDS SelfHostedInvariant

Up(down) == [status_ok |-> TRUE, gateway_running |-> TRUE, down |-> down]

(* A dashboard that answers 200 says whether the gateway runs and which    *)
(* platforms are down.                                                     *)
MCHealthReplies ==
  {[status_ok |-> TRUE, gateway_running |-> FALSE, down |-> {}]}
    \cup {Up(down) : down \in SUBSET Platforms}
=============================================================================
