----------------------------- MODULE MCRecovery -----------------------------
(***************************************************************************)
(* Instances of Recovery for TLC.  A status reply is what the Railway      *)
(* client makes of a listing of deployments, chosen for the branch it      *)
(* takes.                                                                  *)
(***************************************************************************)
EXTENDS RecoveryInvariant, RecoveryRefinement, RailwayReplies

Status(active, latest) == ParseStatus(About(active, latest))

Running == Status(<<Serving("d1")>>, Serving("d1"))
Halted ==
  Status(<<[Serving("d1") EXCEPT !.stopped = TRUE, !.instances = {}]>>, Serving("d1"))
Crashed == Status(<<>>, Deployed("d1", "CRASHED", 30, {}))
Absent == Status(<<>>, None)
Deploying == Status(<<Serving("d1")>>, Building("d2"))
Stuck == Status(<<Serving("d1")>>, Deployed("d2", "DEPLOYING", 60, {}))
FailedUpdate == Status(<<Serving("d1")>>, Deployed("d2", "FAILED", 30, {}))

GatewayUp == [status_ok |-> TRUE, gateway_running |-> TRUE, down |-> {}]
GatewayDown == [GatewayUp EXCEPT !.gateway_running = FALSE]

AllReplies ==
  {Running, Halted, Crashed, Absent, Deploying, Stuck, FailedUpdate}
BothAnswers == {GatewayUp, GatewayDown}
=============================================================================
