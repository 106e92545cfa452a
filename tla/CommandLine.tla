---------------------------- MODULE CommandLine -----------------------------
(***************************************************************************)
(* main() of src/watchdog/cli.py on either side of the recoveries: from    *)
(* the environment to a run (Config), and from the service names of its    *)
(* outcomes to the summary (PublicText), with the redactor that is made of *)
(* the configuration's secrets.                                            *)
(***************************************************************************)
EXTENDS Config, PublicText

CONSTANT
  FollowedRuns  \* bound: the inputs of the runs that are followed to their summary

vars == <<configVars, textVars>>

Init == ConfigInit /\ TextInit

TypeOK ==
  /\ ConfigTypeOK
  /\ service_name \in Names \cup {<<>>}
  /\ stage \in {"none", "raw", "redacted", "sanitized", "summary"}

RenderSummary ==
  /\ phase = "run" /\ <<doc, token, service>> \in FollowedRuns
  /\ TextStep

Next ==
  \/ ConfigStep /\ UNCHANGED textVars
  \/ RenderSummary /\ UNCHANGED configVars

Spec == Init /\ [][Next]_vars
=============================================================================
