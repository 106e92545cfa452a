----------------------------- MODULE HealthState -----------------------------
(***************************************************************************)
(* The health classification of src/watchdog/state.py: pure functions from *)
(* what one probe read (a Railway service status and a Hermes health       *)
(* answer) to the classification that decides what the watchdog does.      *)
(*                                                                         *)
(* A timestamp is represented by its age in minutes when it is classified  *)
(* (negative when the API's clock is ahead of the runner's), a deployment  *)
(* by an opaque id, and a missing value by None.                           *)
(***************************************************************************)
EXTENDS Integers, HealthAnswer

CONSTANTS
  Threshold,    \* transition_threshold, in minutes
  Deployments   \* deployment ids

ASSUME NoneAssumption ==
  /\ None \notin Int
  /\ None \notin Deployments

ASSUME ThresholdAssumption == Threshold \in Nat

-----------------------------------------------------------------------------
(* What the two reads of a probe return.                                   *)

TransitionalStatuses ==
  {"INITIALIZING", "QUEUED", "BUILDING", "DEPLOYING", "WAITING", "NEEDS_APPROVAL"}

TerminalInactiveStatuses ==
  {"COMPLETED", "FAILED", "CRASHED", "REMOVED", "SLEEPING", "SKIPPED"}

DeploymentStatus ==
  TransitionalStatuses \cup TerminalInactiveStatuses
    \cup {"SUCCESS", "REMOVING", "UNKNOWN"}

Age == Int \cup {None}

ServiceStatus ==
  [has_active_deployment     : BOOLEAN,
   active_deployment_id      : Deployments \cup {None},
   restartable_deployment_id : Deployments \cup {None},
   latest_status             : DeploymentStatus,
   latest_created_at         : Age,
   latest_updated_at         : Age,
   stopped                   : BOOLEAN,
   instance_running          : BOOLEAN]

-----------------------------------------------------------------------------
(* Railway mode: classify().                                               *)

RailwayClassification ==
  {"healthy", "gateway_only_failure", "transitional", "container_failure"}

InTransition(s) == s.latest_status \in TransitionalStatuses

(* latest_updated_at or latest_created_at                                  *)
TransitionAge(s) ==
  IF s.latest_updated_at # None THEN s.latest_updated_at ELSE s.latest_created_at

RecentTransition(s) ==
  /\ InTransition(s)
  /\ TransitionAge(s) # None
  /\ TransitionAge(s) <= Threshold

(* Railway reports a container that runs: only then does the health answer *)
(* matter.                                                                 *)
ContainerRunning(s) ==
  /\ ~InTransition(s)
  /\ s.has_active_deployment
  /\ s.latest_status \notin TerminalInactiveStatuses
  /\ ~s.stopped
  /\ s.instance_running

Classify(s, h) ==
  IF RecentTransition(s) THEN "transitional"
  ELSE IF ~ContainerRunning(s) \/ h = None THEN "container_failure"
  ELSE IF Healthy(h) THEN "healthy" ELSE "gateway_only_failure"

=============================================================================
