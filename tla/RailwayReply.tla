---------------------------- MODULE RailwayReply ----------------------------
(***************************************************************************)
(* How src/watchdog/railway.py reads the data of a status query: from the  *)
(* deployments Railway lists to the ServiceStatus that is classified.      *)
(***************************************************************************)
EXTENDS HealthState, Sequences

CONSTANT Zoneless  \* a timestamp without a zone: it has no age

(* A timestamp as sent; age is what it would be classified with.           *)
RawTime ==
  [form : {"zoned", "zoneless", "garbled"}, age : Int] \cup {None}

RawDeployment ==
  [id        : Deployments \cup {None},
   status    : DeploymentStatus \cup {"unheard of", None},
   created   : RawTime,
   updated   : RawTime,
   stopped   : BOOLEAN,
   instances : SUBSET {"RUNNING", "HEALTHY", "CRASHED"}]

(* Each of the six ids of a reply that must be the requested one.          *)
IdFields ==
  {"service.id", "service.projectId", "environment.id", "environment.projectId",
   "instance.serviceId", "instance.environmentId"}

(* shape: every object and list is where it is expected; mismatch: the ids *)
(* that differ from the requested ones.                                    *)
Reply ==
  [shape : BOOLEAN, mismatch : SUBSET IdFields,
   active : Seq(RawDeployment), latest : RawDeployment \cup {None}]

(* Mutant: only the service's own id is compared.                          *)
SameServiceId(r) == r.shape /\ "service.id" \notin r.mismatch

(* _expect_dict, _expect_list and "railway response identity mismatch".    *)
Acceptable(r) == r.shape /\ r.mismatch = {}

(* Mutant: a status that is not known is kept.                             *)
AnyStatus(raw) == raw

ParseDeploymentStatus(raw) ==
  IF raw \in DeploymentStatus THEN raw ELSE "UNKNOWN"

ParseDt(raw) ==
  IF raw = None THEN None
  ELSE CASE raw.form = "zoned"    -> raw.age
         [] raw.form = "zoneless" -> Zoneless
         [] raw.form = "garbled"  -> None

ActiveId(r) == IF r.active = <<>> THEN None ELSE r.active[1].id

(* Mutant: a deployment that succeeded is taken to run.                    *)
RunsOrSucceeded(r) ==
  /\ r.active # <<>>
  /\ r.active[1].instances \cap {"RUNNING", "HEALTHY"} # {}
       \/ r.active[1].status = "SUCCESS"

(* Only the active deployment tells, and no status stands in for it.       *)
InstanceRunning(r) ==
  /\ r.active # <<>>
  /\ r.active[1].instances \cap {"RUNNING", "HEALTHY"} # {}

ParseStatus(r) ==
  [has_active_deployment     |-> r.active # <<>>,
   active_deployment_id      |-> ActiveId(r),
   restartable_deployment_id |->
     IF r.latest # None /\ r.latest.id # None THEN r.latest.id ELSE ActiveId(r),
   latest_status             |->
     IF r.latest = None THEN "UNKNOWN" ELSE ParseDeploymentStatus(r.latest.status),
   latest_created_at         |->
     IF r.latest = None THEN None ELSE ParseDt(r.latest.created),
   latest_updated_at         |->
     IF r.latest = None THEN None ELSE ParseDt(r.latest.updated),
   stopped                   |-> r.active # <<>> /\ r.active[1].stopped,
   instance_running          |-> InstanceRunning(r)]
=============================================================================
