-------------------------- MODULE RecoveryContract --------------------------
(***************************************************************************)
(* What the header of src/watchdog/orchestrator.py promises of a recovery, *)
(* without probes, retries, polls or budgets: a target is looked at, may   *)
(* be restarted on the evidence of the look before, and is closed with a   *)
(* verdict.                                                                *)
(***************************************************************************)
EXTENDS Naturals

CONSTANTS Targets, None

VARIABLES
  dryRun,    \* no mutation is allowed
  evidence,  \* what the look at hand found, None when there is none
  restarts,  \* the restarts requested
  verdict    \* how the target was closed, None while it is open

contractVars == <<dryRun, evidence, restarts, verdict>>

Findings ==
  {"healthy", "gateway_only_failure", "transitional", "container_failure"}

Mutations == {"container", "gateway"}

(* What must just have been seen for a restart.                            *)
Cause(m) ==
  IF m = "container" THEN "container_failure" ELSE "gateway_only_failure"

ContractInit ==
  /\ dryRun \in BOOLEAN
  /\ evidence = [t \in Targets |-> None]
  /\ restarts = [t \in Targets |-> [container |-> 0, gateway |-> 0]]
  /\ verdict = [t \in Targets |-> None]

Open(t) == verdict[t] = None

Look(t) ==
  /\ Open(t)
  /\ \E e \in Findings \cup {None} : evidence' = [evidence EXCEPT ![t] = e]
  /\ UNCHANGED <<dryRun, restarts, verdict>>

(* At most once each, the container before the gateway, never in a dry     *)
(* run, and the evidence is used up.                                       *)
Restart(t, m) ==
  /\ Open(t)
  /\ ~dryRun
  /\ evidence[t] = Cause(m)
  /\ restarts[t].gateway = 0
  /\ restarts[t][m] = 0
  /\ restarts' = [restarts EXCEPT ![t][m] = 1]
  /\ evidence' = [evidence EXCEPT ![t] = None]
  /\ UNCHANGED <<dryRun, verdict>>

(* Recovered and deferred need a look that says so; a reported action was  *)
(* requested.                                                              *)
Close(t) ==
  /\ Open(t)
  /\ \E action \in {"none", "gateway_restart", "container_restart"},
        recovered, deferred \in BOOLEAN :
       /\ recovered => evidence[t] = "healthy"
       /\ deferred => evidence[t] = "transitional"
       /\ action = "gateway_restart" => restarts[t] = [container |-> 0, gateway |-> 1]
       /\ action = "container_restart" => restarts[t].container = 1
       /\ recovered /\ action = "none" => restarts[t] = [container |-> 0, gateway |-> 0]
       /\ verdict' = [verdict EXCEPT ![t] =
            [action |-> action, recovered |-> recovered, deferred |-> deferred]]
  /\ evidence' = [evidence EXCEPT ![t] = None]
  /\ UNCHANGED <<dryRun, restarts>>

ContractNext ==
  \E t \in Targets :
    Look(t) \/ Close(t) \/ \E m \in Mutations : Restart(t, m)

ContractSpec == ContractInit /\ [][ContractNext]_contractVars
=============================================================================
