------------------------------ MODULE Recovery ------------------------------
(***************************************************************************)
(* Recovery of Railway targets: Orchestrator.run and everything it calls   *)
(* for one target (_recover_one, _recover_gateway_only, _recover_container, *)
(* _do_gateway_restart, _wait_container_up, _probe, _health_probe) of      *)
(* src/watchdog/orchestrator.py, as a thread pool runs it.                 *)
(*                                                                         *)
(* A step is what a target's thread does between two points where it waits *)
(* for somebody else: a request, its answer, or a decision on what was     *)
(* read.  The services are free: each read may return any reply.  A step   *)
(* that blocks may take any time, so a budget is the one fact the code     *)
(* asks of it, whether it has expired; it may expire between any two steps *)
(* (never, when per_target_deadline is None).                              *)
(***************************************************************************)
EXTENDS HealthState, FiniteSets

CONSTANTS
  NumTargets,     \* how many targets the run selected
  Concurrency,    \* the cap on worker threads
  HealthRetries,  \* health_retries: extra health checks after a failed one
  WaitAttempts,   \* wait_attempts: polls for a restarted container
  StatusReplies,  \* the service statuses Railway may report
  HealthReplies   \* the answers a reachable gateway may give

ASSUME RecoveryAssumption ==
  /\ NumTargets \in Nat \ {0}
  /\ Concurrency \in Nat \ {0}
  /\ HealthRetries \in Nat
  /\ WaitAttempts \in Nat
  /\ StatusReplies \subseteq ServiceStatus
  /\ HealthReplies \subseteq HealthResult
  /\ None \notin StatusReplies
  /\ None \notin HealthReplies
  /\ None \notin RailwayClassification

Targets == 1 .. NumTargets

Actions == {"none", "gateway_restart", "container_restart"}

(* Where a probe was asked for.  Only in "wait" are the two reads not      *)
(* classified but compared with what a restarted container looks like.     *)
ProbeSites == {"first", "gwCheck", "ctCheck", "postCheck", "verify"}
Sites == ProbeSites \cup {"wait"}

(* What a target's thread does next: "status" and "health" read, "decide"  *)
(* acts on what was read, "wait" begins a poll, "container" and "gateway"  *)
(* are about to request a restart, "containerReply" and "gatewayReply"     *)
(* wait for its answer.                                                    *)
Stages == {"queued", "status", "health", "decide", "wait", "container",
           "containerReply", "gateway", "gatewayReply", "done"}

VARIABLES
  dryRun,   \* the --dry-run flag
  run,      \* the locals of each target's thread
  outcome,  \* the TargetOutcome of each target, None until it is built
  hist      \* history: full probes that found a failure, the latest full
            \* probe's classification (None again once a restart is
            \* requested), and the restarts requested

vars == <<dryRun, run, outcome, hist>>

Locals ==
  [pc      : Stages,
   site    : Sites,
   expired : BOOLEAN,                        \* budget.expired()
   tries   : 0 .. HealthRetries + 1,         \* failed health checks, this probe
   polls   : 0 .. WaitAttempts,              \* finished polls of the wait
   status  : StatusReplies \cup {None},
   health  : HealthReplies \cup {None},
   cls     : RailwayClassification \cup {None}, \* of the first probe
   action  : Actions]                        \* what a result would report

TargetOutcome ==
  [classification : RailwayClassification \cup {None},
   action : Actions, recovered : BOOLEAN, deferred : BOOLEAN, error : BOOLEAN]

History ==
  [strikes : Nat, last : RailwayClassification \cup {None},
   container : Nat, gateway : Nat]

TypeOK ==
  /\ dryRun \in BOOLEAN
  /\ run \in [Targets -> Locals]
  /\ outcome \in [Targets -> TargetOutcome \cup {None}]
  /\ hist \in [Targets -> History]

Unstarted ==
  [pc |-> "queued", site |-> "first", expired |-> FALSE, tries |-> 0, polls |-> 0,
   status |-> None, health |-> None, cls |-> None, action |-> "none"]

Init ==
  /\ dryRun \in BOOLEAN
  /\ run = [t \in Targets |-> Unstarted]
  /\ outcome = [t \in Targets |-> None]
  /\ hist = [t \in Targets |->
               [strikes |-> 0, last |-> None, container |-> 0, gateway |-> 0]]

-----------------------------------------------------------------------------
(* Results.                                                                *)

At(t, stage) == run[t].pc = stage

(* _done: the target's outcome is built, and its thread's locals are gone. *)
Done(t, cls, action, recovered, deferred, error) ==
  /\ run' = [run EXCEPT ![t] = [Unstarted EXCEPT !.pc = "done"]]
  /\ outcome' = [outcome EXCEPT ![t] =
                   [classification |-> cls, action |-> action,
                    recovered |-> recovered, deferred |-> deferred,
                    error |-> error]]
  /\ UNCHANGED dryRun

Finish(t, action, recovered, deferred) ==
  Done(t, run[t].cls, action, recovered, deferred, FALSE)

(* The except clause of _recover_one: whatever was under way, the outcome  *)
(* is unrecovered and its action is "none".                                *)
Raise(t) == Done(t, run[t].cls, "none", FALSE, FALSE, TRUE) /\ UNCHANGED hist

(* Begin a probe, or a poll's two reads, for a given site.                 *)
Read(t, site) ==
  /\ run' = [run EXCEPT ![t] = [@ EXCEPT !.pc = "status", !.site = site,
                                         !.status = None, !.health = None]]
  /\ UNCHANGED <<dryRun, outcome>>

-----------------------------------------------------------------------------
(* The thread pool: pool.map hands the targets out in order.               *)

Busy == {t \in Targets : ~At(t, "queued") /\ ~At(t, "done")}

Workers == IF Concurrency < NumTargets THEN Concurrency ELSE NumTargets

MayStart(t) ==
  /\ At(t, "queued")
  /\ \A u \in Targets : u < t => ~At(u, "queued")
  /\ Cardinality(Busy) < Workers

Start(t) == MayStart(t) /\ Read(t, "first") /\ UNCHANGED hist

FactoryFails(t) == MayStart(t) /\ Raise(t)

(* The budget starts with the thread and runs out between two steps.       *)
Expire(t) ==
  /\ t \in Busy
  /\ ~run[t].expired
  /\ run' = [run EXCEPT ![t].expired = TRUE]
  /\ UNCHANGED <<dryRun, outcome, hist>>

-----------------------------------------------------------------------------
(* A probe: the service status, then the health check with its retries.    *)

ReadStatus(t) ==
  /\ At(t, "status")
  /\ ~run[t].expired
  /\ \E s \in StatusReplies :
       run' = [run EXCEPT ![t] = [@ EXCEPT !.pc = "health", !.status = s,
                                           !.tries = 0]]
  /\ UNCHANGED <<dryRun, outcome, hist>>

(* Refused for want of budget, failed after the client's own retries, or   *)
(* unparsable.                                                             *)
StatusFails(t) == At(t, "status") /\ Raise(t)

CheckHealth(t) ==
  /\ At(t, "health")
  /\ ~run[t].expired
  /\ \E h \in HealthReplies :
       run' = [run EXCEPT ![t] = [@ EXCEPT !.pc = "decide", !.health = h]]
  /\ UNCHANGED <<dryRun, outcome, hist>>

(* Mutant: one retry too few.                                              *)
MoreTriesOffByOne(t) == run[t].tries + 1 < HealthRetries

MoreTries(t) == run[t].tries < HealthRetries

(* A HermesError: sleep and check again, or give up.                       *)
HealthFails(t) ==
  /\ At(t, "health")
  /\ ~run[t].expired
  /\ run' = [run EXCEPT ![t] =
               [@ EXCEPT !.pc = IF MoreTries(t) THEN "health" ELSE "decide",
                         !.tries = run[t].tries + 1]]
  /\ UNCHANGED <<dryRun, outcome, hist>>

HealthOutOfTime(t) ==
  /\ At(t, "health")
  /\ run[t].expired
  /\ run' = [run EXCEPT ![t].pc = "decide"]
  /\ UNCHANGED <<dryRun, outcome, hist>>

(* Any other exception: _health_probe lets it through.                     *)
HealthCrashes(t) == At(t, "health") /\ ~run[t].expired /\ Raise(t)

-----------------------------------------------------------------------------
(* Decisions on a full probe.                                              *)

Judged(t) == Classify(run[t].status, run[t].health)

(* A full probe has been classified c: the history notes it.               *)
Judge(t, c) ==
  /\ At(t, "decide")
  /\ Judged(t) = c
  /\ hist' = [hist EXCEPT ![t] =
                [@ EXCEPT !.last = c,
                          !.strikes = IF c \in {"healthy", "transitional"}
                                        THEN hist[t].strikes
                                        ELSE hist[t].strikes + 1]]

(* Mutant: the flag is not looked at.                                      *)
MayAlwaysMutate == TRUE

MayMutate == ~dryRun

(* _recover_one, after its probe.                                          *)
FirstSettles(t) ==
  /\ run[t].site = "first"
  /\ \E c \in RailwayClassification :
       /\ Judge(t, c)
       /\ ~MayMutate \/ c \in {"healthy", "transitional"}
       /\ Done(t, c, "none", c = "healthy", c = "transitional", FALSE)

FirstFindsFailure(t) ==
  /\ run[t].site = "first"
  /\ MayMutate
  /\ \E c \in {"gateway_only_failure", "container_failure"} :
       /\ Judge(t, c)
       /\ run' = [run EXCEPT ![t] =
                    [@ EXCEPT !.pc = "status", !.cls = c,
                              !.site = IF c = "gateway_only_failure"
                                         THEN "gwCheck" ELSE "ctCheck",
                              !.status = None, !.health = None]]
       /\ UNCHANGED <<dryRun, outcome>>

(* The rechecks before a mutation, and after a container restart.          *)
Rechecks == {"gwCheck", "ctCheck", "postCheck"}

RecheckSettles(t) ==
  /\ run[t].site \in Rechecks
  /\ \E c \in {"healthy", "transitional"} :
       /\ Judge(t, c)
       /\ Finish(t, run[t].action, c = "healthy", c = "transitional")

RecheckEscalates(t) ==
  /\ run[t].site = "gwCheck"
  /\ Judge(t, "container_failure")
  /\ Read(t, "ctCheck")

(* restartable_deployment_id is tested before the budget, both here.       *)
WantContainer(t) ==
  /\ run[t].site = "ctCheck"
  /\ Judge(t, "container_failure")
  /\ run[t].status.restartable_deployment_id # None
  /\ ~run[t].expired
  /\ run' = [run EXCEPT ![t].pc = "container"]
  /\ UNCHANGED <<dryRun, outcome>>

ContainerUnwanted(t) ==
  /\ run[t].site = "ctCheck"
  /\ Judge(t, "container_failure")
  /\ \/ run[t].status.restartable_deployment_id = None
     \/ run[t].expired
  /\ Finish(t, "none", FALSE, FALSE)

(* Mutant: recover a container that failed again.                          *)
RecoverRegressed(t) ==
  /\ run[t].site = "postCheck"
  /\ Judge(t, "container_failure")
  /\ Read(t, "ctCheck")

(* Regressed: no second container restart.                                 *)
Regressed(t) ==
  /\ run[t].site = "postCheck"
  /\ Judge(t, "container_failure")
  /\ Finish(t, "container_restart", FALSE, FALSE)

WantGateway(t) ==
  /\ run[t].site \in Rechecks
  /\ Judge(t, "gateway_only_failure")
  /\ ~run[t].expired
  /\ run' = [run EXCEPT ![t].pc = "gateway"]
  /\ UNCHANGED <<dryRun, outcome>>

GatewayUnwanted(t) ==
  /\ run[t].site \in Rechecks
  /\ Judge(t, "gateway_only_failure")
  /\ run[t].expired
  /\ Finish(t, run[t].action, FALSE, FALSE)

(* The end of _do_gateway_restart.                                         *)
Verify(t) ==
  /\ run[t].site = "verify"
  /\ \E c \in RailwayClassification :
       /\ Judge(t, c)
       /\ Finish(t, run[t].action, c = "healthy", FALSE)

-----------------------------------------------------------------------------
(* The container restart and the wait for the container.                   *)

IssueContainer(t) ==
  /\ At(t, "container")
  /\ ~run[t].expired
  /\ hist' = [hist EXCEPT ![t] =
                [@ EXCEPT !.container = hist[t].container + 1, !.last = None]]
  /\ run' = [run EXCEPT ![t] = [@ EXCEPT !.pc = "containerReply",
                                         !.action = "container_restart",
                                         !.status = None, !.health = None]]
  /\ UNCHANGED <<dryRun, outcome>>

(* The client refuses to begin a request without budget.                   *)
ContainerRefused(t) == At(t, "container") /\ run[t].expired /\ Raise(t)

ContainerAccepted(t) ==
  /\ At(t, "containerReply")
  /\ run' = [run EXCEPT ![t] = [@ EXCEPT !.pc = "wait", !.polls = 0]]
  /\ UNCHANGED <<dryRun, outcome, hist>>

(* Mutant: a refused restart is reported as no restart.                    *)
ContainerDeniedSilently(t) ==
  /\ At(t, "containerReply")
  /\ Finish(t, "none", FALSE, FALSE)
  /\ UNCHANGED hist

ContainerDenied(t) ==
  /\ At(t, "containerReply")
  /\ Finish(t, "container_restart", FALSE, FALSE)
  /\ UNCHANGED hist

(* The request was sent; its answer is a timeout or an error.              *)
ContainerFails(t) == At(t, "containerReply") /\ Raise(t)

Poll(t) ==
  /\ At(t, "wait")
  /\ run[t].polls < WaitAttempts
  /\ ~run[t].expired
  /\ Read(t, "wait")
  /\ UNCHANGED hist

WaitEnds(t) ==
  /\ At(t, "wait")
  /\ run[t].polls = WaitAttempts \/ run[t].expired
  /\ Finish(t, "container_restart", FALSE, FALSE)
  /\ UNCHANGED hist

ContainerUp(t) ==
  /\ run[t].status.instance_running
  /\ run[t].status.latest_status = "SUCCESS"
  /\ ~run[t].status.stopped
  /\ run[t].health # None

(* Mutant: the gateway is restarted on the health the poll read.           *)
PollFindsItNoRecheck(t) ==
  /\ At(t, "decide")
  /\ run[t].site = "wait"
  /\ ContainerUp(t)
  /\ run' = [run EXCEPT ![t].pc = "gateway"]
  /\ UNCHANGED <<dryRun, outcome, hist>>

PollFindsIt(t) ==
  /\ At(t, "decide")
  /\ run[t].site = "wait"
  /\ ContainerUp(t)
  /\ IF run[t].expired
       THEN Finish(t, "container_restart", FALSE, FALSE)
       ELSE Read(t, "postCheck")
  /\ UNCHANGED hist

(* Mutant: the polls are not counted.                                      *)
PollAgainUncounted(t) ==
  /\ At(t, "decide")
  /\ run[t].site = "wait"
  /\ ~ContainerUp(t)
  /\ run' = [run EXCEPT ![t] = [@ EXCEPT !.pc = "wait", !.status = None,
                                         !.health = None]]
  /\ UNCHANGED <<dryRun, outcome, hist>>

PollAgain(t) ==
  /\ At(t, "decide")
  /\ run[t].site = "wait"
  /\ ~ContainerUp(t)
  /\ run' = [run EXCEPT ![t] = [@ EXCEPT !.pc = "wait", !.polls = run[t].polls + 1,
                                         !.status = None, !.health = None]]
  /\ UNCHANGED <<dryRun, outcome, hist>>

-----------------------------------------------------------------------------
(* The gateway restart: restart_gateway logs in, posts the restart and     *)
(* polls; the restart is requested once it is posted.                      *)

IssueGateway(t) ==
  /\ At(t, "gateway")
  /\ ~run[t].expired
  /\ hist' = [hist EXCEPT ![t] =
                [@ EXCEPT !.gateway = hist[t].gateway + 1, !.last = None]]
  /\ run' = [run EXCEPT ![t] =
               [@ EXCEPT !.pc = "gatewayReply",
                         !.action = IF run[t].action = "none"
                                      THEN "gateway_restart"
                                      ELSE run[t].action,
                         !.status = None, !.health = None]]
  /\ UNCHANGED <<dryRun, outcome>>

(* The login failed, or the budget ran out before the restart was posted.  *)
GatewayRefused(t) == At(t, "gateway") /\ Raise(t)

(* Mutant: a restart that reported success is believed.                    *)
GatewayBelieved(t) ==
  /\ At(t, "gatewayReply")
  /\ Finish(t, run[t].action, ~run[t].expired, FALSE)
  /\ UNCHANGED hist

GatewayRestarted(t) ==
  /\ At(t, "gatewayReply")
  /\ IF run[t].expired
       THEN Finish(t, run[t].action, FALSE, FALSE)
       ELSE Read(t, "verify")
  /\ UNCHANGED hist

(* A false result; HermesClient raises instead.                            *)
GatewayDenied(t) ==
  /\ At(t, "gatewayReply")
  /\ Finish(t, run[t].action, FALSE, FALSE)
  /\ UNCHANGED hist

(* Rejected, reported as failed, or not seen running within the polls.     *)
GatewayFails(t) == At(t, "gatewayReply") /\ Raise(t)

-----------------------------------------------------------------------------
Probe(t) ==
  \/ ReadStatus(t) \/ StatusFails(t)
  \/ CheckHealth(t) \/ HealthFails(t) \/ HealthOutOfTime(t) \/ HealthCrashes(t)

Decide(t) ==
  \/ FirstSettles(t) \/ FirstFindsFailure(t)
  \/ RecheckSettles(t) \/ RecheckEscalates(t)
  \/ WantContainer(t) \/ ContainerUnwanted(t) \/ Regressed(t)
  \/ WantGateway(t) \/ GatewayUnwanted(t) \/ Verify(t)

RestartContainer(t) ==
  \/ IssueContainer(t) \/ ContainerRefused(t)
  \/ ContainerAccepted(t) \/ ContainerDenied(t) \/ ContainerFails(t)
  \/ Poll(t) \/ WaitEnds(t) \/ PollFindsIt(t) \/ PollAgain(t)

RestartGateway(t) ==
  \/ IssueGateway(t) \/ GatewayRefused(t)
  \/ GatewayRestarted(t) \/ GatewayDenied(t) \/ GatewayFails(t)

Step(t) ==
  \/ Start(t) \/ FactoryFails(t)
  \/ Probe(t) \/ Decide(t) \/ RestartContainer(t) \/ RestartGateway(t)

Next == \E t \in Targets : Step(t) \/ Expire(t)

Safe == Init /\ [][Next]_vars

(* Every request a thread waits for is bounded by its phase timeouts, and  *)
(* every sleep by its interval, so no thread stays in a step for ever.     *)
Spec == Safe /\ \A t \in Targets : WF_vars(Step(t))

-----------------------------------------------------------------------------
(* Properties.                                                             *)

Finished(t) == At(t, "done")

Requests(t) == hist[t].container + hist[t].gateway

(* A restart is requested only on one more failing full probe than there   *)
(* have been restarts: two before the first (the first probe and the       *)
(* "fresh-state recheck"), another before the second; and never in a dry   *)
(* run.  (Every path through the mutually recursive recovery strategies.)  *)
MutationEarned ==
  \A t \in Targets :
    Requests(t) > 0 => ~dryRun /\ hist[t].strikes > Requests(t)

(* "Each mutation happens at most once per run", and a container is never  *)
(* restarted after its gateway was.                                        *)
AtMostOnce ==
  [][\A t \in Targets :
       /\ hist'[t].gateway > hist[t].gateway => hist[t].gateway = 0
       /\ hist'[t].container > hist[t].container => Requests(t) = 0]_vars

(* A container whose deployment Railway reports running and settled is     *)
(* restarted only after the whole series of health checks failed: a series *)
(* the budget cut short is no evidence.                                    *)
NoBlindRestart ==
  [][\A t \in Targets :
       /\ hist'[t].container > hist[t].container
       /\ ContainerRunning(run[t].status)
       => run[t].tries = HealthRetries + 1]_vars

(* An outcome tells the truth about the service: recovered (the run's exit *)
(* code counts on it) exactly if a full probe taken after the last restart *)
(* was healthy; deferred only if it found a deployment in progress.        *)
OutcomeHonest ==
  \A t \in Targets : Finished(t) =>
    /\ outcome[t].recovered <=> hist[t].last = "healthy"
    /\ outcome[t].deferred => hist[t].last = "transitional"

(* The action an outcome reports is what was requested, unless an          *)
(* exception took the report's place.                                      *)
ActionReported ==
  \A t \in Targets : Finished(t) /\ ~outcome[t].error =>
    outcome[t].action = IF hist[t].container > 0 THEN "container_restart"
                        ELSE IF hist[t].gateway > 0 THEN "gateway_restart"
                        ELSE "none"

(* Every target gets its outcome, however its services answer, and even if *)
(* no budget ever expires: the attempt caps alone end every recovery, and  *)
(* no target's failure keeps another from being started.                   *)
Termination == <>(\A t \in Targets : Finished(t))

(* NOT guaranteed.  "Emails contain [...] action names": an outcome names  *)
(* the restart that was requested, also when what follows it fails.        *)
MutationNamed ==
  \A t \in Targets : Finished(t) /\ Requests(t) > 0 => outcome[t].action # "none"

(* NOT guaranteed.  "Restarts the *current* deployment": with an active    *)
(* deployment, the id that is restarted is the active one.                 *)
RestartsCurrent ==
  \A t \in Targets : At(t, "container") =>
    run[t].status.active_deployment_id
      \in {None, run[t].status.restartable_deployment_id}
=============================================================================
