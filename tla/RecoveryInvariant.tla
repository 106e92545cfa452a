------------------------- MODULE RecoveryInvariant -------------------------
(***************************************************************************)
(* The inductive invariant of Recovery: what TLC checks on an instance and *)
(* Recovery_proofs proves in general.                                      *)
(***************************************************************************)
EXTENDS Recovery

(* A target's part of the state is taken apart so that a step of one       *)
(* target visibly keeps the others' parts: r is run[t], h is hist[t] and o *)
(* is outcome[t].                                                          *)

Reading == {"status", "health", "decide"}

(* A restart of the container, or of the gateway, has been requested.      *)
AfterContainer(r) ==
  r.pc \in {"containerReply", "wait"} \/ r.site \in {"wait", "postCheck"}
AfterGateway(r) == r.pc = "gatewayReply" \/ r.site = "verify"

(* Which stage belongs to which site, and the loops' counters.             *)
InPlace(r, dry) ==
  /\ dry \/ r.pc = "queued" => r.site = "first"
  /\ r.site = "first" => r.pc \in Reading \cup {"queued"}
  /\ r.site \in {"wait", "verify"} => r.pc \in Reading \cup {"wait"}
  /\ r.pc \in {"container", "containerReply"} => r.site = "ctCheck"
  /\ r.pc \in {"gateway", "gatewayReply"} => r.site \in Rechecks
  /\ r.pc = "wait" => r.site \in {"ctCheck", "wait"}
  /\ r.pc = "health" => r.tries <= HealthRetries
  /\ r.pc \in {"queued", "status", "health"} => r.health = None
  /\ r.pc \in Reading /\ r.site = "wait" => r.polls < WaitAttempts

(* What is about to be done rests on what was read.                        *)
Grounded(r) ==
  /\ r.pc = "container" => Classify(r.status, r.health) = "container_failure"
  /\ r.pc = "gateway" => Classify(r.status, r.health) = "gateway_only_failure"
  /\ r.pc \in {"decide", "container"} /\ r.health = None
       => r.expired \/ r.tries = HealthRetries + 1

(* The history agrees with where the thread is.                            *)
Recorded(r, h) ==
  /\ h.container = IF r.action = "container_restart" THEN 1 ELSE 0
  /\ h.gateway = IF AfterGateway(r) THEN 1 ELSE 0
  /\ AfterContainer(r) => r.action = "container_restart"
  /\ AfterGateway(r) => r.action # "none"
  /\ ~AfterContainer(r) /\ ~AfterGateway(r) => r.action = "none"
  /\ r.site # "first" => h.strikes > h.container + h.gateway
  /\ r.pc \in {"container", "gateway"} => h.strikes > h.container + h.gateway + 1
  /\ h.last # "healthy"

Settled(h, o, dry) ==
  /\ h.container + h.gateway > 0
       => ~dry /\ h.strikes > h.container + h.gateway
  /\ o.recovered <=> h.last = "healthy"
  /\ o.deferred => h.last = "transitional"
  /\ ~o.error =>
       o.action = IF h.container > 0 THEN "container_restart"
                  ELSE IF h.gateway > 0 THEN "gateway_restart" ELSE "none"

Good(r, h, o, dry) ==
  IF r.pc = "done" THEN Settled(h, o, dry)
  ELSE o = None /\ InPlace(r, dry) /\ Grounded(r) /\ Recorded(r, h)

(* In every reachable state each unfinished target stands where its        *)
(* history says, on evidence that justifies its next request, and each     *)
(* finished one has an honest outcome.                                     *)
IInv == \A t \in Targets : Good(run[t], hist[t], outcome[t], dryRun)

-----------------------------------------------------------------------------
(* How many steps a thread has left at most: what the attempt caps are     *)
(* worth, wherever it is and whatever its services answer.                 *)

PerProbe == HealthRetries + 4

(* The reads of this probe, and the decision on them.                      *)
ReadsLeft(r) ==
  CASE r.pc = "status" -> HealthRetries + 3
    [] r.pc = "health" -> HealthRetries + 2 - r.tries
    [] r.pc = "decide" -> 1

(* The polls to come, and what may follow a wait: a probe, and the gateway.*)
WaitLeft(polls) == PerProbe * (WaitAttempts - polls) + 2 * PerProbe + 1

(* What may follow a probe, or a poll's reads.                             *)
SiteLeft(r) ==
  CASE r.site = "first" -> WaitLeft(0) + 2 * PerProbe + 2
    [] r.site = "gwCheck" -> WaitLeft(0) + PerProbe + 2
    [] r.site = "ctCheck" -> WaitLeft(0) + 2
    [] r.site = "wait" -> WaitLeft(r.polls + 1)
    [] r.site = "postCheck" -> PerProbe + 1
    [] r.site = "verify" -> 0

PlaceLeft(r) ==
  CASE r.pc = "done" -> 0
    [] r.pc = "queued" -> WaitLeft(0) + 3 * PerProbe + 2
    [] r.pc = "container" -> WaitLeft(0) + 2
    [] r.pc = "containerReply" -> WaitLeft(0) + 1
    [] r.pc = "wait" -> WaitLeft(r.polls)
    [] r.pc = "gateway" -> PerProbe + 1
    [] r.pc = "gatewayReply" -> PerProbe
    [] r.pc \in Reading -> ReadsLeft(r) + SiteLeft(r)

(* The budget may also run out.                                            *)
StepsLeft(r) == PlaceLeft(r) + IF r.expired \/ r.pc = "done" THEN 0 ELSE 1

(* No step of a thread leaves it with as many steps as it had, and none    *)
(* leaves it with fewer than none.                                         *)
Advances ==
  [][\A t \in Targets :
       /\ StepsLeft(run'[t]) \in Nat
       /\ run'[t] # run[t] => StepsLeft(run'[t]) < StepsLeft(run[t])]_vars
=============================================================================
