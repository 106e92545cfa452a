----------------------------- MODULE SelfHosted -----------------------------
(***************************************************************************)
(* Recovery of one target in self-hosted mode: _selfhosted_one, _sh_probe  *)
(* and _sh_done of src/watchdog/orchestrator.py, with the classification   *)
(* of src/watchdog/state.py they use, composed with the Hermes client they *)
(* call.  Targets share nothing in this mode (each has a client and a      *)
(* budget of its own), so that one of them stands for all.                 *)
(***************************************************************************)
EXTENDS HermesClient

CONSTANTS
  HealthRetries  \* health_retries: extra health checks after a failed one

ASSUME SelfHostedAssumption == HealthRetries \in Nat

Classifications ==
  {"healthy", "gateway_only_failure", "host_unreachable", "platform_degraded",
   "webui_down"}

(* A verdict is its classification and its condition, the signature alerts *)
(* are deduplicated on; the display text is left out.                      *)
Verdict(c, names) ==
  [classification |-> c,
   condition |-> IF c = "healthy" THEN None ELSE <<c, names>>]

Verdicts ==
  {Verdict(c, {}) : c \in Classifications}
    \cup {Verdict("platform_degraded", names) : names \in SUBSET Platforms}

ClassifySelfhosted(h, ignored) ==
  IF h = None THEN Verdict("host_unreachable", {})
  ELSE IF ~h.status_ok THEN Verdict("host_unreachable", {})
  ELSE IF ~h.gateway_running THEN Verdict("gateway_only_failure", {})
  ELSE IF h.down \subseteq ignored THEN Verdict("healthy", {})
  ELSE Verdict("platform_degraded", h.down \ ignored)

WebuiOkStatuses == {200, 302}

ClassifyWebui(code) ==
  Verdict(IF code \in WebuiOkStatuses THEN "healthy" ELSE "webui_down", {})

VARIABLES
  setup,    \* the --dry-run flag and the target's configuration
  thread,   \* the locals of the target's thread
  outcome,  \* its TargetOutcome, None until it is built
  seen      \* history: what the probes of this run found

threadVars == <<setup, thread, outcome, seen>>
vars == <<clientVars, threadVars>>

Setups == [dryRun : BOOLEAN, webui : BOOLEAN, ignored : SUBSET Platforms]

(* failure_reason: what is no HermesError is unexpected.                   *)
Reasons == HermesErrors \cup {"unexpected"}
FailureReason(e) == IF e \in HermesErrors THEN e ELSE "unexpected"

ASSUME NoneAssumption ==
  /\ None \notin Reasons \cup Classifications
  /\ None \notin Verdicts

(* Where a probe was asked for.                                            *)
Sites == {"first", "recheck", "verify"}

Threads ==
  [pc      : {"start", "probe", "health", "webui", "decide", "restart", "done"},
   site    : Sites,
   tries   : 0 .. HealthRetries + 1,  \* failed health checks of this probe
   reason  : Reasons \cup {None},     \* of the last of them
   verdict : Verdicts \cup {None}]

TargetOutcome ==
  [verdict : Verdicts \cup {None}, action : {"none", "gateway_restart"},
   recovered : BOOLEAN, error : BOOLEAN, reason : Reasons \cup {None}]

Seen ==
  [strikes : Nat,      \* probes that found the gateway alone to have failed
   last    : Classifications \cup {None}, \* of the last probe, None from the
                                          \* moment a restart is asked for
   asked   : BOOLEAN]  \* the web UI was asked

TypeOK ==
  /\ ClientTypeOK
  /\ setup \in Setups
  /\ thread \in Threads
  /\ outcome \in TargetOutcome \cup {None}
  /\ seen \in Seen

Init ==
  /\ ClientInit
  /\ setup \in Setups
  /\ thread = [pc |-> "start", site |-> "first", tries |-> 0,
               reason |-> None, verdict |-> None]
  /\ outcome = None
  /\ seen = [strikes |-> 0, last |-> None, asked |-> FALSE]

-----------------------------------------------------------------------------
(* Results.                                                                *)

Finish(verdict, action, recovered, error, reason) ==
  /\ outcome' = [verdict |-> verdict, action |-> action, recovered |-> recovered,
                 error |-> error, reason |-> reason]
  /\ thread' = [thread EXCEPT !.pc = "done"]
  /\ UNCHANGED setup

(* _sh_done                                                                *)
Report(action, reason) ==
  LET healthy == thread.verdict.classification = "healthy" IN
    Finish(thread.verdict, action, healthy, FALSE, IF healthy THEN None ELSE reason)

(* The except clause of _recover_one; neither a classification nor a       *)
(* condition is left in this mode.                                         *)
Raise == Finish(None, "none", FALSE, TRUE, "unexpected")

(* The answer of the client's call has been read.                          *)
Take ==
  /\ call.pc = "returned"
  /\ call' = Idle
  /\ UNCHANGED <<session, expired, server>>

Probe(site) ==
  /\ thread' = [thread EXCEPT !.pc = "probe", !.site = site, !.tries = 0,
                           !.reason = None]
  /\ UNCHANGED <<setup, outcome>>

-----------------------------------------------------------------------------
(* The thread begins: it makes the client and the budget.                  *)

Start ==
  /\ thread.pc = "start"
  /\ Probe("first")
  /\ UNCHANGED <<clientVars, seen>>

FactoryFails == thread.pc = "start" /\ Raise /\ UNCHANGED <<clientVars, seen>>

Expire ==
  /\ thread.pc \notin {"start", "done"}
  /\ ~expired
  /\ expired' = TRUE
  /\ UNCHANGED <<session, call, server, threadVars>>

-----------------------------------------------------------------------------
(* _sh_probe.                                                              *)

(* Mutant: one health check too many.                                     *)
OneTryTooMany == thread.tries <= HealthRetries + 1 /\ ~expired

MoreTries == thread.tries <= HealthRetries /\ ~expired

AskHealth ==
  /\ thread.pc = "probe"
  /\ MoreTries
  /\ Call("health")
  /\ thread' = [thread EXCEPT !.pc = "health"]
  /\ UNCHANGED <<setup, outcome, seen>>

Unreachable(reason) ==
  thread' = [thread EXCEPT !.pc = "decide", !.reason = reason,
                           !.verdict = ClassifySelfhosted(None, setup.ignored)]

(* Mutant: a budget that ends before the first check is no reason.         *)
ReasonSoFar == thread.reason

(* Out of budget, unless a check has failed before.                        *)
ReasonOrTimeout == IF thread.reason = None THEN "timeout" ELSE thread.reason

GiveUp ==
  /\ thread.pc = "probe"
  /\ ~MoreTries
  /\ Unreachable(ReasonOrTimeout)
  /\ UNCHANGED <<clientVars, setup, outcome, seen>>

(* The web UI is looked at only if everything else is fine.                *)
HealthRead ==
  /\ thread.pc = "health"
  /\ Take
  /\ call.error = None
  /\ LET v == ClassifySelfhosted(call.health, setup.ignored) IN
       thread' = [thread EXCEPT
                    !.pc = IF v.classification = "healthy" /\ setup.webui
                             THEN "webui" ELSE "decide",
                    !.reason = None, !.verdict = v]
  /\ UNCHANGED <<setup, outcome, seen>>

(* Mutant: a rejected login is tried again like anything else.             *)
RetryAnything == call.error \in HermesErrors

(* "Never hammer a login that is being rejected."                          *)
MayRetry == call.error \in HermesErrors \ {"auth"}

HealthFails ==
  /\ thread.pc = "health"
  /\ Take
  /\ call.error \in HermesErrors
  /\ IF MayRetry
       THEN thread' = [thread EXCEPT !.pc = "probe", !.tries = @ + 1,
                                     !.reason = FailureReason(call.error)]
       ELSE Unreachable(FailureReason(call.error))
  /\ UNCHANGED <<setup, outcome, seen>>

HealthCrashes ==
  /\ thread.pc = "health"
  /\ Take
  /\ call.error = "crash"
  /\ Raise
  /\ UNCHANGED seen

(* check_webui: a status code, or None for a request that failed or was    *)
(* not made because the budget is spent.                                   *)
WebuiCodes == {200, 302, 500}

CheckWebui ==
  /\ thread.pc = "webui"
  /\ \E code \in IF expired THEN {None} ELSE WebuiCodes \cup {None} :
       thread' = [thread EXCEPT !.pc = "decide", !.verdict = ClassifyWebui(code)]
  /\ seen' = [seen EXCEPT !.asked = ~expired \/ @]
  /\ UNCHANGED <<clientVars, setup, outcome>>

WebuiCrashes ==
  /\ thread.pc = "webui"
  /\ Raise
  /\ UNCHANGED <<clientVars, seen>>

-----------------------------------------------------------------------------
(* _selfhosted_one, after each probe.                                      *)

GatewayFailed == thread.verdict.classification = "gateway_only_failure"

Judged ==
  seen' = [seen EXCEPT !.last = thread.verdict.classification,
                       !.strikes = IF thread.verdict.classification
                                        = "gateway_only_failure"
                                     THEN @ + 1 ELSE @]

FirstSettles ==
  /\ thread.pc = "decide" /\ thread.site = "first"
  /\ setup.dryRun \/ ~GatewayFailed
  /\ Judged
  /\ Report("none", thread.reason)
  /\ UNCHANGED clientVars

FirstFindsFailure ==
  /\ thread.pc = "decide" /\ thread.site = "first"
  /\ ~setup.dryRun /\ GatewayFailed
  /\ Judged
  /\ Probe("recheck")
  /\ UNCHANGED clientVars

RecheckSettles ==
  /\ thread.pc = "decide" /\ thread.site = "recheck"
  /\ ~GatewayFailed \/ expired
  /\ Judged
  /\ Report("none", IF GatewayFailed THEN "timeout" ELSE thread.reason)
  /\ UNCHANGED clientVars

Restart ==
  /\ thread.pc = "decide" /\ thread.site = "recheck"
  /\ GatewayFailed /\ ~expired
  /\ Call("restart")
  /\ thread' = [thread EXCEPT !.pc = "restart"]
  /\ seen' = [seen EXCEPT !.last = None, !.strikes = @ + 1]
  /\ UNCHANGED <<setup, outcome>>

RestartFails ==
  /\ thread.pc = "restart"
  /\ Take
  /\ call.error \in HermesErrors
  /\ Report("gateway_restart", FailureReason(call.error))
  /\ UNCHANGED seen

RestartCrashes ==
  /\ thread.pc = "restart"
  /\ Take
  /\ call.error = "crash"
  /\ Raise
  /\ UNCHANGED seen

(* Mutant: a restart that returned is a recovery.                          *)
RestartBelieved ==
  /\ thread.pc = "restart"
  /\ Take
  /\ call.error = None
  /\ Finish(Verdict("healthy", {}), "gateway_restart", TRUE, FALSE, None)
  /\ UNCHANGED seen

Restarted ==
  /\ thread.pc = "restart"
  /\ Take
  /\ call.error = None
  /\ IF expired THEN Report("gateway_restart", None) ELSE Probe("verify")
  /\ UNCHANGED seen

(* "Report the post-restart verdict."                                      *)
Verify ==
  /\ thread.pc = "decide" /\ thread.site = "verify"
  /\ Judged
  /\ Report("gateway_restart", thread.reason)
  /\ UNCHANGED clientVars

-----------------------------------------------------------------------------
Step ==
  \/ Start \/ FactoryFails
  \/ AskHealth \/ GiveUp \/ HealthRead \/ HealthFails \/ HealthCrashes
  \/ CheckWebui \/ WebuiCrashes
  \/ FirstSettles \/ FirstFindsFailure \/ RecheckSettles
  \/ Restart \/ RestartFails \/ RestartCrashes \/ Restarted \/ Verify
  \/ ClientStep /\ UNCHANGED threadVars

Next == Step \/ Expire

(* Requests and sleeps are bounded in time, and nothing else blocks.       *)
Spec == Init /\ [][Next]_vars /\ WF_vars(Step)

-----------------------------------------------------------------------------
(* Properties.                                                             *)

Finished == thread.pc = "done"

(* The dashboard restarts its gateway only after two probes of this run    *)
(* found that it alone had failed (the second is the "fresh-state recheck  *)
(* immediately before mutating"), at most once per run, and never in a dry *)
(* run: whatever 401s, re-logins and lost answers there are.               *)
RestartEarned ==
  server.performed > 0 =>
    /\ server.performed = 1
    /\ seen.strikes >= 2
    /\ ~setup.dryRun

(* An outcome tells the truth: recovered exactly if the last probe was     *)
(* healthy and no restart was asked for after it, and a web UI called down *)
(* only if it was asked, or there was no budget left to ask it.            *)
OutcomeHonest ==
  Finished =>
    /\ outcome.recovered <=> seen.last = "healthy" /\ ~outcome.error
    /\ ~outcome.error /\ outcome.verdict.classification = "webui_down"
         => seen.asked \/ expired

(* A recovery that is reported as the watchdog's own ("Recovery succeeded")*)
(* follows a restart the dashboard carried out, or one it answered with a  *)
(* redirect: that a redirect passes for a restart is allowed here, and is  *)
(* what AcceptedMeans2xx below is about.                                   *)
RecoveryOwned ==
  Finished /\ outcome.recovered /\ outcome.action # "none" =>
    server.performed = 1 \/ server.moved

(* The rejections the client is told of: one until a restart is asked for, *)
(* in all probes together.  After it, where they pass for transient, each  *)
(* poll and the last probe may see one: a poll's re-login is not repeated. *)
RejectionsHeard ==
  server.rejected <= IF seen.strikes < 2 THEN 1 ELSE PollAttempts

(* A rejection whose answer is lost passes for an outage and is tried      *)
(* again: health_retries more for each probe.                              *)
RejectionsInAll ==
  server.rejected + server.unheard <=
    IF seen.strikes = 0 THEN HealthRetries + 1
    ELSE IF seen.strikes = 1 THEN 2 * HealthRetries + 1
    ELSE 3 * HealthRetries + PollAttempts

(* "Never hammer a login that is being rejected": of all the requests of a *)
(* run that may log in (health checks, restart and polls, each with its    *)
(* re-login), only so many can leave a rejected login behind, those        *)
(* included that the client never hears of.                                *)
NoHammering == RejectionsHeard /\ RejectionsInAll

(* Who could not be reached, or be dealt with at all, is reported with a   *)
(* reason, and a reason is never that of an earlier probe which the last   *)
(* one has overruled.                                                      *)
ReasonGiven ==
  Finished =>
    IF outcome.error \/ outcome.verdict.classification = "host_unreachable"
    THEN outcome.reason # None
    ELSE outcome.action = "none" => outcome.reason \in {None, "timeout"}

(* Every run of a target ends, whatever the dashboard answers, and even if *)
(* its budget never expires.                                               *)
Termination == <>Finished

(* NOT guaranteed.  "Any 2xx is success": what is taken for an accepted    *)
(* restart was answered with a 2xx.                                        *)
AcceptedMeans2xx == call.posted => ~server.moved

(* NOT guaranteed.  "Recovery failures must retain a safe, actionable      *)
(* reason": a restart that did not bring the gateway back has one.         *)
RecoveryExplained ==
  Finished /\ outcome.action = "gateway_restart" /\ ~outcome.error
    /\ outcome.verdict.classification = "gateway_only_failure"
      => outcome.reason # None

(* NOT guaranteed.  "webui_down: web UI not 200/302 or unreachable": the   *)
(* verdict rests on a request to the web UI.                               *)
WebuiDownAsked ==
  Finished /\ ~outcome.error /\ outcome.verdict.classification = "webui_down"
    => seen.asked
=============================================================================
