------------------------- MODULE SelfHostedInvariant -------------------------
(***************************************************************************)
(* The inductive invariant of SelfHosted: what TLC checks on an instance   *)
(* and SelfHosted_proofs proves in general.                                *)
(***************************************************************************)
EXTENDS SelfHosted

(* Whose call is under way, and which request it may be at: a posted       *)
(* restart polls, and a poll that runs is not the last one's successor.    *)
CallInPlace ==
  /\ thread.pc \notin {"health", "restart"} => call = Idle
  /\ thread.pc = "health" =>
       call.op = "health" /\ ~call.posted /\ call.pc \in {"login", "get", "returned"}
  /\ thread.pc = "restart" =>
       /\ call.op = "restart"
       /\ call.pc \in IF call.posted THEN {"login", "get", "poll", "returned"}
                      ELSE {"login", "post", "returned"}
  /\ call.posted /\ call.pc \in {"login", "get"} => call.polls < PollAttempts
  /\ call.pc = "returned" /\ call.error = None =>
       IF call.op = "health" THEN call.health # None ELSE call.posted

(* Which stage belongs to which probe, and what is known in it.            *)
ThreadInPlace ==
  /\ thread.pc = "start" => thread.site = "first"
  /\ thread.pc = "health" => thread.tries <= HealthRetries
  /\ thread.pc = "webui" => thread.reason = None
  /\ thread.pc = "decide" =>
       /\ thread.verdict # None
       /\ thread.verdict.classification = "host_unreachable" <=> thread.reason # None
       /\ thread.verdict.classification = "webui_down" => seen.asked \/ expired
  /\ thread.pc = "restart" =>
       /\ thread.site = "recheck" /\ seen.last = None
       /\ thread.verdict # None /\ GatewayFailed

(* What the probes have found, and what became of the restart they earned. *)
StrikesCounted ==
  /\ thread.site # "first" => ~setup.dryRun
  /\ thread.pc \in {"start", "probe", "health", "webui", "decide"} =>
       IF thread.site = "first" THEN seen.strikes = 0
       ELSE IF thread.site = "recheck" THEN seen.strikes = 1 ELSE seen.strikes >= 2
  /\ thread.pc = "restart" => seen.strikes >= 2

RestartCounted ==
  /\ RestartEarned
  /\ thread.pc = "restart" =>
       IF call.posted THEN server.performed = 1 \/ server.moved
       ELSE call.pc # "returned" => server.performed = 0
  /\ thread.site = "verify" => server.performed = 1 \/ server.moved

(* The rejected logins that the probes so far and the polls have left      *)
(* behind: a probe whose login was rejected is the last of the run.        *)
Earlier == IF thread.site = "verify" THEN PollAttempts - 1 ELSE 0

LoginsCounted ==
  /\ thread.pc \in {"start", "probe", "webui"} => server.rejected <= Earlier
  /\ thread.pc = "health" =>
       \/ server.rejected <= Earlier
       \/ /\ server.rejected <= Earlier + 1
          /\ call.pc = "returned" /\ call.error = "auth"
  /\ thread.pc = "decide" =>
       \/ server.rejected <= Earlier
       \/ /\ server.rejected <= Earlier + 1
          /\ thread.verdict.classification = "host_unreachable"
  /\ thread.pc = "restart" =>
       IF call.posted
       THEN /\ server.rejected <= call.polls
            /\ call.pc = "returned" /\ call.error = None => call.polls < PollAttempts
       ELSE server.rejected <= IF call.pc = "returned" THEN 1 ELSE 0
  /\ RejectionsHeard

(* What holds whatever becomes of the answers.                             *)
Core ==
  /\ TypeOK
  /\ CallInPlace
  /\ ThreadInPlace
  /\ StrikesCounted
  /\ RestartCounted
  /\ LoginsCounted
  /\ OutcomeHonest
  /\ RecoveryOwned
  /\ ReasonGiven

(* The rejected logins, those the client never heard of included: at most  *)
(* one for each failed health check, each finished poll, and the request   *)
(* that has just ended in an error.                                        *)
AtProbe ==
  CASE thread.site = "first" -> 0
    [] thread.site = "recheck" -> HealthRetries
    [] thread.site = "verify" -> 2 * HealthRetries + PollAttempts - 1

CallFailed == call.pc = "returned" /\ call.error # None

AtMost ==
  CASE thread.pc = "start" -> 0
    [] thread.pc = "probe" -> AtProbe + thread.tries
    [] thread.pc = "health" -> AtProbe + thread.tries + IF CallFailed THEN 1 ELSE 0
    [] thread.pc = "webui" -> AtProbe + HealthRetries
    [] thread.pc = "decide" ->
         AtProbe + HealthRetries
           + IF thread.verdict.classification = "host_unreachable" THEN 1 ELSE 0
    [] thread.pc = "restart" ->
         2 * HealthRetries + IF CallFailed THEN PollAttempts
                             ELSE IF call.posted THEN call.polls ELSE 0

Rejected == server.rejected + server.unheard

RejectedCounted == thread.pc # "done" => Rejected <= AtMost

SInv ==
  /\ Core
  /\ RejectedCounted
  /\ RejectionsInAll

-----------------------------------------------------------------------------
(* How many steps the thread and its client have left at most: what the    *)
(* attempt caps are worth, whatever the dashboard answers.                 *)

(* A request, and the login it may need once more.                         *)
RequestLeft == (IF call.pc = "login" THEN 3 ELSE 2) + IF call.again THEN 0 ELSE 2

PollsLeft == 6 * (PollAttempts - call.polls)

CallLeft ==
  CASE call.pc = "idle" -> 0
    [] call.pc = "returned" -> 1
    [] call.pc = "poll" -> PollsLeft + 2
    [] call.pc \in {"login", "get", "post"} ->
         RequestLeft + IF call.op = "health" THEN 0
                       ELSE IF call.posted THEN PollsLeft - 4 ELSE PollsLeft + 1

PerProbe == 6 * HealthRetries + 10

ProbeLeft ==
  CASE thread.pc = "probe" -> 6 * (HealthRetries + 1 - thread.tries) + 3
    [] thread.pc = "health" -> 6 * (HealthRetries - thread.tries) + 3 + CallLeft
    [] thread.pc = "webui" -> 2
    [] thread.pc = "decide" -> 1

Probing == {"probe", "health", "webui", "decide"}

(* A restart from its first request to its last poll.                      *)
PerRestart == 6 * PollAttempts + 7

(* What may follow a probe.                                                *)
SiteLeft ==
  CASE thread.site = "first" -> 2 * PerProbe + PerRestart
    [] thread.site = "recheck" -> PerProbe + PerRestart
    [] thread.site = "verify" -> 0

PlaceLeft ==
  CASE thread.pc = "done" -> 0
    [] thread.pc = "start" -> 3 * PerProbe + PerRestart
    [] thread.pc = "restart" -> PerProbe + CallLeft
    [] thread.pc \in Probing -> ProbeLeft + SiteLeft

(* The budget may also run out.                                            *)
StepsLeft == PlaceLeft + IF expired \/ thread.pc = "done" THEN 0 ELSE 1

(* No step leaves the target with as many steps as it had, and none leaves *)
(* it with fewer than none.                                                *)
Advances == [][StepsLeft' \in Nat /\ StepsLeft' < StepsLeft]_vars
=============================================================================
