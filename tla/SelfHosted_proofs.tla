-------------------------- MODULE SelfHosted_proofs --------------------------
(***************************************************************************)
(* Theorems about SelfHosted and the Hermes client it is composed with,    *)
(* for every number of retries and polls, every set of platforms and every *)
(* set of answers a dashboard may give.  The last part is about the steps  *)
(* a run has left, of which each uses up one.                              *)
(***************************************************************************)
EXTENDS SelfHostedInvariant, TLAPS

(* The parameters are numbers.                                             *)
LEMMA Numbers == PollAttempts \in Nat /\ PollAttempts >= 1 /\ HealthRetries \in Nat
  BY HermesAssumption, SelfHostedAssumption

-----------------------------------------------------------------------------
(* Verdicts.                                                               *)

(* What a verdict says, and that nothing else looks like a missing one.    *)
LEMMA VerdictSays ==
  ASSUME NEW c \in Classifications, NEW names \in SUBSET Platforms,
         c = "platform_degraded" \/ names = {}
  PROVE  Verdict(c, names) \in Verdicts /\ Verdict(c, names).classification = c
  BY DEF Verdict, Verdicts

(* A classification is a verdict.                                          *)
LEMMA VerdictClass ==
  ASSUME NEW v \in Verdicts
  PROVE  v.classification \in Classifications
  BY DEF Verdicts, Verdict, Classifications

(* A dashboard that could not be asked is unreachable, one that answered   *)
(* is not.                                                                 *)
LEMMA NobodyThere ==
  ASSUME NEW ignored
  PROVE  /\ ClassifySelfhosted(None, ignored) \in Verdicts
         /\ ClassifySelfhosted(None, ignored).classification = "host_unreachable"
  BY VerdictSays DEF ClassifySelfhosted, Classifications

LEMMA SomebodyThere ==
  ASSUME NEW h \in HealthReplies, NEW ignored
  PROVE  /\ ClassifySelfhosted(h, ignored) \in Verdicts
         /\ ClassifySelfhosted(h, ignored).classification
              \in {"gateway_only_failure", "healthy", "platform_degraded"}
<1>1. h # None /\ h.status_ok /\ h.down \subseteq Platforms
  BY HermesAssumption DEF HealthResult
<1>2. Verdict("gateway_only_failure", {}) \in Verdicts
      /\ Verdict("gateway_only_failure", {}).classification = "gateway_only_failure"
  BY VerdictSays DEF Classifications
<1>3. Verdict("healthy", {}) \in Verdicts
      /\ Verdict("healthy", {}).classification = "healthy"
  BY VerdictSays DEF Classifications
<1>4. Verdict("platform_degraded", h.down \ ignored) \in Verdicts
      /\ Verdict("platform_degraded", h.down \ ignored).classification
           = "platform_degraded"
  BY <1>1, VerdictSays DEF Classifications
<1> QED BY <1>1, <1>2, <1>3, <1>4 DEF ClassifySelfhosted

(* A web UI is down or healthy.                                            *)
LEMMA WebuiSays ==
  ASSUME NEW code
  PROVE  /\ ClassifyWebui(code) \in Verdicts
         /\ ClassifyWebui(code).classification \in {"healthy", "webui_down"}
<1>1. Verdict("healthy", {}) \in Verdicts /\ Verdict("healthy", {}).classification = "healthy"
  BY VerdictSays DEF Classifications
<1>2. Verdict("webui_down", {}) \in Verdicts /\ Verdict("webui_down", {}).classification = "webui_down"
  BY VerdictSays DEF Classifications
<1> QED BY <1>1, <1>2 DEF ClassifyWebui

-----------------------------------------------------------------------------
(* The client's steps: the thread waits.                                   *)

(* What the thread has found, and what it reports, are not a request's     *)
(* business.                                                               *)
LEMMA ThreadWaits ==
  ASSUME Core, UNCHANGED threadVars, UNCHANGED expired,
         call.pc \notin {"idle", "returned"},
         ClientTypeOK', CallInPlace', RestartCounted', LoginsCounted'
  PROVE  Core'
<1>1. UNCHANGED <<setup, thread, outcome, seen, expired>>
  BY DEF threadVars
<1>2. thread.pc \in {"health", "restart"}
  BY DEF Core, CallInPlace, Idle
<1>3. TypeOK'
  BY <1>1 DEF Core, TypeOK
<1>4. ThreadInPlace' /\ StrikesCounted'
  BY <1>1 DEF Core, ThreadInPlace, StrikesCounted, GatewayFailed
<1>5. OutcomeHonest' /\ RecoveryOwned' /\ ReasonGiven'
  BY <1>1, <1>2 DEF OutcomeHonest, RecoveryOwned, ReasonGiven, Finished
<1> QED BY <1>3, <1>4, <1>5 DEF Core

(* An exception ends the poll or the call.                                 *)
LEMMA Failed ==
  ASSUME Core, NEW e \in Errors, call.pc \in {"login", "get"}, Fail(e)
  PROVE  /\ call' \in Calls /\ call'.op = call.op /\ call'.posted = call.posted
         /\ \/ /\ call.posted /\ call'.pc = "poll"
               /\ call'.polls = call.polls + 1
            \/ /\ call'.pc = "returned" /\ call'.error = e /\ e # None
               /\ call'.polls = call.polls
               /\ call.posted => e \notin HermesErrors
<1>1. call \in Calls
  BY DEF Core, TypeOK, ClientTypeOK
<1>2. call.posted => call.polls < PollAttempts
  BY DEF Core, CallInPlace
<1>3. e # None
  BY HermesAssumption
<1>4. CASE call.posted /\ e \in HermesErrors
  <2>1. call' = [call EXCEPT !.pc = "poll", !.polls = call.polls + 1]
    BY <1>4 DEF Fail, NextPoll
  <2>2. call.polls + 1 \in 0 .. PollAttempts
    BY <1>1, <1>2, <1>4, Numbers DEF Calls
  <2> QED BY <1>1, <1>4, <2>1, <2>2 DEF Calls
<1>5. CASE ~(call.posted /\ e \in HermesErrors)
  <2>1. call' = [call EXCEPT !.pc = "returned", !.error = e, !.health = None]
    BY <1>5 DEF Fail, Return
  <2> QED BY <1>1, <1>3, <1>5, <2>1 DEF Calls
<1> QED BY <1>4, <1>5

(* A request fails, without or with a rejected login.                      *)
LEMMA FailureKeeps ==
  ASSUME Core, UNCHANGED threadVars, UNCHANGED expired, session' \in BOOLEAN,
         NEW e \in Errors, call.pc \in {"login", "get"}, Fail(e),
         \/ UNCHANGED server
         \/ e = "auth" /\ server' = [server EXCEPT !.rejected = server.rejected + 1]
         \/ server' = [server EXCEPT !.unheard = server.unheard + 1]
  PROVE  Core'
<1>1. UNCHANGED <<setup, thread, outcome, seen, expired>>
  BY DEF threadVars
<1>2. TypeOK
  BY DEF Core
<1>3. /\ server' \in Server /\ server'.performed = server.performed
      /\ server'.moved = server.moved
      /\ \/ server'.rejected = server.rejected
         \/ e = "auth" /\ server'.rejected = server.rejected + 1
  BY <1>2 DEF TypeOK, ClientTypeOK, Server
<1>4. ClientTypeOK'
  BY <1>1, <1>2, <1>3, Failed DEF TypeOK, ClientTypeOK
<1>5. call.op \in {"health", "restart"} /\ call.polls \in Nat /\ server.rejected \in Nat
  BY <1>2, Numbers DEF TypeOK, ClientTypeOK, Calls, Server
<1>6. thread.pc \in {"health", "restart"}
  BY DEF Core, CallInPlace, Idle
<1>7. CallInPlace'
  BY <1>1, <1>6, Failed DEF Core, CallInPlace
<1>8. RestartCounted'
  BY <1>1, <1>3, <1>6, Failed DEF Core, CallInPlace, RestartCounted, RestartEarned
<1>9. LoginsCounted'
  <2>1. CASE thread.pc = "health"
    <3>1. call'.pc = "returned" /\ call'.error = e /\ server.rejected <= Earlier
      BY <2>1, Failed DEF Core, CallInPlace, LoginsCounted
    <3>2. Earlier \in Nat
      BY Numbers DEF Earlier
    <3>3. seen.strikes < 2 => Earlier = 0
      BY <1>2, <2>1 DEF Core, StrikesCounted, Earlier, TypeOK, Threads, Sites, Seen
    <3>4. RejectionsHeard'
      BY <1>1, <1>3, <1>5, <3>1, <3>2, <3>3, Numbers
      DEF RejectionsHeard, Earlier
    <3>5. Earlier' = Earlier
      BY <1>1 DEF Earlier
    <3>6. \/ server'.rejected <= Earlier
          \/ server'.rejected <= Earlier + 1 /\ e = "auth"
      BY <1>3, <1>5, <3>1, <3>2
    <3> QED BY <1>1, <2>1, <3>1, <3>4, <3>5, <3>6 DEF LoginsCounted
  <2>2. CASE thread.pc = "restart" /\ ~call.posted
    <3>1. call'.pc = "returned" /\ ~call'.posted /\ server.rejected <= 0
      BY <2>2, Failed DEF Core, CallInPlace, LoginsCounted
    <3>2. RejectionsHeard'
      BY <1>1, <1>3, <1>5, <3>1, Numbers DEF RejectionsHeard
    <3> QED BY <1>1, <1>3, <1>5, <2>2, <3>1, <3>2 DEF LoginsCounted
  <2>3. CASE thread.pc = "restart" /\ call.posted
    <3>1. /\ call'.posted /\ server.rejected <= call.polls
          /\ call.polls < PollAttempts /\ seen.strikes >= 2
          /\ seen.strikes \in Nat
      BY <1>2, <2>3, Failed
      DEF Core, CallInPlace, LoginsCounted, StrikesCounted, TypeOK, Seen
    <3>2. server'.rejected <= call'.polls /\ call'.polls <= PollAttempts
      BY <1>3, <1>5, <2>3, <3>1, Failed, Numbers DEF HermesErrors
    <3>3. call'.pc = "returned" => call'.error # None
      BY Failed
    <3>4. server'.rejected \in Nat /\ call'.polls \in Nat
      BY <1>4, Numbers DEF ClientTypeOK, Server, Calls
    <3>5. RejectionsHeard'
      BY <1>1, <3>1, <3>2, <3>4, Numbers DEF RejectionsHeard
    <3> QED BY <1>1, <2>3, <3>1, <3>2, <3>3, <3>5 DEF LoginsCounted
  <2> QED BY <1>6, <2>1, <2>2, <2>3
<1> QED BY <1>1, <1>4, <1>7, <1>8, <1>9, <1>6, ThreadWaits

(* A request is answered, and another one follows in the same call: no     *)
(* login was rejected and nothing was posted.                              *)
LEMMA GoesOn ==
  ASSUME Core, UNCHANGED threadVars, UNCHANGED expired, UNCHANGED server,
         session' \in BOOLEAN,
         call.pc \notin {"idle", "returned"},
         NEW next \in {"login", "get", "post"}, NEW again \in BOOLEAN,
         call' = [call EXCEPT !.pc = next, !.again = again],
         next = "post" => call.op = "restart" /\ ~call.posted,
         next = "get" => call.op = "health" \/ call.posted,
         call.pc = "poll" => call.polls < PollAttempts
  PROVE  Core'
<1>1. UNCHANGED <<setup, thread, outcome, seen, expired, server>>
  BY DEF threadVars
<1>2. call \in Calls
  BY DEF Core, TypeOK, ClientTypeOK
<1>3. /\ call' \in Calls /\ call'.op = call.op /\ call'.pc = next
      /\ call'.posted = call.posted /\ call'.polls = call.polls
  BY <1>2 DEF Calls
<1>4. ClientTypeOK'
  BY <1>1, <1>3 DEF Core, TypeOK, ClientTypeOK
<1>5. call.op \in {"health", "restart"} /\ call.posted \in BOOLEAN
      /\ thread.pc \in {"health", "restart"}
  BY <1>2 DEF Core, CallInPlace, Idle, Calls
<1>6. CallInPlace'
  BY <1>1, <1>3, <1>5 DEF Core, CallInPlace
<1>7. RestartCounted'
  BY <1>1, <1>3, <1>5 DEF Core, CallInPlace, RestartCounted, RestartEarned
<1>8. LoginsCounted'
  BY <1>1, <1>3, <1>5 DEF Core, CallInPlace, LoginsCounted, RejectionsHeard, Earlier
<1> QED BY <1>1, <1>4, <1>6, <1>7, <1>8, ThreadWaits

(* Logging in.                                                             *)
LEMMA LoginSucceedsKeeps ==
  ASSUME Core, LoginSucceeds, UNCHANGED threadVars PROVE Core'
<1>1. /\ call.pc = "login" /\ session' = TRUE
      /\ call' = [call EXCEPT !.pc = Wanted]
      /\ UNCHANGED <<expired, server>>
  BY DEF LoginSucceeds
<1>2. call \in Calls
  BY DEF Core, TypeOK, ClientTypeOK
<1>3. call' = [call EXCEPT !.pc = Wanted, !.again = call.again] /\ call.again \in BOOLEAN
  BY <1>1, <1>2 DEF Calls
<1>4. /\ Wanted \in {"get", "post"}
      /\ Wanted = "post" => call.op = "restart" /\ ~call.posted
      /\ Wanted = "get" => call.op = "health" \/ call.posted
  BY <1>2 DEF Wanted, Calls
<1> HIDE DEF Wanted
<1> QED BY <1>1, <1>3, <1>4, GoesOn

LEMMA LoginRejectedKeeps ==
  ASSUME Core, LoginRejected, UNCHANGED threadVars PROVE Core'
<1>1. "auth" \in Errors
  BY DEF Errors, HermesErrors
<1> QED BY <1>1, FailureKeeps DEF LoginRejected

(* Whatever gets lost is an error.                                         *)
LEMMA LostIsError == Lost \subseteq Errors
  BY DEF Lost, Errors, HermesErrors

LEMMA LoginFailsKeeps ==
  ASSUME Core, LoginFails, UNCHANGED threadVars PROVE Core'
<1>1. PICK e \in Lost : Fail(e)
  BY DEF LoginFails
<1>2. /\ call.pc = "login" /\ session' \in BOOLEAN /\ UNCHANGED expired
      /\ \/ UNCHANGED server
         \/ server' = [server EXCEPT !.unheard = server.unheard + 1]
  BY DEF LoginFails
<1> QED BY <1>1, <1>2, LostIsError, FailureKeeps

(* Asking for the status.                                                  *)
LEMMA GetUnauthorizedKeeps ==
  ASSUME Core, GetUnauthorized, UNCHANGED threadVars PROVE Core'
<1>1. /\ call.pc = "get" /\ LoginOnce("auth")
      /\ UNCHANGED <<session, expired, server>>
  BY DEF GetUnauthorized
<1>2. call \in Calls /\ session \in BOOLEAN /\ "auth" \in Errors
  BY DEF Core, TypeOK, ClientTypeOK, Errors, HermesErrors
<1>3. CASE call.again
  BY <1>1, <1>2, <1>3, FailureKeeps DEF LoginOnce
<1>4. CASE ~call.again
  <2>1. call' = [call EXCEPT !.pc = "login", !.again = TRUE]
    BY <1>1, <1>4 DEF LoginOnce
  <2> QED BY <1>1, <1>2, <2>1, GoesOn
<1> QED BY <1>3, <1>4

LEMMA GetFailsKeeps ==
  ASSUME Core, GetFails, UNCHANGED threadVars PROVE Core'
<1>1. PICK e \in Lost : Fail(e)
  BY DEF GetFails
<1>2. call.pc = "get" /\ session \in BOOLEAN /\ UNCHANGED <<session, expired, server>>
  BY DEF GetFails, Core, TypeOK, ClientTypeOK
<1> QED BY <1>1, <1>2, LostIsError, FailureKeeps

(* A health check is answered.                                             *)
LEMMA AnsweredKeeps ==
  ASSUME Core, Answered, UNCHANGED threadVars PROVE Core'
<1>1. PICK h \in HealthReplies :
        IF call.op = "health" \/ Healthy(h) THEN Return(None, h) ELSE NextPoll
  BY DEF Answered
<1>2. /\ call.pc = "get"
      /\ UNCHANGED <<session, expired, server, setup, thread, outcome, seen>>
  BY DEF Answered, threadVars
<1>3. /\ call \in Calls /\ session \in BOOLEAN /\ server \in Server
      /\ expired \in BOOLEAN
      /\ \/ thread.pc = "health" /\ call.op = "health" /\ ~call.posted
         \/ /\ thread.pc = "restart" /\ call.op = "restart" /\ call.posted
            /\ call.polls < PollAttempts
  <2>1. thread.pc \in {"health", "restart"}
    BY <1>2 DEF Core, CallInPlace, Idle
  <2>2. thread.pc = "restart" => call.posted
    BY <1>2 DEF Core, CallInPlace
  <2> QED BY <1>2, <2>1, <2>2 DEF Core, TypeOK, ClientTypeOK, CallInPlace
<1>4. CASE call.op = "health" \/ Healthy(h)
  <2>1. call' = [call EXCEPT !.pc = "returned", !.error = None, !.health = h]
    BY <1>1, <1>4 DEF Return
  <2>2. /\ call' \in Calls /\ call'.op = call.op /\ call'.pc = "returned"
        /\ call'.posted = call.posted /\ call'.polls = call.polls
        /\ call'.error = None /\ call'.health # None
    BY <1>3, <2>1, HermesAssumption DEF Calls
  <2>3. ClientTypeOK'
    BY <1>2, <1>3, <2>2 DEF ClientTypeOK
  <2>4. CallInPlace'
    BY <1>2, <1>3, <2>2 DEF CallInPlace
  <2>5. RestartCounted'
    BY <1>2, <1>3, <2>2 DEF Core, RestartCounted, RestartEarned
  <2>6. LoginsCounted'
    BY <1>2, <1>3, <2>2 DEF Core, LoginsCounted, RejectionsHeard, Earlier
  <2> QED BY <1>2, <2>3, <2>4, <2>5, <2>6, ThreadWaits DEF threadVars
<1>5. CASE ~(call.op = "health" \/ Healthy(h))
  <2>1. call' = [call EXCEPT !.pc = "poll", !.polls = call.polls + 1]
    BY <1>1, <1>5 DEF NextPoll
  <2>2. call.polls \in Nat /\ call.polls + 1 \in 0 .. PollAttempts
    BY <1>3, <1>5, Numbers DEF Calls
  <2>3. /\ call' \in Calls /\ call'.op = call.op /\ call'.pc = "poll"
        /\ call'.posted = call.posted /\ call'.polls = call.polls + 1
    BY <1>3, <2>1, <2>2 DEF Calls
  <2>4. ClientTypeOK'
    BY <1>2, <1>3, <2>3 DEF ClientTypeOK
  <2>5. CallInPlace'
    BY <1>2, <1>3, <1>5, <2>3 DEF CallInPlace
  <2>6. RestartCounted'
    BY <1>2, <1>3, <2>3 DEF Core, RestartCounted, RestartEarned
  <2>7. server.rejected \in Nat /\ server.rejected <= call.polls
    BY <1>3, <1>5 DEF Core, LoginsCounted, Server
  <2>8. LoginsCounted'
    BY <1>2, <1>3, <1>5, <2>2, <2>3, <2>7 DEF Core, LoginsCounted, RejectionsHeard
  <2> QED BY <1>2, <2>4, <2>5, <2>6, <2>8, ThreadWaits DEF threadVars
<1> QED BY <1>4, <1>5

(* The restart is asked for.                                               *)
LEMMA AcceptKeeps ==
  ASSUME Core, UNCHANGED threadVars, UNCHANGED <<session, expired>>,
         call.pc = "post", Accept,
         \/ server' = [server EXCEPT !.performed = server.performed + 1, !.moved = FALSE]
         \/ server' = [server EXCEPT !.moved = TRUE]
  PROVE  Core'
<1>1. /\ UNCHANGED <<session, expired, setup, thread, outcome, seen>>
      /\ call' = [call EXCEPT !.pc = "poll", !.posted = TRUE]
  BY DEF threadVars, Accept
<1>2. /\ call \in Calls /\ session \in BOOLEAN /\ server \in Server
      /\ expired \in BOOLEAN /\ seen \in Seen
      /\ thread.pc = "restart" /\ call.op = "restart" /\ ~call.posted
  BY DEF Core, TypeOK, ClientTypeOK, CallInPlace, Idle
<1>3. /\ call' \in Calls /\ call'.op = "restart" /\ call'.pc = "poll" /\ call'.posted
      /\ call'.polls = call.polls /\ call.polls \in Nat
  <2>1. call.polls \in Nat
    BY <1>2, Numbers DEF Calls
  <2> QED BY <1>1, <1>2, <2>1 DEF Calls
<1>4. /\ server.performed = 0 /\ server.rejected = 0 /\ seen.strikes >= 2 /\ ~setup.dryRun
      /\ server.rejected \in Nat
  BY <1>2 DEF Core, RestartCounted, LoginsCounted, StrikesCounted, ThreadInPlace, Server
<1>5. /\ server' \in Server /\ server'.rejected = 0
      /\ \/ server'.performed = 1
         \/ server'.performed = 0 /\ server'.moved
  <2>1. CASE server' = [server EXCEPT !.performed = server.performed + 1, !.moved = FALSE]
    <3>1. server.performed + 1 = 1 /\ server.performed + 1 \in Nat
      BY <1>4
    <3> QED BY <1>2, <1>4, <2>1, <3>1 DEF Server
  <2>2. CASE server' = [server EXCEPT !.moved = TRUE]
    BY <1>2, <1>4, <2>2 DEF Server
  <2> QED BY <2>1, <2>2
<1>6. ClientTypeOK'
  BY <1>1, <1>2, <1>3, <1>5 DEF ClientTypeOK
<1>7. CallInPlace'
  BY <1>1, <1>2, <1>3 DEF CallInPlace
<1>8. RestartCounted'
  BY <1>1, <1>2, <1>3, <1>4, <1>5 DEF Core, ThreadInPlace, RestartCounted, RestartEarned
<1>9. LoginsCounted'
  <2>1. seen.strikes \in Nat /\ RejectionsHeard'
    BY <1>1, <1>2, <1>4, <1>5, Numbers DEF RejectionsHeard, Seen
  <2> QED BY <1>1, <1>2, <1>3, <1>5, <2>1 DEF LoginsCounted
<1> QED BY <1>1, <1>2, <1>6, <1>7, <1>8, <1>9, ThreadWaits

LEMMA PostAcceptedKeeps ==
  ASSUME Core, PostAccepted, UNCHANGED threadVars PROVE Core'
  BY AcceptKeeps DEF PostAccepted

LEMMA PostRedirectedKeeps ==
  ASSUME Core, PostRedirected, UNCHANGED threadVars PROVE Core'
  BY AcceptKeeps DEF PostRedirected

(* The restart fails, and nobody knows whether it was carried out.         *)
LEMMA PostFailureKeeps ==
  ASSUME Core, UNCHANGED threadVars, UNCHANGED <<session, expired>>,
         call.pc = "post", NEW e \in Errors, Return(e, None),
         \/ UNCHANGED server
         \/ server' = [server EXCEPT !.performed = server.performed + 1]
  PROVE  Core'
<1>1. /\ UNCHANGED <<session, expired, setup, thread, outcome, seen>>
      /\ call' = [call EXCEPT !.pc = "returned", !.error = e, !.health = None]
  BY DEF threadVars, Return
<1>2. /\ call \in Calls /\ session \in BOOLEAN /\ server \in Server
      /\ expired \in BOOLEAN /\ seen \in Seen /\ e # None
      /\ thread.pc = "restart" /\ call.op = "restart" /\ ~call.posted
  BY HermesAssumption DEF Core, TypeOK, ClientTypeOK, CallInPlace, Idle
<1>3. /\ call' \in Calls /\ call'.op = "restart" /\ call'.pc = "returned"
      /\ ~call'.posted /\ call'.error # None
  BY <1>1, <1>2 DEF Calls
<1>4. /\ server.performed = 0 /\ server.rejected <= 0 /\ seen.strikes >= 2
      /\ ~setup.dryRun /\ server.rejected \in Nat
  BY <1>2 DEF Core, RestartCounted, LoginsCounted, StrikesCounted, ThreadInPlace, Server
<1>5. /\ server' \in Server /\ server'.rejected = 0 /\ server'.performed \in {0, 1}
  BY <1>2, <1>4 DEF Server
<1>6. ClientTypeOK'
  BY <1>1, <1>2, <1>3, <1>5 DEF ClientTypeOK
<1>7. CallInPlace'
  BY <1>1, <1>2, <1>3 DEF CallInPlace
<1>8. RestartCounted'
  BY <1>1, <1>2, <1>3, <1>4, <1>5 DEF Core, ThreadInPlace, RestartCounted, RestartEarned
<1>9. LoginsCounted'
  <2>1. seen.strikes \in Nat /\ RejectionsHeard'
    BY <1>1, <1>2, <1>4, <1>5, Numbers DEF RejectionsHeard, Seen
  <2> QED BY <1>1, <1>2, <1>3, <1>5, <2>1 DEF LoginsCounted
<1> QED BY <1>1, <1>2, <1>6, <1>7, <1>8, <1>9, ThreadWaits

LEMMA PostFailsKeeps ==
  ASSUME Core, PostFails, UNCHANGED threadVars PROVE Core'
<1>1. PICK e \in Lost : Return(e, None)
  BY DEF PostFails
<1>2. /\ call.pc = "post" /\ UNCHANGED <<session, expired>>
      /\ \/ UNCHANGED server
         \/ server' = [server EXCEPT !.performed = server.performed + 1]
  BY DEF PostFails
<1> QED BY <1>1, <1>2, LostIsError, PostFailureKeeps

LEMMA PostUnauthorizedKeeps ==
  ASSUME Core, PostUnauthorized, UNCHANGED threadVars PROVE Core'
<1>1. /\ call.pc = "post" /\ LoginOnce("http")
      /\ UNCHANGED <<session, expired, server>>
  BY DEF PostUnauthorized
<1>2. /\ call \in Calls /\ session \in BOOLEAN /\ "http" \in Errors
      /\ ~call.posted
  BY <1>1 DEF Core, TypeOK, ClientTypeOK, CallInPlace, Idle, Errors, HermesErrors
<1>3. CASE call.again
  <2>1. Return("http", None)
    BY <1>1, <1>2, <1>3 DEF LoginOnce, Fail
  <2> QED BY <1>1, <1>2, <2>1, PostFailureKeeps
<1>4. CASE ~call.again
  <2>1. call' = [call EXCEPT !.pc = "login", !.again = TRUE]
    BY <1>1, <1>4 DEF LoginOnce
  <2> QED BY <1>1, <1>2, <2>1, GoesOn
<1> QED BY <1>3, <1>4

(* The poll.                                                               *)
LEMMA PollKeeps ==
  ASSUME Core, Poll, UNCHANGED threadVars PROVE Core'
<1>1. /\ call.pc = "poll" /\ call.polls < PollAttempts
      /\ call' = [call EXCEPT !.pc = FirstStage("get"), !.again = FALSE]
      /\ UNCHANGED <<session, expired, server>>
  BY DEF Poll
<1>2. call.posted /\ session \in BOOLEAN
  BY <1>1 DEF Core, CallInPlace, Idle, TypeOK, ClientTypeOK
<1>3. FirstStage("get") \in {"login", "get"}
  BY DEF FirstStage
<1> HIDE DEF FirstStage
<1> QED BY <1>1, <1>2, <1>3, GoesOn

LEMMA PollsEndKeeps ==
  ASSUME Core, PollsEnd, UNCHANGED threadVars PROVE Core'
<1>1. /\ call.pc = "poll"
      /\ call' = [call EXCEPT !.pc = "returned", !.error = "timeout", !.health = None]
      /\ UNCHANGED <<session, expired, server, setup, thread, outcome, seen>>
  BY DEF PollsEnd, Return, threadVars
<1>2. /\ TypeOK /\ call \in Calls /\ "timeout" \in Errors /\ None # "timeout"
      /\ thread.pc = "restart" /\ call.op = "restart" /\ call.posted
  BY <1>1, HermesAssumption
  DEF Core, TypeOK, ClientTypeOK, CallInPlace, Idle, Errors, HermesErrors
<1>3. /\ call' \in Calls /\ call'.op = "restart" /\ call'.pc = "returned"
      /\ call'.posted /\ call'.error # None /\ call'.polls = call.polls
  BY <1>1, <1>2 DEF Calls
<1>4. ClientTypeOK'
  BY <1>1, <1>2, <1>3 DEF TypeOK, ClientTypeOK
<1>5. CallInPlace'
  BY <1>1, <1>2, <1>3 DEF CallInPlace
<1>6. RestartCounted'
  BY <1>1, <1>2, <1>3 DEF Core, ThreadInPlace, RestartCounted, RestartEarned
<1>7. LoginsCounted'
  BY <1>1, <1>2, <1>3 DEF Core, LoginsCounted, RejectionsHeard
<1> QED BY <1>1, <1>4, <1>5, <1>6, <1>7, ThreadWaits DEF threadVars

(* Whatever the client does.                                               *)
LEMMA ClientKeeps ==
  ASSUME Core, ClientStep, UNCHANGED threadVars PROVE Core'
  BY LoginSucceedsKeeps, LoginRejectedKeeps, LoginFailsKeeps, AnsweredKeeps,
     GetUnauthorizedKeeps, GetFailsKeeps, PostAcceptedKeeps, PostRedirectedKeeps,
     PostUnauthorizedKeeps, PostFailsKeeps, PollKeeps, PollsEndKeeps
  DEF ClientStep

-----------------------------------------------------------------------------
(* The thread's steps: the client is idle, or its answer is taken.         *)

(* What the thread's steps have in common.                                 *)
Turn ==
  /\ call' = Idle
  /\ UNCHANGED <<session, expired, server, setup>>

LEMMA TurnTaken ==
  ASSUME Core, Take, UNCHANGED setup PROVE Turn
  BY DEF Take, Turn

LEMMA TurnIdle ==
  ASSUME Core, thread.pc \notin {"health", "restart"}, UNCHANGED clientVars,
         UNCHANGED setup
  PROVE  Turn
  BY DEF Core, CallInPlace, clientVars, Turn

LEMMA TurnKeepsClient ==
  ASSUME Core, Turn
  PROVE  ClientTypeOK' /\ setup' \in Setups /\ ~call'.posted /\ call'.pc = "idle"
<1>1. Idle \in Calls /\ ~Idle.posted /\ Idle.pc = "idle"
  BY Numbers DEF Idle, Calls
<1>2. call' = Idle /\ UNCHANGED <<session, expired, server, setup>>
  BY DEF Turn
<1>3. session \in BOOLEAN /\ expired \in BOOLEAN /\ server \in Server /\ setup \in Setups
  BY DEF Core, TypeOK, ClientTypeOK
<1> QED BY <1>1, <1>2, <1>3 DEF ClientTypeOK

(* A strike more never makes a restart unearned or a login too many.       *)
LEMMA MoreStrikes ==
  ASSUME Core, Turn, seen' \in Seen, seen'.strikes >= seen.strikes
  PROVE  RestartEarned' /\ RejectionsHeard'
<1>1. UNCHANGED <<server, setup>>
  BY DEF Turn
<1>2. /\ server.rejected \in Nat /\ seen.strikes \in Nat /\ seen'.strikes \in Nat
  BY DEF Core, TypeOK, ClientTypeOK, Server, Seen
<1>3. RestartEarned /\ RejectionsHeard
  BY DEF Core, RestartCounted, LoginsCounted
<1>4. RestartEarned'
  BY <1>1, <1>2, <1>3 DEF RestartEarned
<1>5. RejectionsHeard'
  BY <1>1, <1>2, <1>3, Numbers DEF RejectionsHeard
<1> QED BY <1>4, <1>5

(* The thread ends.                                                        *)
LEMMA Finishes ==
  ASSUME Core, Turn, seen' \in Seen, seen'.strikes >= seen.strikes,
         NEW verdict \in Verdicts \cup {None},
         NEW action \in {"none", "gateway_restart"},
         NEW recovered \in BOOLEAN, NEW error \in BOOLEAN,
         NEW reason \in Reasons \cup {None},
         Finish(verdict, action, recovered, error, reason),
         recovered <=> seen'.last = "healthy" /\ ~error,
         ~error /\ verdict.classification = "webui_down" => seen'.asked \/ expired,
         recovered /\ action # "none" => server.performed = 1 \/ server.moved,
         IF error \/ verdict.classification = "host_unreachable"
         THEN reason # None
         ELSE action = "none" => reason \in {None, "timeout"}
  PROVE  Core'
<1>1. /\ UNCHANGED <<session, expired, server, setup>> /\ call' = Idle
      /\ outcome' = [verdict |-> verdict, action |-> action, recovered |-> recovered,
                     error |-> error, reason |-> reason]
      /\ thread' = [thread EXCEPT !.pc = "done"]
  BY DEF Turn, Finish
<1>2. /\ thread' \in Threads /\ thread'.pc = "done" /\ thread'.site = thread.site
  BY <1>1 DEF Core, TypeOK, Threads
<1>3. /\ outcome'.verdict = verdict /\ outcome'.action = action
      /\ outcome'.recovered = recovered /\ outcome'.error = error
      /\ outcome'.reason = reason /\ outcome' \in TargetOutcome
  BY <1>1 DEF TargetOutcome
<1>4. TypeOK'
  BY <1>2, <1>3, TurnKeepsClient DEF TypeOK
<1>5. CallInPlace'
  BY <1>1, <1>2, TurnKeepsClient DEF CallInPlace
<1>6. ThreadInPlace'
  BY <1>2 DEF ThreadInPlace
<1>7. StrikesCounted'
  BY <1>1, <1>2 DEF Core, StrikesCounted
<1>8. RestartCounted'
  BY <1>1, <1>2, MoreStrikes DEF Core, RestartCounted
<1>9. LoginsCounted'
  BY <1>2, MoreStrikes DEF LoginsCounted
<1>10. OutcomeHonest'
  BY <1>1, <1>3 DEF OutcomeHonest
<1>11. RecoveryOwned'
  BY <1>1, <1>3 DEF RecoveryOwned
<1>12. ReasonGiven'
  BY <1>3 DEF ReasonGiven
<1> QED BY <1>4, <1>5, <1>6, <1>7, <1>8, <1>9, <1>10, <1>11, <1>12 DEF Core

(* An exception ends it, too.                                              *)
LEMMA RaiseKeeps ==
  ASSUME Core, Turn, Raise, UNCHANGED seen PROVE Core'
<1>1. "unexpected" \in Reasons /\ "unexpected" # None
  BY NoneAssumption DEF Reasons
<1>2. seen' \in Seen /\ seen'.strikes >= seen.strikes
  BY DEF Core, TypeOK, Seen
<1> QED BY <1>1, <1>2, Finishes DEF Raise

(* The last probe's verdict is reported.                                   *)
LEMMA ReportKeeps ==
  ASSUME Core, Turn, seen' \in Seen, seen'.strikes >= seen.strikes,
         thread.verdict \in Verdicts,
         NEW action \in {"none", "gateway_restart"}, NEW reason \in Reasons \cup {None},
         Report(action, reason),
         thread.verdict.classification = "healthy" <=> seen'.last = "healthy",
         thread.verdict.classification = "webui_down" => seen'.asked \/ expired,
         action # "none" /\ thread.verdict.classification = "healthy"
           => server.performed = 1 \/ server.moved,
         IF thread.verdict.classification = "host_unreachable" THEN reason # None
         ELSE action = "none" => reason \in {None, "timeout"}
  PROVE  Core'
<1> DEFINE healthy == thread.verdict.classification = "healthy"
           said == IF healthy THEN None ELSE reason
<1>1. Finish(thread.verdict, action, healthy, FALSE, said)
  BY DEF Report
<1>2. healthy \in BOOLEAN /\ said \in Reasons \cup {None}
  OBVIOUS
<1>3. IF thread.verdict.classification = "host_unreachable" THEN said # None
      ELSE action = "none" => said \in {None, "timeout"}
  OBVIOUS
<1>4. /\ healthy <=> seen'.last = "healthy" /\ ~FALSE
      /\ healthy /\ action # "none" => server.performed = 1 \/ server.moved
  OBVIOUS
<1> HIDE DEF healthy, said
<1> QED BY <1>1, <1>2, <1>3, <1>4, Finishes

(* A probe begins.                                                         *)
LEMMA ProbeKeeps ==
  ASSUME Core, Turn, seen' \in Seen, seen'.strikes >= seen.strikes,
         NEW site \in Sites, Probe(site),
         IF site = "first" THEN seen'.strikes = 0
         ELSE IF site = "recheck" THEN seen'.strikes = 1 ELSE seen'.strikes >= 2,
         site # "first" => ~setup.dryRun,
         site = "verify" => server.performed = 1 \/ server.moved,
         server.rejected <= IF site = "verify" THEN PollAttempts - 1 ELSE 0
  PROVE  Core'
<1>1. /\ UNCHANGED <<session, expired, server, setup, outcome>> /\ call' = Idle
      /\ thread' = [thread EXCEPT !.pc = "probe", !.site = site, !.tries = 0,
                                  !.reason = None]
  BY DEF Turn, Probe
<1>2. /\ thread' \in Threads /\ thread'.pc = "probe" /\ thread'.site = site
  <2>1. thread \in Threads /\ 0 \in 0 .. HealthRetries + 1 /\ None \in Reasons \cup {None}
    BY Numbers DEF Core, TypeOK
  <2> QED BY <1>1, <2>1 DEF Threads
<1>3. TypeOK'
  BY <1>1, <1>2, TurnKeepsClient DEF Core, TypeOK
<1>4. CallInPlace'
  BY <1>1, <1>2, TurnKeepsClient DEF CallInPlace
<1>5. ThreadInPlace'
  BY <1>2 DEF ThreadInPlace
<1>6. StrikesCounted'
  BY <1>1, <1>2 DEF StrikesCounted
<1>7. RestartCounted'
  BY <1>1, <1>2, MoreStrikes DEF RestartCounted
<1>8. LoginsCounted'
  <2>1. Earlier' = IF site = "verify" THEN PollAttempts - 1 ELSE 0
    BY <1>2 DEF Earlier
  <2> QED BY <1>1, <1>2, <2>1, MoreStrikes DEF LoginsCounted
<1>9. OutcomeHonest' /\ RecoveryOwned' /\ ReasonGiven'
  BY <1>2 DEF OutcomeHonest, RecoveryOwned, ReasonGiven, Finished
<1> QED BY <1>3, <1>4, <1>5, <1>6, <1>7, <1>8, <1>9 DEF Core

(* A probe ends with a verdict.                                            *)
LEMMA VerdictKeeps ==
  ASSUME Core, Turn, seen' \in Seen, seen'.strikes = seen.strikes,
         thread.pc \in {"probe", "health", "webui"},
         NEW verdict \in Verdicts, NEW reason \in Reasons \cup {None},
         thread' = [thread EXCEPT !.pc = "decide", !.reason = reason, !.verdict = verdict],
         UNCHANGED outcome,
         verdict.classification = "host_unreachable" <=> reason # None,
         verdict.classification = "webui_down" => seen'.asked \/ expired,
         server.rejected <= Earlier \/ verdict.classification = "host_unreachable"
  PROVE  Core'
<1>1. UNCHANGED <<session, expired, server, setup, outcome>> /\ call' = Idle
  BY DEF Turn
<1>2. /\ thread' \in Threads /\ thread'.pc = "decide" /\ thread'.site = thread.site
      /\ thread'.verdict = verdict /\ thread'.reason = reason
  BY DEF Core, TypeOK, Threads
<1>3. verdict # None
  BY NoneAssumption
<1>4. TypeOK'
  BY <1>1, <1>2, TurnKeepsClient DEF Core, TypeOK
<1>5. CallInPlace'
  BY <1>1, <1>2, TurnKeepsClient DEF CallInPlace
<1>6. ThreadInPlace'
  BY <1>1, <1>2, <1>3 DEF ThreadInPlace
<1>7. StrikesCounted'
  BY <1>1, <1>2 DEF Core, StrikesCounted
<1>8. RestartEarned' /\ RejectionsHeard'
  BY MoreStrikes DEF Core, TypeOK, Seen
<1>9. RestartCounted'
  BY <1>1, <1>2, <1>8 DEF Core, RestartCounted
<1>10. LoginsCounted'
  <2>1. Earlier' = Earlier /\ Earlier \in Nat /\ server.rejected \in Nat
    BY <1>2, Numbers DEF Earlier, Core, TypeOK, ClientTypeOK, Server
  <2>2. server.rejected <= Earlier + 1
    BY <2>1 DEF Core, LoginsCounted
  <2> QED BY <1>1, <1>2, <1>8, <2>1, <2>2 DEF LoginsCounted
<1>11. OutcomeHonest' /\ RecoveryOwned' /\ ReasonGiven'
  BY <1>2 DEF OutcomeHonest, RecoveryOwned, ReasonGiven, Finished
<1> QED BY <1>4, <1>5, <1>6, <1>7, <1>9, <1>10, <1>11 DEF Core

-----------------------------------------------------------------------------
(* The thread's actions, one by one.                                       *)

(* What the type invariant says of each variable.                          *)
LEMMA Types ==
  ASSUME Core
  PROVE  /\ setup \in Setups /\ thread \in Threads /\ seen \in Seen
         /\ call \in Calls /\ server \in Server /\ session \in BOOLEAN
         /\ expired \in BOOLEAN /\ seen.strikes \in Nat /\ server.rejected \in Nat
  BY DEF Core, TypeOK, ClientTypeOK, Seen, Server

LEMMA StartKeeps ==
  ASSUME Core, Start PROVE Core'
<1>1. /\ thread.pc = "start" /\ thread.site = "first" /\ Probe("first")
      /\ UNCHANGED <<clientVars, seen, setup>>
  BY DEF Core, ThreadInPlace, Start, Probe
<1>2. Turn /\ seen' \in Seen /\ seen'.strikes >= seen.strikes /\ seen'.strikes = 0
  BY <1>1, TurnIdle, Types DEF Core, StrikesCounted
<1>3. server.rejected <= 0
  BY <1>1 DEF Core, LoginsCounted, Earlier
<1> QED BY <1>1, <1>2, <1>3, ProbeKeeps DEF Sites

LEMMA FactoryFailsKeeps ==
  ASSUME Core, FactoryFails PROVE Core'
<1>1. thread.pc = "start" /\ Raise /\ UNCHANGED <<clientVars, seen, setup>>
  BY DEF FactoryFails, Raise, Finish
<1> QED BY <1>1, TurnIdle, RaiseKeeps

(* The budget runs out, at any time.                                       *)
LEMMA ExpireKeeps ==
  ASSUME Core, Expire PROVE Core'
<1>1. expired' = TRUE /\ UNCHANGED <<session, call, server, setup, thread, outcome, seen>>
  BY DEF Expire, threadVars
<1>2. TypeOK'
  BY <1>1 DEF Core, TypeOK, ClientTypeOK
<1>3. CallInPlace' /\ StrikesCounted'
  BY <1>1 DEF Core, CallInPlace, StrikesCounted
<1>4. ThreadInPlace'
  BY <1>1 DEF Core, ThreadInPlace, GatewayFailed
<1>5. RestartCounted'
  BY <1>1 DEF Core, RestartCounted, RestartEarned
<1>6. LoginsCounted'
  BY <1>1 DEF Core, LoginsCounted, RejectionsHeard, Earlier
<1>7. thread.pc # "done"
  BY DEF Expire
<1>8. OutcomeHonest' /\ RecoveryOwned' /\ ReasonGiven'
  BY <1>1, <1>7 DEF OutcomeHonest, RecoveryOwned, ReasonGiven, Finished
<1> QED BY <1>2, <1>3, <1>4, <1>5, <1>6, <1>8 DEF Core

(* The client is called.                                                   *)
LEMMA Called ==
  ASSUME Core, thread.pc \notin {"health", "restart"},
         NEW op \in {"health", "restart"}, Call(op)
  PROVE  /\ ClientTypeOK' /\ UNCHANGED <<session, expired, server>>
         /\ call' \in Calls /\ call'.op = op /\ ~call'.posted
         /\ call'.pc \in {"login", IF op = "restart" THEN "post" ELSE "get"}
<1>1. Idle \in Calls
  BY Numbers DEF Idle, Calls
<1>2. PICK stage \in {"login", IF op = "restart" THEN "post" ELSE "get"} :
        call' = [Idle EXCEPT !.op = op, !.pc = stage]
  BY DEF Call, FirstStage
<1>3. UNCHANGED <<session, expired, server>>
  BY DEF Call
<1>4. /\ call' \in Calls /\ call'.op = op /\ call'.posted = Idle.posted
      /\ call'.pc = stage
  BY <1>1, <1>2 DEF Calls
<1>5. ~Idle.posted
  BY DEF Idle
<1> QED BY <1>3, <1>4, <1>5, Types DEF ClientTypeOK

LEMMA AskHealthKeeps ==
  ASSUME Core, AskHealth PROVE Core'
<1>1. /\ thread.pc = "probe" /\ Call("health") /\ thread.tries <= HealthRetries
      /\ thread' = [thread EXCEPT !.pc = "health"]
      /\ UNCHANGED <<setup, outcome, seen>>
  BY DEF AskHealth, MoreTries
<1>2. /\ ClientTypeOK' /\ UNCHANGED <<session, expired, server>>
      /\ call'.op = "health" /\ ~call'.posted /\ call'.pc \in {"login", "get"}
  BY <1>1, Called
<1>3. /\ thread' \in Threads /\ thread'.pc = "health" /\ thread'.site = thread.site
      /\ thread'.tries = thread.tries
  BY <1>1, Types DEF Threads
<1>4. TypeOK'
  BY <1>1, <1>2, <1>3 DEF Core, TypeOK
<1>5. CallInPlace'
  BY <1>2, <1>3 DEF CallInPlace
<1>6. ThreadInPlace'
  BY <1>1, <1>3 DEF ThreadInPlace
<1>7. StrikesCounted'
  BY <1>1, <1>3 DEF Core, StrikesCounted
<1>8. RestartCounted'
  BY <1>1, <1>2, <1>3 DEF Core, RestartCounted, RestartEarned
<1>9. LoginsCounted'
  BY <1>1, <1>2, <1>3 DEF Core, LoginsCounted, RejectionsHeard, Earlier
<1>10. OutcomeHonest' /\ RecoveryOwned' /\ ReasonGiven'
  BY <1>3 DEF OutcomeHonest, RecoveryOwned, ReasonGiven, Finished
<1> QED BY <1>4, <1>5, <1>6, <1>7, <1>8, <1>9, <1>10 DEF Core

LEMMA GiveUpKeeps ==
  ASSUME Core, GiveUp PROVE Core'
<1> DEFINE verdict == ClassifySelfhosted(None, setup.ignored)
<1>1. /\ thread.pc = "probe"
      /\ thread' = [thread EXCEPT !.pc = "decide", !.reason = ReasonOrTimeout,
                                  !.verdict = verdict]
      /\ UNCHANGED <<clientVars, setup, outcome, seen>>
  BY DEF GiveUp, Unreachable
<1>2. Turn /\ seen' \in Seen /\ seen'.strikes = seen.strikes
  BY <1>1, TurnIdle, Types
<1>3. ReasonOrTimeout \in Reasons /\ ReasonOrTimeout # None
  BY Types, NoneAssumption DEF ReasonOrTimeout, Reasons, HermesErrors, Threads
<1>4. verdict \in Verdicts /\ verdict.classification = "host_unreachable"
  BY NobodyThere
<1> HIDE DEF verdict
<1> QED BY <1>1, <1>2, <1>3, <1>4, VerdictKeeps

(* The client's answer to a health check is taken.                         *)
LEMMA HealthTaken ==
  ASSUME Core, thread.pc = "health", Take, UNCHANGED <<setup, seen>>
  PROVE  /\ Turn /\ seen' \in Seen /\ seen'.strikes = seen.strikes
         /\ call.op = "health" /\ call.pc = "returned"
         /\ server.rejected <= Earlier \/ call.error = "auth"
  BY TurnTaken, Types DEF Core, CallInPlace, LoginsCounted, Take

LEMMA HealthReadKeeps ==
  ASSUME Core, HealthRead PROVE Core'
<1> DEFINE verdict == ClassifySelfhosted(call.health, setup.ignored)
           pc == IF verdict.classification = "healthy" /\ setup.webui
                 THEN "webui" ELSE "decide"
<1>1. /\ thread.pc = "health" /\ Take /\ call.error = None
      /\ thread' = [thread EXCEPT !.pc = pc, !.reason = None, !.verdict = verdict]
      /\ UNCHANGED <<setup, outcome, seen>>
  BY DEF HealthRead
<1>2. /\ Turn /\ seen' \in Seen /\ seen'.strikes = seen.strikes
      /\ call.op = "health" /\ call.pc = "returned"
      /\ server.rejected <= Earlier \/ call.error = "auth"
  BY <1>1, HealthTaken
<1>3. server.rejected <= Earlier
  BY <1>1, <1>2, HermesAssumption DEF Errors, HermesErrors
<1>4. call.health \in HealthReplies
  BY <1>1, <1>2, Types DEF Core, CallInPlace, Calls
<1>5. verdict \in Verdicts
      /\ verdict.classification \in {"gateway_only_failure", "healthy", "platform_degraded"}
  BY <1>4, SomebodyThere
<1> HIDE DEF verdict
<1>6. CASE pc = "decide"
  BY <1>1, <1>2, <1>3, <1>5, <1>6, VerdictKeeps
<1>7. CASE pc = "webui"
  <2>1. /\ UNCHANGED <<session, expired, server, setup, outcome, seen>> /\ call' = Idle
    BY <1>1, <1>2 DEF Turn
  <2>2. /\ thread' \in Threads /\ thread'.pc = "webui" /\ thread'.site = thread.site
        /\ thread'.reason = None
    BY <1>1, <1>5, <1>7, Types DEF Threads
  <2>3. TypeOK'
    BY <1>2, <2>1, <2>2, TurnKeepsClient DEF Core, TypeOK
  <2>4. CallInPlace'
    BY <1>2, <2>1, <2>2, TurnKeepsClient DEF CallInPlace
  <2>5. ThreadInPlace'
    BY <2>2 DEF ThreadInPlace
  <2>6. StrikesCounted'
    BY <1>1, <2>1, <2>2 DEF Core, StrikesCounted
  <2>7. RestartCounted'
    BY <2>1, <2>2 DEF Core, RestartCounted, RestartEarned
  <2>8. LoginsCounted'
    BY <1>3, <2>1, <2>2 DEF Core, LoginsCounted, RejectionsHeard, Earlier
  <2>9. OutcomeHonest' /\ RecoveryOwned' /\ ReasonGiven'
    BY <2>2 DEF OutcomeHonest, RecoveryOwned, ReasonGiven, Finished
  <2> QED BY <2>3, <2>4, <2>5, <2>6, <2>7, <2>8, <2>9 DEF Core
<1> QED BY <1>6, <1>7

LEMMA HealthFailsKeeps ==
  ASSUME Core, HealthFails PROVE Core'
<1>1. /\ thread.pc = "health" /\ Take /\ call.error \in HermesErrors
      /\ UNCHANGED <<setup, outcome, seen>>
  BY DEF HealthFails
<1>2. /\ Turn /\ seen' \in Seen /\ seen'.strikes = seen.strikes
      /\ call.op = "health" /\ call.pc = "returned"
      /\ server.rejected <= Earlier \/ call.error = "auth"
  BY <1>1, HealthTaken
<1>3. FailureReason(call.error) \in Reasons /\ FailureReason(call.error) # None
  BY <1>1, NoneAssumption DEF FailureReason, Reasons
<1>4. CASE MayRetry
  <2>1. thread' = [thread EXCEPT !.pc = "probe", !.tries = thread.tries + 1,
                                 !.reason = FailureReason(call.error)]
    BY <1>4 DEF HealthFails
  <2>2. /\ UNCHANGED <<session, expired, server, setup, outcome, seen>> /\ call' = Idle
    BY <1>1, <1>2 DEF Turn
  <2>3. thread.tries + 1 \in 0 .. HealthRetries + 1
    BY <1>1, Types, Numbers DEF Core, ThreadInPlace, Threads
  <2>4. /\ thread' \in Threads /\ thread'.pc = "probe" /\ thread'.site = thread.site
    BY <1>3, <2>1, <2>3, Types DEF Threads
  <2>5. server.rejected <= Earlier
    BY <1>2, <1>4 DEF MayRetry
  <2>6. TypeOK'
    BY <1>2, <2>2, <2>4, TurnKeepsClient DEF Core, TypeOK
  <2>7. CallInPlace'
    BY <1>2, <2>2, <2>4, TurnKeepsClient DEF CallInPlace
  <2>8. ThreadInPlace'
    BY <2>4 DEF ThreadInPlace
  <2>9. StrikesCounted'
    BY <1>1, <2>2, <2>4 DEF Core, StrikesCounted
  <2>10. RestartCounted'
    BY <2>2, <2>4 DEF Core, RestartCounted, RestartEarned
  <2>11. LoginsCounted'
    BY <2>2, <2>4, <2>5 DEF Core, LoginsCounted, RejectionsHeard, Earlier
  <2>12. OutcomeHonest' /\ RecoveryOwned' /\ ReasonGiven'
    BY <2>4 DEF OutcomeHonest, RecoveryOwned, ReasonGiven, Finished
  <2> QED BY <2>6, <2>7, <2>8, <2>9, <2>10, <2>11, <2>12 DEF Core
<1>5. CASE ~MayRetry
  <2> DEFINE verdict == ClassifySelfhosted(None, setup.ignored)
  <2>1. thread' = [thread EXCEPT !.pc = "decide", !.reason = FailureReason(call.error),
                                 !.verdict = verdict]
    BY <1>5 DEF HealthFails, Unreachable
  <2>2. verdict \in Verdicts /\ verdict.classification = "host_unreachable"
    BY NobodyThere
  <2> HIDE DEF verdict
  <2> QED BY <1>1, <1>2, <1>3, <2>1, <2>2, VerdictKeeps
<1> QED BY <1>4, <1>5

LEMMA HealthCrashesKeeps ==
  ASSUME Core, HealthCrashes PROVE Core'
<1>1. thread.pc = "health" /\ Take /\ Raise /\ UNCHANGED seen /\ UNCHANGED setup
  BY DEF HealthCrashes, Raise, Finish
<1> QED BY <1>1, TurnTaken, RaiseKeeps

LEMMA CheckWebuiKeeps ==
  ASSUME Core, CheckWebui PROVE Core'
<1>1. PICK code \in IF expired THEN {None} ELSE WebuiCodes \cup {None} :
        thread' = [thread EXCEPT !.pc = "decide", !.verdict = ClassifyWebui(code)]
  BY DEF CheckWebui
<1>2. /\ thread.pc = "webui" /\ seen' = [seen EXCEPT !.asked = ~expired \/ seen.asked]
      /\ UNCHANGED <<clientVars, setup, outcome>>
  BY DEF CheckWebui
<1>3. thread.reason = None
  BY <1>2 DEF Core, ThreadInPlace
<1>4. thread' = [thread EXCEPT !.pc = "decide", !.reason = None,
                               !.verdict = ClassifyWebui(code)]
  BY <1>1, <1>3, Types DEF Threads
<1>5. Turn
  BY <1>2, TurnIdle
<1>6. /\ seen' \in Seen /\ seen'.strikes = seen.strikes
      /\ seen'.asked \/ expired
  BY <1>2, Types DEF Seen
<1>7. server.rejected <= Earlier
  BY <1>2 DEF Core, LoginsCounted
<1> QED BY <1>2, <1>4, <1>5, <1>6, <1>7, WebuiSays, VerdictKeeps

LEMMA WebuiCrashesKeeps ==
  ASSUME Core, WebuiCrashes PROVE Core'
<1>1. thread.pc = "webui" /\ Raise /\ UNCHANGED <<clientVars, seen, setup>>
  BY DEF WebuiCrashes, Raise, Finish
<1> QED BY <1>1, TurnIdle, RaiseKeeps

(* A probe's verdict is acted upon.                                        *)
LEMMA Deciding ==
  ASSUME Core, thread.pc = "decide", UNCHANGED <<clientVars, setup>>, Judged
  PROVE  /\ Turn /\ thread.verdict \in Verdicts
         /\ thread.verdict.classification \in Classifications
         /\ seen' \in Seen /\ seen'.strikes >= seen.strikes
         /\ seen'.last = thread.verdict.classification
         /\ seen'.strikes = IF GatewayFailed THEN seen.strikes + 1 ELSE seen.strikes
         /\ seen'.asked = seen.asked
         /\ thread.reason \in Reasons \cup {None}
         /\ thread.verdict.classification = "host_unreachable" <=> thread.reason # None
         /\ thread.verdict.classification = "webui_down" => seen.asked \/ expired
<1>1. thread.verdict \in Verdicts /\ thread.reason \in Reasons \cup {None}
  BY Types DEF Core, ThreadInPlace, Threads
<1>2. thread.verdict.classification \in Classifications
  BY <1>1, VerdictClass
<1>3. Turn
  BY TurnIdle
<1>4. /\ thread.verdict.classification = "host_unreachable" <=> thread.reason # None
      /\ thread.verdict.classification = "webui_down" => seen.asked \/ expired
  BY DEF Core, ThreadInPlace
<1>5. seen' = [seen EXCEPT !.last = thread.verdict.classification,
                           !.strikes = IF GatewayFailed THEN seen.strikes + 1
                                       ELSE seen.strikes]
  BY DEF Judged, GatewayFailed
<1>6. (IF GatewayFailed THEN seen.strikes + 1 ELSE seen.strikes) \in Nat
  BY Types
<1>7. /\ seen' \in Seen
      /\ seen'.last = thread.verdict.classification
      /\ seen'.strikes = IF GatewayFailed THEN seen.strikes + 1 ELSE seen.strikes
      /\ seen'.asked = seen.asked
  BY <1>2, <1>5, <1>6, Types DEF Seen
<1>8. seen'.strikes >= seen.strikes
  BY <1>7, Types
<1> QED BY <1>1, <1>2, <1>3, <1>4, <1>7, <1>8

LEMMA FirstSettlesKeeps ==
  ASSUME Core, FirstSettles PROVE Core'
<1>1. /\ thread.pc = "decide" /\ Judged /\ Report("none", thread.reason)
      /\ UNCHANGED clientVars /\ UNCHANGED setup
  BY DEF FirstSettles, Report, Finish
<1> QED BY <1>1, Deciding, ReportKeeps

LEMMA FirstFindsFailureKeeps ==
  ASSUME Core, FirstFindsFailure PROVE Core'
<1>1. /\ thread.pc = "decide" /\ thread.site = "first" /\ ~setup.dryRun
      /\ GatewayFailed /\ Judged /\ Probe("recheck")
      /\ UNCHANGED clientVars /\ UNCHANGED setup
  BY DEF FirstFindsFailure, Probe
<1>2. seen'.strikes = 1
  BY <1>1, Deciding DEF Core, StrikesCounted
<1>3. server.rejected <= 0
  BY <1>1 DEF Core, LoginsCounted, GatewayFailed, Earlier
<1> QED BY <1>1, <1>2, <1>3, Deciding, ProbeKeeps DEF Sites

LEMMA RecheckSettlesKeeps ==
  ASSUME Core, RecheckSettles PROVE Core'
<1> DEFINE reason == IF GatewayFailed THEN "timeout" ELSE thread.reason
<1>1. /\ thread.pc = "decide" /\ Judged /\ Report("none", reason)
      /\ UNCHANGED clientVars /\ UNCHANGED setup
  BY DEF RecheckSettles, Report, Finish
<1>2. reason \in Reasons \cup {None}
  BY <1>1, Deciding DEF Reasons, HermesErrors
<1>3. IF thread.verdict.classification = "host_unreachable" THEN reason # None
      ELSE reason \in {None, "timeout"}
  BY <1>1, Deciding DEF GatewayFailed
<1> HIDE DEF reason
<1> QED BY <1>1, <1>2, <1>3, Deciding, ReportKeeps

LEMMA VerifyKeeps ==
  ASSUME Core, Verify PROVE Core'
<1>1. /\ thread.pc = "decide" /\ thread.site = "verify" /\ Judged
      /\ Report("gateway_restart", thread.reason)
      /\ UNCHANGED clientVars /\ UNCHANGED setup
  BY DEF Verify, Report, Finish
<1>2. server.performed = 1 \/ server.moved
  BY <1>1 DEF Core, RestartCounted
<1> QED BY <1>1, <1>2, Deciding, ReportKeeps

(* The restart is asked for, after the second strike.                      *)
LEMMA RestartKeeps ==
  ASSUME Core, Restart PROVE Core'
<1>1. /\ thread.pc = "decide" /\ thread.site = "recheck" /\ GatewayFailed
      /\ Call("restart") /\ thread' = [thread EXCEPT !.pc = "restart"]
      /\ seen' = [seen EXCEPT !.last = None, !.strikes = seen.strikes + 1]
      /\ UNCHANGED <<setup, outcome>>
  BY DEF Restart
<1>2. /\ ClientTypeOK' /\ UNCHANGED <<session, expired, server>>
      /\ call'.op = "restart" /\ ~call'.posted /\ call'.pc \in {"login", "post"}
  BY <1>1, Called
<1>3. /\ thread' \in Threads /\ thread'.pc = "restart" /\ thread'.site = "recheck"
      /\ thread'.verdict = thread.verdict
  BY <1>1, Types DEF Threads
<1>4. seen.strikes = 1 /\ ~setup.dryRun
  BY <1>1 DEF Core, StrikesCounted
<1>5. seen' \in Seen /\ seen'.strikes = 2 /\ seen'.last = None
  <2>1. seen.strikes + 1 = 2 /\ 2 \in Nat
    BY <1>4
  <2> QED BY <1>1, <2>1, Types DEF Seen
<1>6. TypeOK'
  BY <1>1, <1>2, <1>3, <1>5 DEF Core, TypeOK
<1>7. CallInPlace'
  BY <1>2, <1>3 DEF CallInPlace
<1>8. ThreadInPlace'
  BY <1>1, <1>3, <1>5 DEF Core, ThreadInPlace, GatewayFailed
<1>9. StrikesCounted'
  BY <1>1, <1>3, <1>4, <1>5 DEF StrikesCounted
<1>10. server.performed = 0
  BY <1>1, <1>4 DEF Core, RestartCounted, RestartEarned, TypeOK, ClientTypeOK, Server
<1>11. RestartCounted'
  BY <1>2, <1>3, <1>10 DEF RestartCounted, RestartEarned
<1>12. server.rejected <= 0
  BY <1>1 DEF Core, LoginsCounted, GatewayFailed, Earlier
<1>13. LoginsCounted'
  BY <1>2, <1>3, <1>5, <1>12, Types, Numbers DEF LoginsCounted, RejectionsHeard
<1>14. OutcomeHonest' /\ RecoveryOwned' /\ ReasonGiven'
  BY <1>3 DEF OutcomeHonest, RecoveryOwned, ReasonGiven, Finished
<1> QED BY <1>6, <1>7, <1>8, <1>9, <1>11, <1>13, <1>14 DEF Core

(* The client's answer to a restart is taken.                              *)
LEMMA RestartTaken ==
  ASSUME Core, thread.pc = "restart", Take, UNCHANGED <<setup, seen>>
  PROVE  /\ Turn /\ seen' \in Seen /\ seen'.strikes >= seen.strikes
         /\ seen.strikes >= 2 /\ seen'.strikes >= 2 /\ seen'.last = None
         /\ ~setup.dryRun
         /\ thread.verdict \in Verdicts
         /\ thread.verdict.classification = "gateway_only_failure"
<1>1. Turn /\ seen' \in Seen /\ seen'.strikes >= seen.strikes
  BY TurnTaken, Types
<1>2. /\ seen.strikes >= 2 /\ seen.last = None /\ thread.site = "recheck"
      /\ thread.verdict \in Verdicts
      /\ thread.verdict.classification = "gateway_only_failure"
  BY Types DEF Core, ThreadInPlace, StrikesCounted, GatewayFailed, Threads
<1> QED BY <1>1, <1>2 DEF Core, StrikesCounted

(* A restart that ends the run, with or without a reason.                  *)
LEMMA RestartReported ==
  ASSUME Core, thread.pc = "restart", Take, UNCHANGED <<setup, seen>>,
         NEW reason \in Reasons \cup {None}, Report("gateway_restart", reason)
  PROVE  Core'
<1>1. None # "healthy"
  BY NoneAssumption DEF Classifications
<1> QED BY <1>1, RestartTaken, ReportKeeps

LEMMA RestartFailsKeeps ==
  ASSUME Core, RestartFails PROVE Core'
<1>1. /\ thread.pc = "restart" /\ Take /\ UNCHANGED <<setup, seen>>
      /\ Report("gateway_restart", FailureReason(call.error))
  BY DEF RestartFails, Report, Finish
<1>2. FailureReason(call.error) \in Reasons
  BY DEF FailureReason, Reasons
<1> QED BY <1>1, <1>2, RestartReported

LEMMA RestartCrashesKeeps ==
  ASSUME Core, RestartCrashes PROVE Core'
<1>1. thread.pc = "restart" /\ Take /\ Raise /\ UNCHANGED seen /\ UNCHANGED setup
  BY DEF RestartCrashes, Raise, Finish
<1> QED BY <1>1, TurnTaken, RaiseKeeps

LEMMA RestartedKeeps ==
  ASSUME Core, Restarted PROVE Core'
<1>1. /\ thread.pc = "restart" /\ Take /\ UNCHANGED <<setup, seen>>
      /\ call.error = None /\ call.pc = "returned"
      /\ IF expired THEN Report("gateway_restart", None) ELSE Probe("verify")
  BY DEF Restarted, Report, Finish, Probe, Take
<1>2. CASE expired
  BY <1>1, <1>2, RestartReported
<1>3. CASE ~expired
  <2>1. call.posted
    BY <1>1 DEF Core, CallInPlace
  <2>2. server.performed = 1 \/ server.moved
    BY <1>1, <2>1 DEF Core, RestartCounted
  <2>3. server.rejected <= call.polls /\ call.polls < PollAttempts
    BY <1>1, <2>1 DEF Core, LoginsCounted
  <2>4. server.rejected <= PollAttempts - 1
    BY <2>3, Types, Numbers DEF Calls
  <2> QED BY <1>1, <1>3, <2>2, <2>4, RestartTaken, ProbeKeeps DEF Sites
<1> QED BY <1>2, <1>3

-----------------------------------------------------------------------------
(* The invariant without the logins whose answers are lost.                *)

LEMMA InitCore ==
  ASSUME Init PROVE Core
<1>1. /\ setup \in Setups /\ thread.pc = "start" /\ thread.site = "first"
      /\ thread = [pc |-> "start", site |-> "first", tries |-> 0,
                   reason |-> None, verdict |-> None]
      /\ outcome = None /\ seen = [strikes |-> 0, last |-> None, asked |-> FALSE]
      /\ session = FALSE /\ expired = FALSE /\ call = Idle
      /\ server = [performed |-> 0, moved |-> FALSE, rejected |-> 0,
                    unheard |-> 0]
  BY DEF Init, ClientInit
<1>2. Idle \in Calls /\ Idle.pc = "idle" /\ ~Idle.posted
  BY Numbers DEF Idle, Calls
<1>3. thread \in Threads /\ seen \in Seen /\ server \in Server
  BY <1>1, Numbers DEF Threads, Sites, Seen, Server
<1>4. TypeOK
  BY <1>1, <1>2, <1>3 DEF TypeOK, ClientTypeOK
<1>5. CallInPlace /\ ThreadInPlace
  BY <1>1, <1>2 DEF CallInPlace, ThreadInPlace
<1>6. StrikesCounted /\ RestartCounted
  BY <1>1 DEF StrikesCounted, RestartCounted, RestartEarned
<1>7. LoginsCounted
  BY <1>1, Numbers DEF LoginsCounted, RejectionsHeard, Earlier
<1>8. OutcomeHonest /\ RecoveryOwned /\ ReasonGiven
  BY <1>1 DEF OutcomeHonest, RecoveryOwned, ReasonGiven, Finished
<1> QED BY <1>4, <1>5, <1>6, <1>7, <1>8 DEF Core

LEMMA NextCore ==
  ASSUME Core, [Next]_vars PROVE Core'
<1>1. CASE Next
  BY <1>1, StartKeeps, FactoryFailsKeeps, ExpireKeeps, AskHealthKeeps, GiveUpKeeps,
     HealthReadKeeps, HealthFailsKeeps, HealthCrashesKeeps, CheckWebuiKeeps,
     WebuiCrashesKeeps, FirstSettlesKeeps, FirstFindsFailureKeeps,
     RecheckSettlesKeeps, RestartKeeps, RestartFailsKeeps, RestartCrashesKeeps,
     RestartedKeeps, VerifyKeeps, ClientKeeps
  DEF Next, Step
<1>2. CASE UNCHANGED vars
  <2>1. UNCHANGED <<session, expired, call, server, setup, thread, outcome, seen>>
    BY <1>2 DEF vars, clientVars, threadVars
  <2>2. TypeOK' /\ CallInPlace' /\ ThreadInPlace'
    BY <2>1 DEF Core, TypeOK, ClientTypeOK, CallInPlace, ThreadInPlace, GatewayFailed
  <2>3. StrikesCounted' /\ RestartCounted' /\ LoginsCounted'
    BY <2>1 DEF Core, StrikesCounted, RestartCounted, RestartEarned, LoginsCounted,
       RejectionsHeard, Earlier
  <2>4. OutcomeHonest' /\ RecoveryOwned' /\ ReasonGiven'
    BY <2>1 DEF Core, OutcomeHonest, RecoveryOwned, ReasonGiven, Finished
  <2> QED BY <2>2, <2>3, <2>4 DEF Core
<1> QED BY <1>1, <1>2

-----------------------------------------------------------------------------
(* The logins that were rejected, those included whose answer was lost.    *)

(* What the bound is at each place of the thread, in numbers.              *)
LEMMA AtMostIs ==
  ASSUME Core
  PROVE  /\ AtProbe \in Nat
         /\ thread.tries \in Nat /\ thread.tries <= HealthRetries + 1
         /\ call.polls \in Nat /\ call.polls <= PollAttempts
         /\ Rejected \in Nat
<1>1. /\ thread.site \in Sites /\ thread.tries \in 0 .. HealthRetries + 1
      /\ call.polls \in 0 .. PollAttempts
      /\ server.rejected \in Nat /\ server.unheard \in Nat
  BY Types DEF Threads, Calls, Server
<1>2. AtProbe \in Nat
  BY <1>1, Numbers DEF AtProbe, Sites
<1>3. Rejected \in Nat
  BY <1>1 DEF Rejected
<1> QED BY <1>1, <1>2, <1>3, Numbers

(* The bound on the run's rejected logins grows with the strikes.          *)
MostRejected(strikes) ==
  IF strikes = 0 THEN HealthRetries + 1
  ELSE IF strikes = 1 THEN 2 * HealthRetries + 1
  ELSE 3 * HealthRetries + PollAttempts

LEMMA MostGrows ==
  ASSUME NEW m \in Nat, NEW n \in Nat, m <= n
  PROVE  MostRejected(m) <= MostRejected(n) /\ MostRejected(m) \in Nat
  BY Numbers DEF MostRejected

(* Wherever the thread is, its bound lies below the run's.                 *)
LEMMA CountedSuffices ==
  ASSUME Core, RejectedCounted, thread.pc # "done"
  PROVE  RejectionsInAll
<1>1. /\ seen.strikes \in Nat /\ thread.site \in Sites
      /\ thread.pc \in {"start", "probe", "health", "webui", "decide", "restart"}
  BY Types DEF Threads
<1>2. Rejected <= AtMost
  BY DEF RejectedCounted
<1>3. AtMost <= MostRejected(seen.strikes)
  <2>1. CASE thread.pc = "restart"
    <3>1. AtMost <= 2 * HealthRetries + PollAttempts
      BY <2>1, AtMostIs, Numbers DEF AtMost
    <3>2. seen.strikes >= 2
      BY <2>1 DEF Core, StrikesCounted
    <3> QED BY <1>1, <2>1, <3>1, <3>2, AtMostIs, Numbers DEF MostRejected, AtMost
  <2>2. CASE thread.pc # "restart"
    <3>1. AtMost <= AtProbe + HealthRetries + 1
      <4>1. thread.pc = "health" => thread.tries <= HealthRetries
        BY DEF Core, ThreadInPlace
      <4> QED BY <1>1, <2>2, <4>1, AtMostIs, Numbers DEF AtMost
    <3>2. AtMost \in Nat
      BY <1>1, <2>2, AtMostIs, Numbers DEF AtMost
    <3>3. CASE thread.site = "first"
      BY <1>1, <2>2, <3>1, <3>2, <3>3, Numbers
      DEF AtProbe, Core, StrikesCounted, MostRejected
    <3>4. CASE thread.site = "recheck"
      BY <1>1, <2>2, <3>1, <3>2, <3>4, Numbers
      DEF AtProbe, Core, StrikesCounted, MostRejected, ThreadInPlace
    <3>5. CASE thread.site = "verify"
      BY <1>1, <2>2, <3>1, <3>2, <3>5, Numbers
      DEF AtProbe, Core, StrikesCounted, MostRejected, ThreadInPlace
    <3> QED BY <1>1, <3>3, <3>4, <3>5 DEF Sites
  <2> QED BY <2>1, <2>2
<1>4. AtMost \in Nat /\ MostRejected(seen.strikes) \in Nat
  BY <1>1, AtMostIs, Numbers DEF AtMost, MostRejected
<1>5. Rejected <= MostRejected(seen.strikes)
  BY <1>2, <1>3, <1>4, AtMostIs
<1> QED BY <1>5 DEF RejectionsInAll, MostRejected, Rejected

(* A request that fails costs one rejected login at most.                  *)
LEMMA FailureCounted ==
  ASSUME Core, RejectedCounted, UNCHANGED threadVars, Rejected' \in Nat,
         NEW e \in Errors, call.pc \in {"login", "get"}, Fail(e),
         Rejected' <= Rejected + 1
  PROVE  RejectedCounted'
<1>1. UNCHANGED <<setup, thread, outcome, seen>> /\ thread.pc \in {"health", "restart"}
  BY DEF threadVars, Core, CallInPlace, Idle
<1>2. Rejected <= AtMost
  BY <1>1 DEF RejectedCounted
<1>3. ~CallFailed
  BY DEF CallFailed
<1>4. \/ call.posted /\ call'.pc = "poll" /\ call'.polls = call.polls + 1
      \/ call'.pc = "returned" /\ call'.error # None
  BY Failed
<1>5. call'.posted = call.posted /\ (call.posted => call.polls < PollAttempts)
  BY Failed DEF Core, CallInPlace
<1>6. AtProbe' = AtProbe
  BY <1>1 DEF AtProbe
<1>7. CASE thread.pc = "health"
  <2>1. ~call.posted
    BY <1>7 DEF Core, CallInPlace
  <2>2. CallFailed'
    BY <1>4, <2>1 DEF CallFailed
  <2>3. AtMost = AtProbe + thread.tries + 0 /\ AtMost' = AtProbe + thread.tries + 1
    BY <1>1, <1>3, <1>6, <1>7, <2>2 DEF AtMost
  <2>4. Rejected' <= AtMost'
    BY <1>2, <2>3, AtMostIs
  <2> QED BY <2>4 DEF RejectedCounted
<1>8. CASE thread.pc = "restart"
  <2>1. AtMost = 2 * HealthRetries + IF call.posted THEN call.polls ELSE 0
    BY <1>3, <1>8 DEF AtMost
  <2>2. AtMost' = 2 * HealthRetries + IF CallFailed' THEN PollAttempts
                                      ELSE IF call'.posted THEN call'.polls ELSE 0
    BY <1>1, <1>8 DEF AtMost
  <2>3. CASE CallFailed'
    BY <1>2, <1>5, <2>1, <2>2, <2>3, AtMostIs, Numbers DEF RejectedCounted
  <2>4. CASE ~CallFailed'
    <3>1. call.posted /\ call'.polls = call.polls + 1
      BY <1>4, <2>4 DEF CallFailed
    <3> QED BY <1>2, <1>5, <2>1, <2>2, <2>4, <3>1, AtMostIs, Numbers DEF RejectedCounted
  <2> QED BY <2>3, <2>4
<1> QED BY <1>1, <1>7, <1>8

(* Whatever the client does.                                               *)
LEMMA ClientCounted ==
  ASSUME Core, RejectedCounted, ClientStep, UNCHANGED threadVars, Core'
  PROVE  RejectedCounted'
<1>1. /\ UNCHANGED <<setup, thread, outcome, seen>>
      /\ Rejected \in Nat /\ Rejected' \in Nat
      /\ server \in Server /\ call \in Calls
  <2>1. server'.rejected \in Nat /\ server'.unheard \in Nat
    BY DEF Core, TypeOK, ClientTypeOK, Server
  <2> QED BY <2>1, AtMostIs, Types DEF threadVars, Rejected
<1>2. call.pc \notin {"idle", "returned"} /\ thread.pc \in {"health", "restart"}
  <2>1. call.pc \notin {"idle", "returned"}
    BY DEF ClientStep, LoginSucceeds, LoginRejected, LoginFails, Answered,
           GetUnauthorized, GetFails, PostAccepted, PostRedirected, PostUnauthorized,
           PostFails, Poll, PollsEnd
  <2> QED BY <2>1 DEF Core, CallInPlace, Idle
<1>3. Rejected <= AtMost /\ ~CallFailed /\ AtProbe' = AtProbe
  BY <1>1, <1>2 DEF RejectedCounted, CallFailed, AtProbe
<1>4. "auth" \in Errors /\ "http" \in Errors
  BY DEF Errors, HermesErrors
<1>5. CASE LoginRejected \/ LoginFails \/ GetFails
  <2>1. /\ call.pc \in {"login", "get"} /\ \E e \in Errors : Fail(e)
    BY <1>4, <1>5, LostIsError DEF LoginRejected, LoginFails, GetFails
  <2>2. \/ server' = server
        \/ server' = [server EXCEPT !.rejected = server.rejected + 1]
        \/ server' = [server EXCEPT !.unheard = server.unheard + 1]
    BY <1>5 DEF LoginRejected, LoginFails, GetFails
  <2>3. server.rejected \in Nat /\ server.unheard \in Nat
    BY <1>1 DEF Server
  <2>4. \/ server'.rejected = server.rejected /\ server'.unheard = server.unheard
        \/ server'.rejected = server.rejected + 1 /\ server'.unheard = server.unheard
        \/ server'.rejected = server.rejected /\ server'.unheard = server.unheard + 1
    BY <1>1, <2>2 DEF Server
  <2>5. Rejected' <= Rejected + 1
    BY <2>3, <2>4 DEF Rejected
  <2> QED BY <1>1, <2>1, <2>5, FailureCounted
<1>6. CASE GetUnauthorized /\ call.again
  <2>1. /\ call.pc = "get" /\ Fail("auth") /\ UNCHANGED server
    BY <1>6 DEF GetUnauthorized, LoginOnce
  <2>2. Rejected' <= Rejected + 1
    BY <1>1, <2>1 DEF Rejected
  <2> QED BY <1>1, <1>4, <2>1, <2>2, FailureCounted
<1>7. CASE PostFails \/ (PostUnauthorized /\ call.again)
  <2>1. /\ call.pc = "post" /\ \E e \in Errors : Return(e, None)
        /\ \/ UNCHANGED server
           \/ server' = [server EXCEPT !.performed = server.performed + 1]
    <3>1. thread.pc = "restart" /\ ~call.posted
      BY <1>2, <1>7 DEF PostFails, PostUnauthorized, Core, CallInPlace
    <3> QED BY <1>4, <1>7, <3>1, LostIsError
        DEF PostFails, PostUnauthorized, LoginOnce, Fail
  <2>2. Rejected' = Rejected
    BY <1>1, <2>1 DEF Rejected, Server
  <2>3. CallFailed'
    BY <1>1, <2>1, HermesAssumption DEF Return, CallFailed, Calls
  <2>4. thread.pc = "restart" /\ ~call.posted
    BY <1>2, <2>1 DEF Core, CallInPlace
  <2>5. AtMost = 2 * HealthRetries + 0 /\ AtMost' = 2 * HealthRetries + PollAttempts
    BY <1>1, <1>3, <2>3, <2>4 DEF AtMost
  <2> QED BY <1>1, <1>3, <2>2, <2>5, Numbers DEF RejectedCounted
<1>8. CASE \/ LoginSucceeds \/ Answered \/ (GetUnauthorized /\ ~call.again)
           \/ PostAccepted \/ PostRedirected \/ (PostUnauthorized /\ ~call.again)
           \/ Poll \/ PollsEnd
  <2>1. Rejected' = Rejected
    BY <1>1, <1>8
    DEF LoginSucceeds, Answered, GetUnauthorized, PostAccepted, PostRedirected,
        PostUnauthorized, Poll, PollsEnd, Rejected, Server
  <2>2. /\ call.posted => call'.posted /\ call'.polls >= call.polls
        /\ thread.pc = "health" => ~CallFailed'
    <3>0. call.polls \in Nat
      BY AtMostIs
    <3>1. CASE \/ LoginSucceeds \/ (GetUnauthorized /\ ~call.again)
               \/ (PostUnauthorized /\ ~call.again) \/ Poll
      <4>1. PICK next \in {"login", "get", "post"}, again \in BOOLEAN :
              call' = [call EXCEPT !.pc = next, !.again = again]
        <5>1. CASE LoginSucceeds
          BY <1>1, <5>1 DEF LoginSucceeds, Wanted, Calls
        <5>2. CASE (GetUnauthorized \/ PostUnauthorized) /\ ~call.again
          BY <1>1, <5>2 DEF GetUnauthorized, PostUnauthorized, LoginOnce, Calls
        <5>3. CASE Poll
          BY <1>1, <5>3 DEF Poll, FirstStage, Calls
        <5> QED BY <3>1, <5>1, <5>2, <5>3
      <4>2. call'.pc = next /\ call'.posted = call.posted /\ call'.polls = call.polls
        BY <1>1, <4>1 DEF Calls
      <4> QED BY <3>0, <4>2 DEF CallFailed
    <3>2. CASE PostAccepted \/ PostRedirected
      <4>1. call'.pc = "poll" /\ call'.posted /\ call'.polls = call.polls
        BY <1>1, <3>2 DEF PostAccepted, PostRedirected, Accept, Calls
      <4> QED BY <3>0, <4>1 DEF CallFailed
    <3>4. CASE Answered
      <4>1. PICK h \in HealthReplies :
              IF call.op = "health" \/ Healthy(h) THEN Return(None, h) ELSE NextPoll
        BY <3>4 DEF Answered
      <4>2. CASE Return(None, h)
        <5>1. /\ call'.error = None /\ call'.posted = call.posted
              /\ call'.polls = call.polls
          BY <1>1, <4>2 DEF Return, Calls
        <5> QED BY <3>0, <5>1 DEF CallFailed
      <4>3. CASE NextPoll
        <5>1. /\ call'.pc = "poll" /\ call'.posted = call.posted
              /\ call'.polls = call.polls + 1
          BY <1>1, <4>3 DEF NextPoll, Calls
        <5> QED BY <3>0, <5>1 DEF CallFailed
      <4> QED BY <4>1, <4>2, <4>3
    <3>3. CASE PollsEnd
      BY <1>1, <3>3, AtMostIs DEF PollsEnd, Return, Calls, CallFailed, Core, CallInPlace
    <3> QED BY <1>8, <3>1, <3>2, <3>3, <3>4
  <2>3. /\ call.polls \in Nat /\ call.polls <= PollAttempts
        /\ call'.polls \in Nat /\ call'.posted \in BOOLEAN
    <3>1. call' \in Calls
      BY DEF Core, TypeOK, ClientTypeOK
    <3> QED BY <3>1, AtMostIs, Numbers DEF Calls
  <2>4. CASE thread.pc = "health"
    <3>1. AtMost' = AtMost
      BY <1>1, <1>3, <2>2, <2>4 DEF AtMost
    <3> QED BY <1>3, <2>1, <3>1 DEF RejectedCounted
  <2>5. CASE thread.pc = "restart"
    <3>1. /\ AtMost = 2 * HealthRetries + IF call.posted THEN call.polls ELSE 0
          /\ AtMost' = 2 * HealthRetries + IF CallFailed' THEN PollAttempts
                                           ELSE IF call'.posted THEN call'.polls ELSE 0
      BY <1>1, <1>3, <2>5 DEF AtMost
    <3>2. AtMost <= AtMost' /\ AtMost \in Nat /\ AtMost' \in Nat
      BY <2>2, <2>3, <3>1, Numbers
    <3> QED BY <1>1, <1>3, <2>1, <3>2 DEF RejectedCounted
  <2> QED BY <1>2, <2>4, <2>5
<1> QED BY <1>5, <1>6, <1>7, <1>8 DEF ClientStep

(* The thread makes no request of its own.                                 *)
LEMMA ThreadRejectsNothing ==
  ASSUME Core,
         \/ Start \/ FactoryFails
         \/ AskHealth \/ GiveUp \/ HealthRead \/ HealthFails \/ HealthCrashes
         \/ CheckWebui \/ WebuiCrashes
         \/ FirstSettles \/ FirstFindsFailure \/ RecheckSettles
         \/ Restart \/ RestartFails \/ RestartCrashes \/ Restarted \/ Verify
  PROVE  /\ UNCHANGED server /\ Rejected' = Rejected /\ thread.pc # "done"
<1>1. UNCHANGED server /\ thread.pc # "done"
  BY DEF Start, FactoryFails, AskHealth, GiveUp, HealthRead, HealthFails, HealthCrashes,
         CheckWebui, WebuiCrashes, FirstSettles, FirstFindsFailure, RecheckSettles, Restart,
         RestartFails, RestartCrashes, Restarted, Verify, Take, Call, clientVars
<1> QED BY <1>1 DEF Rejected

(* A probe that begins with as many rejections as its site allows.         *)
LEMMA ProbeCounted ==
  ASSUME Core, NEW site \in Sites, Probe(site), Rejected' \in Nat,
         Rejected' <= IF site = "first" THEN 0
                      ELSE IF site = "recheck" THEN HealthRetries
                      ELSE 2 * HealthRetries + PollAttempts - 1
  PROVE  RejectedCounted'
<1>1. thread'.pc = "probe" /\ thread'.site = site /\ thread'.tries = 0
  BY Types DEF Probe, Threads
<1>2. AtProbe' = IF site = "first" THEN 0
                 ELSE IF site = "recheck" THEN HealthRetries
                 ELSE 2 * HealthRetries + PollAttempts - 1
  BY <1>1 DEF AtProbe, Sites
<1>3. AtMost' = AtProbe' + 0 /\ AtProbe' \in Nat
  BY <1>1, <1>2, Numbers DEF AtMost
<1> QED BY <1>2, <1>3 DEF RejectedCounted

(* A probe ends with a verdict: with all its checks failed, or not.        *)
LEMMA VerdictCounted ==
  ASSUME Core, RejectedCounted, Rejected' = Rejected, AtProbe' = AtProbe,
         thread'.pc \in {"webui", "decide"},
         \/ thread.pc = "webui"
         \/ thread.pc = "health" /\ ~CallFailed
         \/ /\ thread.pc \in {"probe", "health"}
            /\ thread'.pc = "decide"
            /\ thread'.verdict.classification = "host_unreachable"
  PROVE  RejectedCounted'
<1>1. AtMost' = AtProbe + HealthRetries
              + IF /\ thread'.pc = "decide"
                   /\ thread'.verdict.classification = "host_unreachable" THEN 1 ELSE 0
  BY AtMostIs, Numbers DEF AtMost
<1>2. Rejected <= AtMost
  BY DEF RejectedCounted
<1>3. thread.pc = "health" => thread.tries <= HealthRetries
  BY DEF Core, ThreadInPlace
<1>4. AtMost <= AtMost' /\ AtMost \in Nat /\ AtMost' \in Nat
  BY <1>1, <1>3, AtMostIs, Numbers DEF AtMost
<1> QED BY <1>2, <1>4, AtMostIs DEF RejectedCounted

(* The steps after which the thread goes on.                               *)
LEMMA ThreadCounted ==
  ASSUME Core, Core', RejectedCounted, thread'.pc # "done",
         \/ Start \/ FactoryFails
         \/ AskHealth \/ GiveUp \/ HealthRead \/ HealthFails \/ HealthCrashes
         \/ CheckWebui \/ WebuiCrashes
         \/ FirstSettles \/ FirstFindsFailure \/ RecheckSettles
         \/ Restart \/ RestartFails \/ RestartCrashes \/ Restarted \/ Verify
  PROVE  RejectedCounted'
<1>1. /\ Rejected' = Rejected /\ Rejected \in Nat /\ Rejected <= AtMost
      /\ thread \in Threads
  BY ThreadRejectsNothing, AtMostIs, Types DEF RejectedCounted
<1>2. ~(\/ FactoryFails \/ HealthCrashes \/ WebuiCrashes \/ FirstSettles
        \/ RecheckSettles \/ RestartFails \/ RestartCrashes \/ Verify)
  BY <1>1 DEF FactoryFails, HealthCrashes, WebuiCrashes, FirstSettles, RecheckSettles,
              RestartFails, RestartCrashes, Verify, Raise, Report, Finish, Threads
<1>3. CASE Start
  <2>1. Probe("first") /\ thread.pc = "start"
    BY <1>3 DEF Start
  <2>2. Rejected <= 0
    BY <1>1, <2>1 DEF AtMost
  <2> QED BY <1>1, <2>1, <2>2, ProbeCounted DEF Sites
<1>4. CASE AskHealth
  <2>1. /\ thread.pc = "probe" /\ thread'.pc = "health" /\ thread'.site = thread.site
        /\ thread'.tries = thread.tries
    BY <1>1, <1>4 DEF AskHealth, Threads
  <2>2. ~CallFailed'
    BY <1>4, <2>1, Called DEF AskHealth, CallFailed
  <2>3. AtProbe' = AtProbe
    BY <2>1 DEF AtProbe
  <2>4. AtMost = AtProbe + thread.tries /\ AtMost' = AtProbe + thread.tries + 0
    BY <2>1, <2>2, <2>3 DEF AtMost
  <2> QED BY <1>1, <2>4, AtMostIs DEF RejectedCounted
<1>5. CASE GiveUp \/ (HealthFails /\ ~MayRetry)
  <2>1. /\ thread.pc \in {"probe", "health"} /\ thread'.pc = "decide"
        /\ thread'.site = thread.site
        /\ thread'.verdict = ClassifySelfhosted(None, setup.ignored)
    BY <1>1, <1>5 DEF GiveUp, HealthFails, Unreachable, Threads
  <2>2. AtProbe' = AtProbe
    BY <2>1 DEF AtProbe
  <2> QED BY <1>1, <2>1, <2>2, NobodyThere, VerdictCounted
<1>6. CASE HealthFails /\ MayRetry
  <2>1. /\ thread.pc = "health" /\ thread'.pc = "probe" /\ thread'.site = thread.site
        /\ thread'.tries = thread.tries + 1
    BY <1>1, <1>6 DEF HealthFails, Threads
  <2>2. AtProbe' = AtProbe
    BY <2>1 DEF AtProbe
  <2>3. AtMost' = AtProbe + (thread.tries + 1)
    BY <2>1, <2>2 DEF AtMost
  <2>4. AtMost = AtProbe + thread.tries + IF CallFailed THEN 1 ELSE 0
    BY <2>1 DEF AtMost
  <2> QED BY <1>1, <2>3, <2>4, AtMostIs DEF RejectedCounted
<1>7. CASE HealthRead \/ CheckWebui
  <2>1. /\ thread.pc = "webui" \/ (thread.pc = "health" /\ ~CallFailed)
        /\ thread'.pc \in {"webui", "decide"} /\ thread'.site = thread.site
    BY <1>1, <1>7 DEF HealthRead, CheckWebui, Threads, CallFailed
  <2>2. AtProbe' = AtProbe
    BY <2>1 DEF AtProbe
  <2> QED BY <1>1, <2>1, <2>2, VerdictCounted
<1>8. CASE FirstFindsFailure
  <2>1. /\ thread.pc = "decide" /\ thread.site = "first" /\ Probe("recheck")
        /\ thread.verdict.classification # "host_unreachable"
    BY <1>8 DEF FirstFindsFailure, GatewayFailed
  <2>2. AtMost = 0 + HealthRetries + 0
    BY <2>1 DEF AtMost, AtProbe
  <2>3. Rejected' <= HealthRetries
    BY <1>1, <2>2, Numbers
  <2> QED BY <1>1, <2>1, <2>3, ProbeCounted DEF Sites
<1>9. CASE Restart
  <2>1. /\ thread.pc = "decide" /\ thread.site = "recheck" /\ thread'.pc = "restart"
        /\ thread.verdict.classification # "host_unreachable"
    BY <1>1, <1>9 DEF Restart, GatewayFailed, Threads
  <2>2. ~CallFailed' /\ ~call'.posted
    BY <1>9, <2>1, Called DEF Restart, CallFailed
  <2>3. AtMost = HealthRetries + HealthRetries + 0 /\ AtMost' = 2 * HealthRetries + 0
    BY <2>1, <2>2 DEF AtMost, AtProbe
  <2> QED BY <1>1, <2>3, Numbers DEF RejectedCounted
<1>10. CASE Restarted
  <2>1. /\ thread.pc = "restart" /\ call.error = None /\ call.pc = "returned"
        /\ Probe("verify")
    BY <1>1, <1>10 DEF Restarted, Take, Report, Finish, Threads
  <2>2. call.posted /\ call.polls < PollAttempts
    BY <2>1 DEF Core, CallInPlace, LoginsCounted
  <2>3. AtMost = 2 * HealthRetries + call.polls
    BY <2>1, <2>2 DEF AtMost, CallFailed
  <2>4. Rejected' <= 2 * HealthRetries + PollAttempts - 1
    BY <1>1, <2>2, <2>3, AtMostIs, Numbers
  <2> QED BY <1>1, <2>1, <2>4, ProbeCounted DEF Sites
<1> QED BY <1>2, <1>3, <1>4, <1>5, <1>6, <1>7, <1>8, <1>9, <1>10

(* The strikes of a run are never forgotten.                               *)
LEMMA StrikesGrow ==
  ASSUME Core, [Next]_vars
  PROVE  seen'.strikes >= seen.strikes
<1>1. seen \in Seen /\ seen.strikes \in Nat
  BY Types
<1>2. CASE FirstSettles \/ FirstFindsFailure \/ RecheckSettles \/ Verify
  <2>1. Judged
    BY <1>2 DEF FirstSettles, FirstFindsFailure, RecheckSettles, Verify
  <2> QED BY <1>1, <2>1 DEF Judged, Seen
<1>3. CASE Restart \/ CheckWebui
  <2>1. \/ seen' = [seen EXCEPT !.last = None, !.strikes = seen.strikes + 1]
        \/ seen' = [seen EXCEPT !.asked = ~expired \/ seen.asked]
    BY <1>3 DEF Restart, CheckWebui
  <2>2. seen'.strikes \in {seen.strikes, seen.strikes + 1}
    BY <1>1, <2>1 DEF Seen
  <2> QED BY <1>1, <2>2
<1>4. CASE UNCHANGED seen
  BY <1>1, <1>4
<1>5. \/ FirstSettles \/ FirstFindsFailure \/ RecheckSettles \/ Verify
      \/ Restart \/ CheckWebui \/ UNCHANGED seen
  BY DEF Next, Step, Start, FactoryFails, AskHealth, GiveUp, HealthRead, HealthFails,
        HealthCrashes, WebuiCrashes, RestartFails, RestartCrashes, Restarted, Expire,
         threadVars, vars
<1> QED BY <1>2, <1>3, <1>4, <1>5

(* The same before and after a step.                                       *)
Counted == Core /\ RejectedCounted /\ thread.pc # "done" => RejectionsInAll

LEMMA CountedIs == Counted
  BY CountedSuffices DEF Counted
LEMMA CountedStays == Counted'
  BY CountedIs, PTL

LEMMA InitSInv ==
  ASSUME Init PROVE SInv
<1>1. Core
  BY InitCore
<1>2. /\ thread.pc = "start" /\ thread.site = "first"
      /\ server.rejected = 0 /\ server.unheard = 0
  BY DEF Init, ClientInit
<1>3. RejectedCounted
  BY <1>2 DEF RejectedCounted, AtMost, Rejected
<1> QED BY <1>1, <1>2, <1>3, CountedSuffices DEF SInv

LEMMA NextSInv ==
  ASSUME SInv, [Next]_vars PROVE SInv'
<1>1. Core /\ RejectedCounted /\ RejectionsInAll /\ Core'
  BY NextCore DEF SInv
<1>2. RejectedCounted'
  <2>1. CASE ClientStep /\ UNCHANGED threadVars
    BY <1>1, <2>1, ClientCounted
  <2>2. CASE Expire \/ UNCHANGED vars
    <3>1. UNCHANGED <<thread, call, server>>
      BY <2>2 DEF Expire, vars, clientVars, threadVars
    <3>2. AtProbe' = AtProbe /\ CallFailed' = CallFailed /\ Rejected' = Rejected
      BY <3>1 DEF AtProbe, CallFailed, Rejected
    <3>3. AtMost' = AtMost
      BY <3>1, <3>2 DEF AtMost
    <3> QED BY <1>1, <3>1, <3>2, <3>3 DEF RejectedCounted
  <2>3. CASE thread'.pc = "done"
    BY <2>3 DEF RejectedCounted
  <2> QED BY <1>1, <2>1, <2>2, <2>3, ThreadCounted DEF Next, Step
<1>3. RejectionsInAll'
  <2>1. CASE thread'.pc # "done"
    BY <1>1, <1>2, <2>1, CountedStays DEF Counted
  <2>2. CASE thread'.pc = "done"
    <3>1. Rejected' = Rejected
      <4>1. CASE ClientStep /\ UNCHANGED threadVars
        <5>1. thread.pc = "done"
          BY <2>2, <4>1 DEF threadVars
        <5>2. call.pc \in {"login", "get", "post", "poll"}
          BY <4>1
          DEF ClientStep, LoginSucceeds, LoginRejected, LoginFails, Answered,
              GetUnauthorized, GetFails, PostAccepted, PostRedirected, PostUnauthorized,
              PostFails, Poll, PollsEnd
        <5>3. call.pc = "idle"
          BY <1>1, <5>1 DEF Core, CallInPlace, Idle
        <5> QED BY <5>2, <5>3
      <4>2. CASE Expire \/ UNCHANGED vars
        BY <4>2 DEF Expire, vars, clientVars, Rejected
      <4> QED BY <1>1, <4>1, <4>2, ThreadRejectsNothing DEF Next, Step
    <3>2. /\ Rejected \in Nat /\ seen.strikes \in Nat /\ seen'.strikes \in Nat
          /\ seen'.strikes >= seen.strikes
      BY <1>1, AtMostIs, Types, StrikesGrow DEF Core, TypeOK, Seen
    <3>3. Rejected <= MostRejected(seen.strikes)
      BY <1>1 DEF RejectionsInAll, MostRejected, Rejected
    <3>4. /\ MostRejected(seen.strikes) <= MostRejected(seen'.strikes)
          /\ MostRejected(seen.strikes) \in Nat /\ MostRejected(seen'.strikes) \in Nat
      BY <3>2, MostGrows
    <3>5. Rejected' <= MostRejected(seen'.strikes)
      BY <3>1, <3>2, <3>3, <3>4
    <3> QED BY <3>5 DEF RejectionsInAll, MostRejected, Rejected
  <2> QED BY <2>1, <2>2
<1> QED BY <1>1, <1>2, <1>3 DEF SInv

-----------------------------------------------------------------------------
(* The theorems.                                                           *)

(* The inductive invariant: whose call is under way, what the probes have  *)
(* found, what became of the restart, and how many logins were rejected on *)
(* the way, with and without an answer, in every state of _selfhosted_one  *)
(* and its client.                                                         *)
THEOREM Invariant == Spec => []SInv
  BY InitSInv, NextSInv, PTL DEF Spec

(* What the other theorems need of it.                                     *)
LEMMA CoreHolds == Spec => []Core
<1>1. SInv => Core
  BY DEF SInv
<1> QED BY <1>1, Invariant, PTL

(* Every variable keeps its type: no poll beyond poll_attempts, no health  *)
(* check beyond health_retries.                                            *)
THEOREM TypeCorrect == Spec => []TypeOK
<1>1. Core => TypeOK
  BY DEF Core
<1> QED BY <1>1, CoreHolds, PTL

(* The dashboard restarts its gateway at most once per run, only after two *)
(* probes blamed the gateway alone, and never in a dry run, whatever the   *)
(* re-logins and lost answers of _async_post_restart.                      *)
THEOREM RestartsAreEarned == Spec => []RestartEarned
<1>1. Core => RestartEarned
  BY DEF Core, RestartCounted
<1> QED BY <1>1, CoreHolds, PTL

(* The outcome _sh_done builds is that of the last probe: recovered only   *)
(* if it was healthy, and a web UI called down only if it was asked or no  *)
(* budget was left to ask it.                                              *)
THEOREM OutcomesAreHonest == Spec => []OutcomeHonest
<1>1. Core => OutcomeHonest
  BY DEF Core
<1> QED BY <1>1, CoreHolds, PTL

(* What _selfhosted_one reports as recovered by its restart follows a      *)
(* restart the dashboard carried out, or an answer that redirected it.     *)
THEOREM RecoveriesAreOwned == Spec => []RecoveryOwned
<1>1. Core => RecoveryOwned
  BY DEF Core
<1> QED BY <1>1, CoreHolds, PTL

(* A dashboard that rejects the login, and says so, sees one such login    *)
(* before a restart is asked for and at most poll_attempts in the whole    *)
(* run; one whose rejections get lost, health_retries more for each probe. *)
THEOREM NobodyHammers == Spec => []NoHammering
<1>1. SInv => NoHammering
  BY DEF SInv, Core, LoginsCounted, NoHammering
<1> QED BY <1>1, Invariant, PTL

(* Who could not be reached is reported with a reason, and no outcome has  *)
(* the reason of a probe that a later one overruled.                       *)
THEOREM ReasonsAreGiven == Spec => []ReasonGiven
<1>1. Core => ReasonGiven
  BY DEF Core
<1> QED BY <1>1, CoreHolds, PTL

-----------------------------------------------------------------------------
(* Every run of a target ends: each step uses one of the steps that the    *)
(* caps on attempts leave it.                                              *)

(* What a call in progress has left.                                       *)
LEMMA CallLeftType ==
  Core => /\ CallLeft \in Nat
          /\ RequestLeft \in 2 .. 5 /\ PollsLeft \in Nat
          /\ call.pc = "returned" => CallLeft = 1
          /\ thread.pc = "health" => CallLeft \in 1 .. 5
          /\ thread.pc = "restart" => CallLeft >= 1
          /\ call.posted /\ call.pc \in {"login", "get"} => PollsLeft >= 6
<1> SUFFICES ASSUME Core
             PROVE  /\ CallLeft \in Nat
                    /\ RequestLeft \in 2 .. 5 /\ PollsLeft \in Nat
                    /\ call.pc = "returned" => CallLeft = 1
                    /\ thread.pc = "health" => CallLeft \in 1 .. 5
                    /\ thread.pc = "restart" => CallLeft >= 1
                    /\ call.posted /\ call.pc \in {"login", "get"} => PollsLeft >= 6
  OBVIOUS
<1>1. /\ call.pc \in {"idle", "login", "get", "post", "poll", "returned"}
      /\ call.again \in BOOLEAN /\ call.posted \in BOOLEAN
      /\ call.op \in {"health", "restart"} /\ call.polls \in 0 .. PollAttempts
      /\ PollAttempts \in Nat
  BY Types, Numbers DEF Calls
<1>2. /\ call.posted /\ call.pc \in {"login", "get"} => call.polls < PollAttempts
      /\ call.posted => call.pc # "post"
      /\ thread.pc = "health" =>
           call.op = "health" /\ ~call.posted /\ call.pc \in {"login", "get", "returned"}
      /\ thread.pc = "restart" => call.pc # "idle"
  <2>1. thread.pc \notin {"health", "restart"} => call = Idle
    BY DEF Core, CallInPlace
  <2> QED BY <2>1 DEF Core, CallInPlace, Idle
<1>3. RequestLeft \in 2 .. 5
  BY <1>1 DEF RequestLeft
<1>4. PollsLeft \in Nat /\ (call.posted /\ call.pc \in {"login", "get"} => PollsLeft >= 6)
  BY <1>1, <1>2 DEF PollsLeft
<1> QED BY <1>1, <1>2, <1>3, <1>4 DEF CallLeft

(* It is a number in the next state, too.                                  *)
CallOK == CallLeft \in Nat

LEMMA CallIsOK == Core => CallOK
  BY CallLeftType DEF CallOK

LEMMA CallStaysOK == Core' => CallOK'
  BY CallIsOK, PTL

(* What a thread has left: at least one step unless it is done.            *)
LEMMA LeftType ==
  Core => /\ PlaceLeft \in Nat /\ StepsLeft \in Nat
          /\ PlaceLeft = 0 <=> thread.pc = "done"
          /\ thread.pc \in Probing =>
               ProbeLeft \in 1 .. PerProbe /\ SiteLeft \in Nat
          /\ PerProbe = 6 * HealthRetries + 10 /\ PerRestart = 6 * PollAttempts + 7
          /\ HealthRetries \in Nat /\ PollAttempts \in Nat
<1> SUFFICES ASSUME Core
             PROVE  /\ PlaceLeft \in Nat /\ StepsLeft \in Nat
                    /\ PlaceLeft = 0 <=> thread.pc = "done"
                    /\ thread.pc \in Probing =>
                         ProbeLeft \in 1 .. PerProbe /\ SiteLeft \in Nat
                    /\ PerProbe = 6 * HealthRetries + 10
                    /\ PerRestart = 6 * PollAttempts + 7
                    /\ HealthRetries \in Nat /\ PollAttempts \in Nat
  OBVIOUS
<1>1. /\ thread.pc \in {"start", "probe", "health", "webui", "decide", "restart", "done"}
      /\ thread.site \in Sites /\ thread.tries \in 0 .. HealthRetries + 1
      /\ thread.pc = "health" => thread.tries <= HealthRetries
  BY Types DEF Threads, Core, ThreadInPlace
<1>2. /\ PerProbe = 6 * HealthRetries + 10 /\ PerRestart = 6 * PollAttempts + 7
      /\ HealthRetries \in Nat /\ PollAttempts \in Nat
  BY Numbers DEF PerProbe, PerRestart
<1>3. /\ CallLeft \in Nat
      /\ thread.pc = "health" => CallLeft \in 1 .. 5
      /\ thread.pc = "restart" => CallLeft >= 1
  BY CallLeftType
<1>4. thread.pc \in Probing => ProbeLeft \in 1 .. PerProbe
  BY <1>1, <1>2, <1>3 DEF ProbeLeft, Probing
<1>5. SiteLeft \in Nat
  BY <1>1, <1>2 DEF SiteLeft, Sites
<1>6. PlaceLeft \in Nat /\ (PlaceLeft = 0 <=> thread.pc = "done")
  BY <1>1, <1>2, <1>3, <1>4, <1>5 DEF PlaceLeft, Probing
<1>7. StepsLeft \in Nat
  BY <1>6 DEF StepsLeft
<1> QED BY <1>2, <1>4, <1>5, <1>6, <1>7

(* The same of the next state.                                             *)
LeftOK == PlaceLeft \in Nat /\ StepsLeft \in Nat

LEMMA LeftIsOK == Core => LeftOK
  BY LeftType DEF LeftOK

LEMMA LeftStaysOK == Core' => LeftOK'
  BY LeftIsOK, PTL

(* A step that leaves the thread with less, without touching its budget.   *)
LEMMA PlaceAdvances ==
  ASSUME Core, Core', thread.pc # "done", UNCHANGED expired, PlaceLeft' < PlaceLeft
  PROVE  StepsLeft' < StepsLeft
<1>1. PlaceLeft \in Nat /\ PlaceLeft' \in Nat
  BY LeftIsOK, LeftStaysOK DEF LeftOK
<1> DEFINE n == PlaceLeft'
<1>2. n \in Nat /\ n < PlaceLeft
  BY <1>1
<1>3. CASE expired
  <2>1. StepsLeft = PlaceLeft + 0 /\ StepsLeft' = n + 0
    BY <1>3 DEF StepsLeft
  <2> HIDE DEF n
  <2> QED BY <1>1, <1>2, <2>1
<1>4. CASE ~expired
  <2>1. StepsLeft = PlaceLeft + 1
    BY <1>4 DEF StepsLeft
  <2>2. StepsLeft' = n + 0 \/ StepsLeft' = n + 1
    BY DEF StepsLeft
  <2> HIDE DEF n
  <2> QED BY <1>1, <1>2, <2>1, <2>2
<1> QED BY <1>3, <1>4

(* A thread that is done has nothing left.                                 *)
LEMMA DoneAdvances ==
  ASSUME Core, Core', thread.pc # "done", UNCHANGED expired, thread'.pc = "done"
  PROVE  StepsLeft' < StepsLeft
<1>1. PlaceLeft \in Nat /\ PlaceLeft # 0
  BY LeftType
<1>2. PlaceLeft' = 0
  BY DEF PlaceLeft, Probing
<1> QED BY <1>1, <1>2, PlaceAdvances

(* A failed request: the poll it belongs to is over, or the call is.       *)
LEMMA FailLeft ==
  ASSUME Core, NEW e \in Errors, call.pc \in {"login", "get"}, Fail(e)
  PROVE  CallLeft' < CallLeft
<1>1. /\ RequestLeft \in 2 .. 5 /\ PollsLeft \in Nat
      /\ call.posted => PollsLeft >= 6
  BY CallLeftType
<1>2. call \in Calls /\ (call.posted => call.op = "restart")
  <2>1. thread.pc \notin {"health", "restart"} => call = Idle
    BY DEF Core, CallInPlace
  <2> QED BY <2>1, Types DEF Core, CallInPlace, Idle
<1>3. CallLeft = RequestLeft + IF call.op = "health" THEN 0
                               ELSE IF call.posted THEN PollsLeft - 4 ELSE PollsLeft + 1
  BY DEF CallLeft
<1>4. CASE call.posted /\ e \in HermesErrors
  <2>1. call'.pc = "poll" /\ call'.polls = call.polls + 1
    BY <1>2, <1>4 DEF Fail, NextPoll, Calls
  <2>2. PollsLeft' = PollsLeft - 6
    BY <1>2, <2>1, Numbers DEF PollsLeft, Calls
  <2>3. CallLeft' = PollsLeft' + 2
    BY <2>1 DEF CallLeft
  <2> QED BY <1>1, <1>2, <1>3, <1>4, <2>2, <2>3
<1>5. CASE ~(call.posted /\ e \in HermesErrors)
  <2>1. call'.pc = "returned"
    BY <1>2, <1>5 DEF Fail, Return, Calls
  <2>2. CallLeft' = 1
    BY <2>1 DEF CallLeft
  <2> QED BY <1>1, <1>3, <2>2
<1> QED BY <1>4, <1>5

(* A 401: the request and its login are the last.                          *)
LEMMA LoginOnceLeft ==
  ASSUME Core, NEW e \in Errors, call.pc \in {"get", "post"}, LoginOnce(e),
         call.pc = "post" => ~call.posted
  PROVE  CallLeft' < CallLeft
<1>1. /\ RequestLeft \in 2 .. 5 /\ PollsLeft \in Nat
      /\ call.posted => PollsLeft >= 6
  BY CallLeftType
<1>2. call \in Calls /\ (call.posted => call.op = "restart")
  <2>1. thread.pc \notin {"health", "restart"} => call = Idle
    BY DEF Core, CallInPlace
  <2> QED BY <2>1, Types DEF Core, CallInPlace, Idle
<1>3. CASE call.again /\ call.pc = "get"
  BY <1>3, FailLeft DEF LoginOnce
<1>4. CASE call.again /\ call.pc = "post"
  <2>1. call'.pc = "returned"
    BY <1>2, <1>4 DEF LoginOnce, Fail, Return, Calls
  <2>2. CallLeft' = 1
    BY <2>1 DEF CallLeft
  <2>3. CallLeft = RequestLeft + IF call.op = "health" THEN 0 ELSE PollsLeft + 1
    BY <1>4 DEF CallLeft
  <2> QED BY <1>1, <2>2, <2>3
<1>5. CASE ~call.again
  <2>1. /\ call'.pc = "login" /\ call'.again = TRUE /\ call'.op = call.op
        /\ call'.posted = call.posted /\ call'.polls = call.polls
    BY <1>2, <1>5 DEF LoginOnce, Calls
  <2>2. RequestLeft' = 3 /\ RequestLeft = 4 /\ PollsLeft' = PollsLeft
    BY <1>5, <2>1 DEF RequestLeft, PollsLeft
  <2> QED BY <1>1, <2>1, <2>2 DEF CallLeft
<1> QED BY <1>3, <1>4, <1>5 DEF Calls

(* Every step of the client.                                               *)
LEMMA ClientLeft ==
  ASSUME Core, ClientStep
  PROVE  CallLeft' < CallLeft /\ UNCHANGED expired
<1>1. /\ RequestLeft \in 2 .. 5 /\ PollsLeft \in Nat
      /\ call.posted /\ call.pc \in {"login", "get"} => PollsLeft >= 6
      /\ call \in Calls
  BY CallLeftType, Types
<1>0. call.posted => call.op = "restart" /\ call.pc # "post"
  <2>1. thread.pc \notin {"health", "restart"} => call = Idle
    BY DEF Core, CallInPlace
  <2> QED BY <2>1, Types DEF Core, CallInPlace, Idle
<1>2. UNCHANGED expired
  BY DEF ClientStep, LoginSucceeds, LoginRejected, LoginFails, Answered,
         GetUnauthorized, GetFails, PostAccepted, PostRedirected, PostUnauthorized,
         PostFails, Poll, PollsEnd
<1>3. CASE LoginSucceeds
  <2>1. call.pc = "login" /\ call' = [call EXCEPT !.pc = Wanted]
    BY <1>3 DEF LoginSucceeds
  <2>2. /\ call'.pc \in {"get", "post"} /\ call'.again = call.again /\ call'.op = call.op
        /\ call'.posted = call.posted /\ call'.polls = call.polls
    BY <1>1, <2>1 DEF Wanted, Calls
  <2>3. RequestLeft' = RequestLeft - 1 /\ PollsLeft' = PollsLeft
    BY <1>1, <2>1, <2>2 DEF RequestLeft, PollsLeft, Calls
  <2> QED BY <1>1, <1>2, <2>1, <2>2, <2>3 DEF CallLeft
<1>4. CASE LoginRejected \/ LoginFails \/ GetFails
  <2>1. call.pc \in {"login", "get"} /\ \E e \in Errors : Fail(e)
    BY <1>4, LostIsError DEF LoginRejected, LoginFails, GetFails, Errors, HermesErrors
  <2> QED BY <1>2, <2>1, FailLeft
<1>5. CASE GetUnauthorized \/ PostUnauthorized
  <2>1. call.pc \in {"get", "post"} /\ \E e \in Errors : LoginOnce(e)
    BY <1>5 DEF GetUnauthorized, PostUnauthorized, Errors, HermesErrors
  <2> QED BY <1>0, <1>2, <2>1, LoginOnceLeft
<1>6. CASE Answered
  <2>1. PICK h \in HealthReplies :
          IF call.op = "health" \/ Healthy(h) THEN Return(None, h) ELSE NextPoll
    BY <1>6 DEF Answered
  <2>2. call.pc = "get"
    BY <1>6 DEF Answered
  <2>3. CASE Return(None, h)
    <3>1. CallLeft' = 1
      BY <1>1, <2>3 DEF Return, Calls, CallLeft
    <3>2. CallLeft = RequestLeft + IF call.op = "health" THEN 0
                                   ELSE IF call.posted THEN PollsLeft - 4 ELSE PollsLeft + 1
      BY <2>2 DEF CallLeft
    <3> QED BY <1>1, <1>2, <2>2, <3>1, <3>2
  <2>4. CASE ~(call.op = "health" \/ Healthy(h))
    <3>1. /\ call'.pc = "poll" /\ call'.polls = call.polls + 1 /\ call.op # "health"
      BY <1>1, <2>1, <2>4 DEF NextPoll, Calls
    <3>2. call.posted
      BY <1>1, <2>2, <3>1 DEF Core, CallInPlace, Idle
    <3>3. PollsLeft' = PollsLeft - 6
      BY <1>1, <3>1, Numbers DEF PollsLeft, Calls
    <3>4. CallLeft' = PollsLeft' + 2
      BY <3>1 DEF CallLeft
    <3> QED BY <1>1, <1>2, <2>2, <3>1, <3>2, <3>3, <3>4 DEF CallLeft
  <2> QED BY <2>1, <2>3, <2>4
<1>7. CASE PostAccepted \/ PostRedirected
  <2>1. call.pc = "post" /\ Accept
    BY <1>7 DEF PostAccepted, PostRedirected
  <2>2. call'.pc = "poll" /\ call'.polls = call.polls
    BY <1>1, <2>1 DEF Accept, Calls
  <2>3. PollsLeft' = PollsLeft /\ CallLeft' = PollsLeft + 2
    BY <2>2 DEF PollsLeft, CallLeft
  <2>4. call.op = "restart" /\ ~call.posted
    <3>1. thread.pc # "health"
      BY <2>1 DEF Core, CallInPlace
    <3>2. thread.pc = "restart"
      BY <2>1, <3>1 DEF Core, CallInPlace, Idle
    <3> QED BY <1>0, <2>1, <3>2 DEF Core, CallInPlace
  <2>5. CallLeft = RequestLeft + IF call.op = "health" THEN 0
                                 ELSE IF call.posted THEN PollsLeft - 4 ELSE PollsLeft + 1
    BY <2>1 DEF CallLeft
  <2> QED BY <1>1, <1>2, <2>3, <2>4, <2>5
<1>8. CASE PostFails
  <2>1. call.pc = "post" /\ call'.pc = "returned"
    BY <1>1, <1>8 DEF PostFails, Return, Calls
  <2>2. CallLeft' = 1
    BY <2>1 DEF CallLeft
  <2> QED BY <1>0, <1>1, <1>2, <2>1, <2>2 DEF CallLeft
<1>9. CASE Poll
  <2>1. /\ call.pc = "poll" /\ call.polls < PollAttempts
        /\ call'.pc \in {"login", "get"} /\ call'.again = FALSE
        /\ call'.posted = call.posted /\ call'.polls = call.polls /\ call'.op = call.op
    BY <1>1, <1>9 DEF Poll, FirstStage, Calls
  <2>2. call.posted /\ call.op = "restart"
    BY <1>0, <2>1 DEF Core, CallInPlace, Idle
  <2>3. RequestLeft' \in 4 .. 5 /\ PollsLeft' = PollsLeft
    BY <2>1 DEF RequestLeft, PollsLeft
  <2> QED BY <1>1, <1>2, <2>1, <2>2, <2>3 DEF CallLeft
<1>10. CASE PollsEnd
  <2>1. call.pc = "poll" /\ call'.pc = "returned"
    BY <1>1, <1>10 DEF PollsEnd, Return, Calls
  <2>2. CallLeft' = 1
    BY <2>1 DEF CallLeft
  <2> QED BY <1>1, <1>2, <2>1, <2>2 DEF CallLeft
<1> QED BY <1>2, <1>3, <1>4, <1>5, <1>6, <1>7, <1>8, <1>9, <1>10 DEF ClientStep

(* The client's steps are steps of the thread that waits for it.           *)
LEMMA ClientAdvances ==
  ASSUME Core, Core', ClientStep, UNCHANGED threadVars
  PROVE  StepsLeft' < StepsLeft
<1>1. CallLeft' < CallLeft /\ UNCHANGED expired
  BY ClientLeft
<1>2. UNCHANGED thread
  BY DEF threadVars
<1>3. thread.pc \in {"health", "restart"}
  <2>1. call.pc \in {"login", "get", "post", "poll"}
    BY DEF ClientStep, LoginSucceeds, LoginRejected, LoginFails, Answered,
           GetUnauthorized, GetFails, PostAccepted, PostRedirected, PostUnauthorized,
           PostFails, Poll, PollsEnd
  <2>2. call # Idle
    BY <2>1 DEF Idle
  <2> QED BY <2>2 DEF Core, CallInPlace
<1>4. /\ CallLeft \in Nat /\ CallLeft' \in Nat
  BY CallIsOK, CallStaysOK DEF CallOK
<1>5. CASE thread.pc = "restart"
  <2>1. PlaceLeft = PerProbe + CallLeft /\ PlaceLeft' = PerProbe + CallLeft'
    BY <1>2, <1>5 DEF PlaceLeft, Probing, PerProbe
  <2>2. PlaceLeft' < PlaceLeft
    BY <1>1, <1>4, <2>1, LeftType
  <2> QED BY <1>1, <1>5, <2>2, PlaceAdvances
<1>6. CASE thread.pc = "health"
  <2> DEFINE x == 6 * (HealthRetries - thread.tries) + 3
  <2>1. ProbeLeft = x + CallLeft /\ ProbeLeft' = x + CallLeft'
    BY <1>2, <1>6 DEF ProbeLeft
  <2>2. SiteLeft' = SiteLeft
    BY <1>2 DEF SiteLeft, PerProbe, PerRestart
  <2>3. PlaceLeft = ProbeLeft + SiteLeft /\ PlaceLeft' = ProbeLeft' + SiteLeft'
    BY <1>2, <1>6 DEF PlaceLeft, Probing
  <2>4. x \in Nat /\ SiteLeft \in Nat
    BY <1>6, Types, Numbers, LeftType DEF Threads, Probing, Core, ThreadInPlace
  <2>5. PlaceLeft' < PlaceLeft
    BY <1>1, <1>4, <2>1, <2>2, <2>3, <2>4
  <2> QED BY <1>1, <1>6, <2>5, PlaceAdvances
<1> QED BY <1>3, <1>5, <1>6

(* What is added on both sides changes nothing.                            *)
LEMMA LessSum ==
  ASSUME NEW m \in Nat, NEW n \in Nat, NEW k \in Nat, m < n
  PROVE  m + k < n + k
OBVIOUS

(* A thread whose probe goes on: the site stays, the probe has less left.  *)
LEMMA ProbingAdvances ==
  ASSUME Core, Core', UNCHANGED expired, thread.pc \in Probing, thread'.pc \in Probing,
         thread'.site = thread.site, ProbeLeft' \in Nat, ProbeLeft' < ProbeLeft
  PROVE  StepsLeft' < StepsLeft
<1>1. SiteLeft' = SiteLeft
  BY DEF SiteLeft, PerProbe, PerRestart
<1>2. PlaceLeft = ProbeLeft + SiteLeft /\ PlaceLeft' = ProbeLeft' + SiteLeft'
  BY DEF PlaceLeft, Probing
<1>3. ProbeLeft \in Nat /\ SiteLeft \in Nat
  BY LeftType
<1>4. PlaceLeft' = ProbeLeft' + SiteLeft
  BY <1>1, <1>2
<1>5. ProbeLeft' + SiteLeft < ProbeLeft + SiteLeft
  BY <1>3, LessSum
<1>6. PlaceLeft' < PlaceLeft
  BY <1>2, <1>4, <1>5
<1> QED BY <1>6, PlaceAdvances DEF Probing

(* A thread that begins a probe.                                           *)
LEMMA ProbeBegins ==
  ASSUME Core, NEW site \in Sites, Probe(site)
  PROVE  /\ thread'.pc = "probe" /\ thread'.site = site /\ thread'.tries = 0
         /\ PlaceLeft' = PerProbe - 1 + IF site = "first" THEN 2 * PerProbe + PerRestart
                                        ELSE IF site = "recheck" THEN PerProbe + PerRestart
                                        ELSE 0
<1>1. thread'.pc = "probe" /\ thread'.site = site /\ thread'.tries = 0
  BY Types DEF Probe, Threads
<1>2. ProbeLeft' = PerProbe - 1
  BY <1>1, Numbers DEF ProbeLeft, PerProbe
<1>3. SiteLeft' = IF site = "first" THEN 2 * PerProbe + PerRestart
                  ELSE IF site = "recheck" THEN PerProbe + PerRestart ELSE 0
  BY <1>1 DEF SiteLeft, Sites, PerProbe, PerRestart
<1>4. PlaceLeft' = ProbeLeft' + SiteLeft'
  BY <1>1 DEF PlaceLeft, Probing
<1> QED BY <1>1, <1>2, <1>3, <1>4

(* A call begins with nothing done.                                        *)
LEMMA CallBegins ==
  ASSUME Core, NEW op \in {"health", "restart"}, Call(op)
  PROVE  /\ CallLeft' \in Nat /\ UNCHANGED expired
         /\ op = "health" => CallLeft' \in 4 .. 5
         /\ op = "restart" => CallLeft' < PerRestart
<1>1. /\ call'.pc \in IF op = "restart" THEN {"login", "post"} ELSE {"login", "get"}
      /\ call'.op = op /\ call'.again = FALSE /\ call'.posted = FALSE /\ call'.polls = 0
  BY DEF Call, FirstStage, Idle
<1>2. RequestLeft' \in 4 .. 5 /\ PollsLeft' = 6 * PollAttempts
  BY <1>1, Numbers DEF RequestLeft, PollsLeft
<1>3. CallLeft' = RequestLeft' + IF op = "health" THEN 0 ELSE PollsLeft' + 1
  BY <1>1 DEF CallLeft
<1> QED BY <1>1, <1>2, <1>3, Numbers DEF Call, PerRestart

(* The thread's own steps.                                                 *)
LEMMA ThreadAdvances ==
  ASSUME Core, Core',
         \/ Start \/ FactoryFails
         \/ AskHealth \/ GiveUp \/ HealthRead \/ HealthFails \/ HealthCrashes
         \/ CheckWebui \/ WebuiCrashes
         \/ FirstSettles \/ FirstFindsFailure \/ RecheckSettles
         \/ Restart \/ RestartFails \/ RestartCrashes \/ Restarted \/ Verify
  PROVE  StepsLeft' < StepsLeft
<1>1. /\ thread \in Threads /\ HealthRetries \in Nat /\ PollAttempts \in Nat
      /\ PerProbe = 6 * HealthRetries + 10 /\ PerRestart = 6 * PollAttempts + 7
  BY Types, LeftType
<1>2. CASE \/ FactoryFails \/ HealthCrashes \/ WebuiCrashes \/ FirstSettles
           \/ RecheckSettles \/ RestartFails \/ RestartCrashes \/ Verify
  <2>1. thread.pc # "done" /\ UNCHANGED expired
    BY <1>2 DEF FactoryFails, HealthCrashes, WebuiCrashes, FirstSettles, RecheckSettles,
                RestartFails, RestartCrashes, Verify, Take, clientVars
  <2>2. thread' = [thread EXCEPT !.pc = "done"]
    BY <1>2 DEF FactoryFails, HealthCrashes, WebuiCrashes, FirstSettles, RecheckSettles,
                RestartFails, RestartCrashes, Verify, Raise, Report, Finish
  <2>3. thread'.pc = "done"
    BY <1>1, <2>2 DEF Threads
  <2> QED BY <2>1, <2>3, DoneAdvances
<1>3. CASE Start
  <2>1. thread.pc = "start" /\ Probe("first") /\ UNCHANGED expired
    BY <1>3 DEF Start, clientVars
  <2>2. PlaceLeft = 3 * PerProbe + PerRestart
    BY <2>1 DEF PlaceLeft, Probing
  <2>3. PlaceLeft' = PerProbe - 1 + 2 * PerProbe + PerRestart
    BY <1>1, <2>1, ProbeBegins DEF Sites
  <2> QED BY <1>1, <2>1, <2>2, <2>3, PlaceAdvances
<1>4. CASE AskHealth
  <2>1. /\ thread.pc = "probe" /\ thread.tries <= HealthRetries /\ Call("health")
        /\ thread' = [thread EXCEPT !.pc = "health"]
    BY <1>4 DEF AskHealth, MoreTries
  <2>2. CallLeft' \in 4 .. 5 /\ UNCHANGED expired
    BY <2>1, CallBegins
  <2>3. thread'.pc = "health" /\ thread'.tries = thread.tries /\ thread'.site = thread.site
    BY <1>1, <2>1 DEF Threads
  <2>4. ProbeLeft' = 6 * (HealthRetries - thread.tries) + 3 + CallLeft'
    BY <2>3 DEF ProbeLeft
  <2>5. ProbeLeft = 6 * (HealthRetries + 1 - thread.tries) + 3
    BY <2>1 DEF ProbeLeft
  <2>6. thread.tries \in Nat
    BY <1>1 DEF Threads
  <2>7. ProbeLeft' \in Nat /\ ProbeLeft' < ProbeLeft
    BY <1>1, <2>1, <2>2, <2>4, <2>5, <2>6
  <2> QED BY <2>1, <2>2, <2>3, <2>7, ProbingAdvances DEF Probing
<1>5. CASE GiveUp \/ CheckWebui
  <2>1. /\ thread.pc \in {"probe", "webui"} /\ UNCHANGED expired
        /\ thread'.pc = "decide" /\ thread'.site = thread.site
    BY <1>1, <1>5 DEF GiveUp, CheckWebui, Unreachable, clientVars, Threads
  <2>2. ProbeLeft' = 1
    BY <2>1 DEF ProbeLeft
  <2>3. ProbeLeft > 1
    BY <1>1, <2>1 DEF ProbeLeft, Threads
  <2> QED BY <2>1, <2>2, <2>3, ProbingAdvances DEF Probing
<1>6. CASE HealthRead
  <2>1. /\ thread.pc = "health" /\ UNCHANGED expired /\ call.pc = "returned"
        /\ thread'.pc \in {"webui", "decide"} /\ thread'.site = thread.site
    BY <1>1, <1>6 DEF HealthRead, Take, Threads
  <2>2. ProbeLeft' \in {1, 2}
    BY <2>1 DEF ProbeLeft
  <2>3. thread.tries \in Nat /\ thread.tries <= HealthRetries /\ CallLeft = 1
    BY <1>1, <2>1, CallLeftType DEF Threads, Core, ThreadInPlace
  <2>4. ProbeLeft > 2
    BY <1>1, <2>1, <2>3 DEF ProbeLeft
  <2>5. ProbeLeft \in Nat
    BY <2>1, LeftType DEF Probing
  <2>6. ProbeLeft' \in Nat /\ ProbeLeft' < ProbeLeft
    BY <2>2, <2>4, <2>5
  <2> QED BY <2>1, <2>6, ProbingAdvances DEF Probing
<1>7. CASE HealthFails
  <2>1. /\ thread.pc = "health" /\ UNCHANGED expired /\ call.pc = "returned"
    BY <1>7 DEF HealthFails, Take
  <2>2. thread.tries \in Nat /\ thread.tries <= HealthRetries /\ CallLeft = 1
    BY <1>1, <2>1, CallLeftType DEF Threads, Core, ThreadInPlace
  <2>3. ProbeLeft = 6 * (HealthRetries - thread.tries) + 4
    BY <1>1, <2>1, <2>2 DEF ProbeLeft
  <2>4. CASE MayRetry
    <3>1. /\ thread'.pc = "probe" /\ thread'.site = thread.site
          /\ thread'.tries = thread.tries + 1
      BY <1>1, <1>7, <2>4 DEF HealthFails, Threads
    <3>2. ProbeLeft' = 6 * (HealthRetries + 1 - (thread.tries + 1)) + 3
      BY <3>1 DEF ProbeLeft
    <3>3. ProbeLeft' \in Nat /\ ProbeLeft' < ProbeLeft
      BY <1>1, <2>2, <2>3, <3>2
    <3> QED BY <2>1, <3>1, <3>3, ProbingAdvances DEF Probing
  <2>5. CASE ~MayRetry
    <3>1. thread'.pc = "decide" /\ thread'.site = thread.site
      BY <1>1, <1>7, <2>5 DEF HealthFails, Unreachable, Threads
    <3>2. ProbeLeft' = 1
      BY <3>1 DEF ProbeLeft
    <3>3. ProbeLeft > 1
      BY <1>1, <2>2, <2>3
    <3> QED BY <2>1, <3>1, <3>2, <3>3, ProbingAdvances DEF Probing
  <2> QED BY <2>4, <2>5
<1>8. CASE FirstFindsFailure
  <2>1. /\ thread.pc = "decide" /\ thread.site = "first" /\ Probe("recheck")
        /\ UNCHANGED expired
    BY <1>8 DEF FirstFindsFailure, clientVars
  <2>2. PlaceLeft = 1 + 2 * PerProbe + PerRestart
    BY <1>1, <2>1 DEF PlaceLeft, ProbeLeft, SiteLeft, Probing
  <2>3. PlaceLeft' = PerProbe - 1 + PerProbe + PerRestart
    BY <1>1, <2>1, ProbeBegins DEF Sites
  <2> QED BY <1>1, <2>1, <2>2, <2>3, PlaceAdvances
<1>9. CASE Restart
  <2>1. /\ thread.pc = "decide" /\ thread.site = "recheck" /\ Call("restart")
        /\ thread' = [thread EXCEPT !.pc = "restart"]
    BY <1>9 DEF Restart
  <2>2. CallLeft' \in Nat /\ CallLeft' < PerRestart /\ UNCHANGED expired
    BY <2>1, CallBegins
  <2>3. thread'.pc = "restart"
    BY <1>1, <2>1 DEF Threads
  <2>4. PlaceLeft = 1 + PerProbe + PerRestart
    BY <1>1, <2>1 DEF PlaceLeft, ProbeLeft, SiteLeft, Probing
  <2>5. PlaceLeft' = PerProbe + CallLeft'
    BY <2>3 DEF PlaceLeft, Probing, PerProbe
  <2>6. PlaceLeft' < PlaceLeft
    <3> DEFINE n == CallLeft'
    <3>1. n \in Nat /\ n < PerRestart /\ PlaceLeft' = PerProbe + n
      BY <2>2, <2>5
    <3> HIDE DEF n
    <3> QED BY <1>1, <2>4, <3>1
  <2> QED BY <2>1, <2>2, <2>6, PlaceAdvances
<1>10. CASE Restarted
  <2>1. thread.pc = "restart" /\ call.pc = "returned" /\ UNCHANGED expired
    BY <1>10 DEF Restarted, Take
  <2>2. CASE expired
    <3>1. thread' = [thread EXCEPT !.pc = "done"]
      BY <1>10, <2>2 DEF Restarted, Report, Finish
    <3>2. thread'.pc = "done"
      BY <1>1, <3>1 DEF Threads
    <3> QED BY <2>1, <3>2, DoneAdvances
  <2>3. CASE ~expired
    <3>1. Probe("verify")
      BY <1>10, <2>3 DEF Restarted
    <3>2. PlaceLeft' = PerProbe - 1
      BY <1>1, <3>1, ProbeBegins DEF Sites
    <3>3. PlaceLeft = PerProbe + 1
      BY <2>1, CallLeftType DEF PlaceLeft, Probing
    <3> QED BY <1>1, <2>1, <3>2, <3>3, PlaceAdvances
  <2> QED BY <2>2, <2>3
<1> QED BY <1>2, <1>3, <1>4, <1>5, <1>6, <1>7, <1>8, <1>9, <1>10

(* The passing of the budget.                                              *)
LEMMA ExpireAdvances ==
  ASSUME Core, Core', Expire
  PROVE  StepsLeft' < StepsLeft
<1>1. thread.pc # "done" /\ ~expired /\ expired' = TRUE /\ UNCHANGED <<call, thread>>
  BY DEF Expire, threadVars
<1>2. PlaceLeft' = PlaceLeft
  BY <1>1 DEF PlaceLeft, ProbeLeft, SiteLeft, CallLeft, RequestLeft, PollsLeft, PerProbe,
              PerRestart, Probing
<1>3. PlaceLeft \in Nat
  BY LeftType
<1>4. StepsLeft = PlaceLeft + 1 /\ StepsLeft' = PlaceLeft'
  BY <1>1, <1>2, <1>3 DEF StepsLeft
<1> QED BY <1>2, <1>3, <1>4

(* Every step.                                                             *)
LEMMA NextAdvances ==
  ASSUME Core, Core', [Next]_vars
  PROVE  [StepsLeft' \in Nat /\ StepsLeft' < StepsLeft]_vars
<1>1. StepsLeft' \in Nat
  BY LeftStaysOK DEF LeftOK
<1>2. CASE Next
  <2>1. StepsLeft' < StepsLeft
    BY <1>2, ThreadAdvances, ClientAdvances, ExpireAdvances DEF Next, Step
  <2> QED BY <1>1, <2>1
<1>3. CASE UNCHANGED vars
  BY <1>3
<1> QED BY <1>2, <1>3

(* No run of a target goes on for ever, whatever the dashboard answers and *)
(* even if the budget never expires: probes, re-logins, retries and polls  *)
(* together have finitely many steps, and each step uses up one.           *)
THEOREM RunsAdvance == Spec => Advances
<1>1. Core /\ Core' /\ [Next]_vars => [StepsLeft' \in Nat /\ StepsLeft' < StepsLeft]_vars
  BY NextAdvances
<1> QED BY <1>1, CoreHolds, PTL DEF Spec, Advances
=============================================================================
