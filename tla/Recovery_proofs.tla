-------------------------- MODULE Recovery_proofs --------------------------
(***************************************************************************)
(* Proofs about Recovery, for every number of targets and workers, every   *)
(* number of retries and polls, and every set of replies: its invariant,   *)
(* its action properties, that it implements RecoveryContract, and that    *)
(* its steps run out.                                                      *)
(***************************************************************************)
EXTENDS RecoveryInvariant, RecoveryRefinement, TLAPS

-----------------------------------------------------------------------------
(* The assumption the type proof needs of the constants.                   *)
LEMMA ConstantsType ==
  HealthRetries \in Nat /\ WaitAttempts \in Nat /\ NumTargets \in Nat
BY RecoveryAssumption

-----------------------------------------------------------------------------
(* Type correctness.                                                       *)

(* The locals of a thread that has not begun.                              *)
LEMMA UnstartedType == Unstarted \in Locals
BY ConstantsType DEF Unstarted, Locals, Stages, Sites, ProbeSites, Actions

(* What the building blocks of the actions do to the types.                *)
LEMMA DoneType ==
  ASSUME TypeOK, NEW t \in Targets,
         NEW c \in RailwayClassification \cup {None}, NEW a \in Actions,
         NEW r \in BOOLEAN, NEW d \in BOOLEAN, NEW e \in BOOLEAN,
         Done(t, c, a, r, d, e)
  PROVE  /\ dryRun' \in BOOLEAN
         /\ run' \in [Targets -> Locals]
         /\ outcome' \in [Targets -> TargetOutcome \cup {None}]
<1>1. [Unstarted EXCEPT !.pc = "done"] \in Locals
  BY UnstartedType DEF Locals, Stages
<1>2. [classification |-> c, action |-> a, recovered |-> r, deferred |-> d,
       error |-> e] \in TargetOutcome
  BY DEF TargetOutcome
<1> QED BY <1>1, <1>2 DEF Done, TypeOK

(* A thread that begins a probe keeps its types.                           *)
LEMMA ReadType ==
  ASSUME TypeOK, NEW t \in Targets, NEW s \in Sites, Read(t, s)
  PROVE  /\ dryRun' \in BOOLEAN
         /\ run' \in [Targets -> Locals]
         /\ outcome' \in [Targets -> TargetOutcome \cup {None}]
<1>1. [run[t] EXCEPT !.pc = "status", !.site = s, !.status = None, !.health = None]
        \in Locals
  BY DEF TypeOK, Locals, Stages
<1> QED BY <1>1 DEF Read, TypeOK

(* A thread whose exception ends its target keeps its types.               *)
LEMMA RaiseType ==
  ASSUME TypeOK, NEW t \in Targets, Raise(t)
  PROVE  TypeOK'
<1>1. run[t].cls \in RailwayClassification \cup {None}
  BY DEF TypeOK, Locals
<1> QED BY <1>1, DoneType DEF Raise, Actions, TypeOK

(* The history of a classified probe is well-typed.                        *)
LEMMA JudgeType ==
  ASSUME TypeOK, NEW t \in Targets, NEW c \in RailwayClassification, Judge(t, c)
  PROVE  hist' \in [Targets -> History]
<1> DEFINE n == IF c \in {"healthy", "transitional"}
               THEN hist[t].strikes ELSE hist[t].strikes + 1
<1>1. n \in Nat
  BY DEF TypeOK, History
<1>2. \A k \in Nat : [hist[t] EXCEPT !.last = c, !.strikes = k] \in History
  BY DEF TypeOK, History
<1>3. [hist[t] EXCEPT !.last = c, !.strikes = n] \in History
  BY <1>1, <1>2
<1> QED BY <1>3 DEF Judge, TypeOK

(* A thread that reports a result keeps its types.                         *)
LEMMA FinishType ==
  ASSUME TypeOK, NEW t \in Targets, NEW a \in Actions,
         NEW r \in BOOLEAN, NEW d \in BOOLEAN, Finish(t, a, r, d)
  PROVE  /\ dryRun' \in BOOLEAN
         /\ run' \in [Targets -> Locals]
         /\ outcome' \in [Targets -> TargetOutcome \cup {None}]
<1>1. run[t].cls \in RailwayClassification \cup {None}
  BY DEF TypeOK, Locals
<1> QED BY <1>1, DoneType DEF Finish

(* Starting a target, or failing to, keeps the types.                      *)
LEMMA StartType ==
  ASSUME TypeOK, NEW t \in Targets, Start(t) \/ FactoryFails(t) \/ Expire(t)
  PROVE  TypeOK'
<1>1. CASE Start(t)
  BY <1>1, ReadType DEF Start, Sites, ProbeSites, TypeOK
<1>2. CASE FactoryFails(t)
  BY <1>2, RaiseType DEF FactoryFails
<1>3. CASE Expire(t)
  BY <1>3 DEF Expire, TypeOK, Locals
<1> QED BY <1>1, <1>2, <1>3

(* The reads of a probe keep the types; the retries stay bounded.          *)
LEMMA ProbeType ==
  ASSUME TypeOK, IInv, NEW t \in Targets, Probe(t)
  PROVE  TypeOK'
<1>1. CASE ReadStatus(t)
  <2>1. PICK s \in StatusReplies :
          run' = [run EXCEPT ![t] =
                    [@ EXCEPT !.pc = "health", !.status = s, !.tries = 0]]
    BY <1>1 DEF ReadStatus
  <2>2. \A n \in 0 .. HealthRetries + 1 :
          [run[t] EXCEPT !.pc = "health", !.status = s, !.tries = n] \in Locals
    BY DEF TypeOK, Locals, Stages
  <2>3. 0 \in 0 .. HealthRetries + 1
    BY ConstantsType
  <2>4. [run[t] EXCEPT !.pc = "health", !.status = s, !.tries = 0] \in Locals
    BY <2>2, <2>3
  <2> QED BY <1>1, <2>1, <2>4 DEF ReadStatus, TypeOK
<1>2. CASE StatusFails(t)
  BY <1>2, RaiseType DEF StatusFails
<1>3. CASE CheckHealth(t)
  <2>1. PICK h \in HealthReplies :
          run' = [run EXCEPT ![t] = [@ EXCEPT !.pc = "decide", !.health = h]]
    BY <1>3 DEF CheckHealth
  <2>2. [run[t] EXCEPT !.pc = "decide", !.health = h] \in Locals
    BY DEF TypeOK, Locals, Stages
  <2> QED BY <1>3, <2>1, <2>2 DEF CheckHealth, TypeOK
<1>4. CASE HealthFails(t)
  <2> DEFINE p == IF MoreTries(t) THEN "health" ELSE "decide"
  <2>1. run[t].tries <= HealthRetries
    BY <1>4 DEF HealthFails, At, IInv, Good, InPlace
  <2>2. \A n \in 0 .. HealthRetries + 1 :
          [run[t] EXCEPT !.pc = p, !.tries = n] \in Locals
    BY DEF TypeOK, Locals, Stages
  <2>3. run[t].tries + 1 \in 0 .. HealthRetries + 1
    BY <2>1, ConstantsType DEF TypeOK, Locals
  <2>4. [run[t] EXCEPT !.pc = p, !.tries = run[t].tries + 1] \in Locals
    BY <2>2, <2>3
  <2> QED BY <1>4, <2>4 DEF HealthFails, TypeOK
<1>5. CASE HealthOutOfTime(t)
  BY <1>5 DEF HealthOutOfTime, TypeOK, Locals, Stages
<1>6. CASE HealthCrashes(t)
  BY <1>6, RaiseType DEF HealthCrashes
<1> QED BY <1>1, <1>2, <1>3, <1>4, <1>5, <1>6 DEF Probe

(* The verdicts on a probe keep the types.                                 *)
LEMMA DecideType ==
  ASSUME TypeOK, NEW t \in Targets, Decide(t)
  PROVE  TypeOK'
<1>a. run[t].action \in Actions
  BY DEF TypeOK, Locals
<1>1. CASE FirstSettles(t)
  <2>1. PICK c \in RailwayClassification :
          Judge(t, c) /\ Done(t, c, "none", c = "healthy", c = "transitional", FALSE)
    BY <1>1 DEF FirstSettles
  <2>2. (c = "healthy") \in BOOLEAN /\ (c = "transitional") \in BOOLEAN
    OBVIOUS
  <2>3. hist' \in [Targets -> History]
    BY <2>1, JudgeType
  <2> QED BY <2>1, <2>2, <2>3, DoneType DEF TypeOK, Actions
<1>2. CASE FirstFindsFailure(t)
  <2>1. PICK c \in {"gateway_only_failure", "container_failure"} :
          /\ Judge(t, c)
          /\ run' = [run EXCEPT ![t] =
                       [@ EXCEPT !.pc = "status", !.cls = c,
                                 !.site = IF c = "gateway_only_failure"
                                            THEN "gwCheck" ELSE "ctCheck",
                                 !.status = None, !.health = None]]
    BY <1>2 DEF FirstFindsFailure
  <2>2. c \in RailwayClassification
    BY DEF RailwayClassification
  <2> DEFINE s == IF c = "gateway_only_failure" THEN "gwCheck" ELSE "ctCheck"
  <2>8. s \in Sites
    BY DEF Sites, ProbeSites
  <2>9. \A z \in Sites :
          [run[t] EXCEPT !.pc = "status", !.cls = c, !.site = z,
                         !.status = None, !.health = None] \in Locals
    BY <2>2 DEF TypeOK, Locals, Stages
  <2>3. [run[t] EXCEPT !.pc = "status", !.cls = c, !.site = s,
                       !.status = None, !.health = None] \in Locals
    BY <2>8, <2>9
  <2>4. hist' \in [Targets -> History]
    BY <2>1, <2>2, JudgeType
  <2> QED BY <1>2, <2>1, <2>3, <2>4 DEF FirstFindsFailure, TypeOK
<1>3. CASE RecheckSettles(t)
  <2>1. PICK c \in {"healthy", "transitional"} :
          Judge(t, c) /\ Finish(t, run[t].action, c = "healthy", c = "transitional")
    BY <1>3 DEF RecheckSettles
  <2>2. c \in RailwayClassification
    BY DEF RailwayClassification
  <2>3. (c = "healthy") \in BOOLEAN /\ (c = "transitional") \in BOOLEAN
    OBVIOUS
  <2>4. hist' \in [Targets -> History]
    BY <2>1, <2>2, JudgeType
  <2> QED BY <1>a, <2>1, <2>3, <2>4, FinishType DEF TypeOK
<1>4. CASE RecheckEscalates(t)
  <2>1. hist' \in [Targets -> History]
    BY <1>4, JudgeType DEF RecheckEscalates, RailwayClassification
  <2> QED BY <1>4, <2>1, ReadType DEF RecheckEscalates, TypeOK, Sites, ProbeSites
<1>5. CASE WantContainer(t)
  <2>1. hist' \in [Targets -> History]
    BY <1>5, JudgeType DEF WantContainer, RailwayClassification
  <2>2. [run[t] EXCEPT !.pc = "container"] \in Locals
    BY DEF TypeOK, Locals, Stages
  <2> QED BY <1>5, <2>1, <2>2 DEF WantContainer, TypeOK
<1>6. CASE ContainerUnwanted(t)
  <2>1. hist' \in [Targets -> History]
    BY <1>6, JudgeType DEF ContainerUnwanted, RailwayClassification
  <2> QED BY <1>6, <2>1, FinishType DEF ContainerUnwanted, TypeOK, Actions
<1>7. CASE Regressed(t)
  <2>1. hist' \in [Targets -> History]
    BY <1>7, JudgeType DEF Regressed, RailwayClassification
  <2> QED BY <1>7, <2>1, FinishType DEF Regressed, TypeOK, Actions
<1>8. CASE WantGateway(t)
  <2>1. hist' \in [Targets -> History]
    BY <1>8, JudgeType DEF WantGateway, RailwayClassification
  <2>2. [run[t] EXCEPT !.pc = "gateway"] \in Locals
    BY DEF TypeOK, Locals, Stages
  <2> QED BY <1>8, <2>1, <2>2 DEF WantGateway, TypeOK
<1>9. CASE GatewayUnwanted(t)
  <2>1. hist' \in [Targets -> History]
    BY <1>9, JudgeType DEF GatewayUnwanted, RailwayClassification
  <2> QED BY <1>9, <1>a, <2>1, FinishType DEF GatewayUnwanted, TypeOK
<1>10. CASE Verify(t)
  <2>1. PICK c \in RailwayClassification :
          Judge(t, c) /\ Finish(t, run[t].action, c = "healthy", FALSE)
    BY <1>10 DEF Verify
  <2>2. (c = "healthy") \in BOOLEAN
    OBVIOUS
  <2>3. hist' \in [Targets -> History]
    BY <2>1, JudgeType
  <2> QED BY <1>a, <2>1, <2>2, <2>3, FinishType DEF TypeOK
<1> QED BY <1>1, <1>2, <1>3, <1>4, <1>5, <1>6, <1>7, <1>8, <1>9, <1>10 DEF Decide

(* The container restart keeps the types; the polls stay bounded.          *)
LEMMA RestartContainerType ==
  ASSUME TypeOK, IInv, NEW t \in Targets, RestartContainer(t)
  PROVE  TypeOK'
<1>1. CASE IssueContainer(t)
  <2>1. [run[t] EXCEPT !.pc = "containerReply", !.action = "container_restart",
                       !.status = None, !.health = None] \in Locals
    BY DEF TypeOK, Locals, Stages, Actions
  <2>2. \A k \in Nat : [hist[t] EXCEPT !.container = k, !.last = None] \in History
    BY DEF TypeOK, History
  <2>3. hist[t].container + 1 \in Nat
    BY DEF TypeOK, History
  <2>4. [hist[t] EXCEPT !.container = hist[t].container + 1, !.last = None] \in History
    BY <2>2, <2>3
  <2> QED BY <1>1, <2>1, <2>4 DEF IssueContainer, TypeOK
<1>2. CASE ContainerRefused(t)
  BY <1>2, RaiseType DEF ContainerRefused
<1>3. CASE ContainerAccepted(t)
  <2>1. \A n \in 0 .. WaitAttempts : [run[t] EXCEPT !.pc = "wait", !.polls = n] \in Locals
    BY DEF TypeOK, Locals, Stages
  <2>2. 0 \in 0 .. WaitAttempts
    BY ConstantsType
  <2>3. [run[t] EXCEPT !.pc = "wait", !.polls = 0] \in Locals
    BY <2>1, <2>2
  <2> QED BY <1>3, <2>3 DEF ContainerAccepted, TypeOK
<1>4. CASE ContainerDenied(t)
  BY <1>4, FinishType DEF ContainerDenied, TypeOK, Actions
<1>5. CASE ContainerFails(t)
  BY <1>5, RaiseType DEF ContainerFails
<1>6. CASE Poll(t)
  BY <1>6, ReadType DEF Poll, Sites, TypeOK
<1>7. CASE WaitEnds(t)
  BY <1>7, FinishType DEF WaitEnds, TypeOK, Actions
<1>8. CASE PollFindsIt(t)
  <2>1. CASE run[t].expired
    BY <1>8, <2>1, FinishType DEF PollFindsIt, TypeOK, Actions
  <2>2. CASE ~run[t].expired
    BY <1>8, <2>2, ReadType DEF PollFindsIt, TypeOK, Sites, ProbeSites
  <2> QED BY <2>1, <2>2
<1>9. CASE PollAgain(t)
  <2>1. run[t].polls < WaitAttempts
    BY <1>9 DEF PollAgain, At, IInv, Good, InPlace, Reading
  <2>2. \A n \in 0 .. WaitAttempts :
          [run[t] EXCEPT !.pc = "wait", !.polls = n, !.status = None,
                         !.health = None] \in Locals
    BY DEF TypeOK, Locals, Stages
  <2>3. run[t].polls + 1 \in 0 .. WaitAttempts
    BY <2>1, ConstantsType DEF TypeOK, Locals
  <2>4. [run[t] EXCEPT !.pc = "wait", !.polls = run[t].polls + 1,
                       !.status = None, !.health = None] \in Locals
    BY <2>2, <2>3
  <2> QED BY <1>9, <2>4 DEF PollAgain, TypeOK
<1> QED
  BY <1>1, <1>2, <1>3, <1>4, <1>5, <1>6, <1>7, <1>8, <1>9 DEF RestartContainer

(* The gateway restart keeps the types.                                    *)
LEMMA RestartGatewayType ==
  ASSUME TypeOK, NEW t \in Targets, RestartGateway(t)
  PROVE  TypeOK'
<1>a. run[t].action \in Actions
  BY DEF TypeOK, Locals
<1>1. CASE IssueGateway(t)
  <2> DEFINE a == IF run[t].action = "none" THEN "gateway_restart" ELSE run[t].action
  <2>1. a \in Actions
    BY <1>a DEF Actions
  <2>9. \A z \in Actions :
          [run[t] EXCEPT !.pc = "gatewayReply", !.action = z,
                         !.status = None, !.health = None] \in Locals
    BY DEF TypeOK, Locals, Stages
  <2>2. [run[t] EXCEPT !.pc = "gatewayReply", !.action = a,
                       !.status = None, !.health = None] \in Locals
    BY <2>1, <2>9
  <2>3. \A k \in Nat : [hist[t] EXCEPT !.gateway = k, !.last = None] \in History
    BY DEF TypeOK, History
  <2>4. hist[t].gateway + 1 \in Nat
    BY DEF TypeOK, History
  <2>5. [hist[t] EXCEPT !.gateway = hist[t].gateway + 1, !.last = None] \in History
    BY <2>3, <2>4
  <2> QED BY <1>1, <2>2, <2>5 DEF IssueGateway, TypeOK
<1>2. CASE GatewayRefused(t)
  BY <1>2, RaiseType DEF GatewayRefused
<1>3. CASE GatewayRestarted(t)
  <2>1. CASE run[t].expired
    BY <1>3, <1>a, <2>1, FinishType DEF GatewayRestarted, TypeOK
  <2>2. CASE ~run[t].expired
    BY <1>3, <2>2, ReadType DEF GatewayRestarted, TypeOK, Sites, ProbeSites
  <2> QED BY <2>1, <2>2
<1>4. CASE GatewayDenied(t)
  BY <1>4, <1>a, FinishType DEF GatewayDenied, TypeOK
<1>5. CASE GatewayFails(t)
  BY <1>5, RaiseType DEF GatewayFails
<1> QED BY <1>1, <1>2, <1>3, <1>4, <1>5 DEF RestartGateway

(* Every step keeps the types.                                             *)
LEMMA TypeStep ==
  ASSUME TypeOK, IInv, [Next]_vars
  PROVE  TypeOK'
<1>1. CASE UNCHANGED vars
  BY <1>1 DEF vars, TypeOK
<1>2. CASE Next
  <2>1. PICK t \in Targets : Step(t) \/ Expire(t)
    BY <1>2 DEF Next
  <2> QED
    BY <2>1, StartType, ProbeType, DecideType, RestartContainerType,
       RestartGatewayType DEF Step
<1> QED BY <1>1, <1>2

-----------------------------------------------------------------------------
(* The inductive invariant is kept.                                        *)

(* A step of one target's thread leaves the others alone, ...              *)
Others(t) ==
  /\ dryRun' = dryRun
  /\ \A u \in Targets \ {t} :
       run'[u] = run[u] /\ outcome'[u] = outcome[u] /\ hist'[u] = hist[u]

(* ... so that it is enough to look at its own part of the state.          *)
LEMMA LocalStep ==
  ASSUME IInv, NEW t \in Targets, Others(t),
         Good(run'[t], hist'[t], outcome'[t], dryRun')
  PROVE  IInv'
BY DEF IInv, Others

(* What the building blocks of the actions do to their own target.         *)
LEMMA DoneEffect ==
  ASSUME TypeOK, NEW t \in Targets, NEW c, NEW a,
         NEW r \in BOOLEAN, NEW d \in BOOLEAN, NEW e \in BOOLEAN,
         Done(t, c, a, r, d, e)
  PROVE  /\ dryRun' = dryRun
         /\ \A u \in Targets \ {t} : run'[u] = run[u] /\ outcome'[u] = outcome[u]
         /\ run'[t].pc = "done"
         /\ outcome'[t].action = a
         /\ outcome'[t].recovered = r
         /\ outcome'[t].deferred = d
         /\ outcome'[t].error = e
BY DEF Done, TypeOK, Unstarted

(* A probe that begins changes its own thread only.                        *)
LEMMA ReadEffect ==
  ASSUME TypeOK, NEW t \in Targets, NEW s, Read(t, s)
  PROVE  /\ dryRun' = dryRun
         /\ \A u \in Targets \ {t} : run'[u] = run[u] /\ outcome'[u] = outcome[u]
         /\ outcome'[t] = outcome[t]
         /\ run'[t].pc = "status" /\ run'[t].site = s
         /\ run'[t].health = None
         /\ run'[t].action = run[t].action /\ run'[t].polls = run[t].polls
BY DEF Read, TypeOK, Locals

(* A classified probe is noted in its own target's history only.           *)
LEMMA JudgeEffect ==
  ASSUME TypeOK, NEW t \in Targets, NEW c, Judge(t, c)
  PROVE  /\ run[t].pc = "decide"
         /\ Classify(run[t].status, run[t].health) = c
         /\ \A u \in Targets \ {t} : hist'[u] = hist[u]
         /\ hist'[t].last = c
         /\ hist'[t].container = hist[t].container
         /\ hist'[t].gateway = hist[t].gateway
         /\ hist'[t].strikes = IF c \in {"healthy", "transitional"}
                                 THEN hist[t].strikes
                                 ELSE hist[t].strikes + 1
BY DEF Judge, Judged, At, TypeOK, History

(* A finished target: what Settled asks of the outcome and the history.    *)
LEMMA RaiseGood ==
  ASSUME TypeOK, IInv, NEW t \in Targets, run[t].pc # "done", Raise(t)
  PROVE  IInv'
<1>1. Good(run[t], hist[t], outcome[t], dryRun)
  BY DEF IInv
<1>2. Recorded(run[t], hist[t]) /\ InPlace(run[t], dryRun)
  BY <1>1 DEF Good
<1>3. hist' = hist /\ Done(t, run[t].cls, "none", FALSE, FALSE, TRUE)
  BY DEF Raise
<1>4. /\ outcome'[t].recovered = FALSE
      /\ outcome'[t].deferred = FALSE
      /\ outcome'[t].error = TRUE
      /\ run'[t].pc = "done"
      /\ Others(t)
  BY <1>3, DoneEffect DEF Others
<1>5. hist[t].container + hist[t].gateway > 0
        => ~dryRun /\ hist[t].strikes > hist[t].container + hist[t].gateway
  BY <1>2 DEF Recorded, InPlace, AfterContainer, AfterGateway, Reading,
              TypeOK, History
<1>6. hist[t].last # "healthy"
  BY <1>2 DEF Recorded
<1>7. Settled(hist'[t], outcome'[t], dryRun')
  BY <1>3, <1>4, <1>5, <1>6 DEF Settled, Others
<1> QED BY <1>4, <1>7, LocalStep DEF Good

(* A target may be finished with an outcome that fits its history.         *)
LEMMA DoneGood ==
  ASSUME TypeOK, IInv, NEW t \in Targets, run[t].pc # "done",
         NEW c, NEW a, NEW r \in BOOLEAN, NEW d \in BOOLEAN,
         Done(t, c, a, r, d, FALSE),
         \A u \in Targets \ {t} : hist'[u] = hist[u],
         hist'[t].container = hist[t].container,
         hist'[t].gateway = hist[t].gateway,
         hist'[t].strikes \in {hist[t].strikes, hist[t].strikes + 1},
         hist'[t].last = "healthy" => r = TRUE,
         hist'[t].last # "healthy" => r = FALSE,
         d = TRUE => hist'[t].last = "transitional",
         a = run[t].action
  PROVE  IInv'
<1>1. Good(run[t], hist[t], outcome[t], dryRun)
  BY DEF IInv
<1>2. Recorded(run[t], hist[t]) /\ InPlace(run[t], dryRun)
  BY <1>1 DEF Good
<1>3. /\ outcome'[t].action = a
      /\ outcome'[t].recovered = r
      /\ outcome'[t].deferred = d
      /\ run'[t].pc = "done"
      /\ Others(t)
  <2>1. FALSE \in BOOLEAN
    OBVIOUS
  <2>2. /\ outcome'[t].action = a
        /\ outcome'[t].recovered = r
        /\ outcome'[t].deferred = d
        /\ run'[t].pc = "done"
        /\ dryRun' = dryRun
        /\ \A u \in Targets \ {t} : run'[u] = run[u] /\ outcome'[u] = outcome[u]
    BY DEF Done, TypeOK, Unstarted
  <2> QED BY <2>2 DEF Others
<1>4. hist'[t].container + hist'[t].gateway > 0
        => ~dryRun /\ hist'[t].strikes > hist'[t].container + hist'[t].gateway
  BY <1>2 DEF Recorded, InPlace, AfterContainer, AfterGateway, Reading,
              TypeOK, History
<1>5. a \in Actions
  BY DEF TypeOK, Locals
<1>6. a = IF hist'[t].container > 0 THEN "container_restart"
          ELSE IF hist'[t].gateway > 0 THEN "gateway_restart" ELSE "none"
  BY <1>2, <1>5 DEF Recorded, Actions
<1>7. /\ outcome'[t].recovered <=> hist'[t].last = "healthy"
      /\ outcome'[t].deferred => hist'[t].last = "transitional"
  <2>1. CASE hist'[t].last = "healthy"
    BY <1>3, <2>1
  <2>2. CASE hist'[t].last # "healthy"
    BY <1>3, <2>2
  <2> QED BY <2>1, <2>2
<1>8. Settled(hist'[t], outcome'[t], dryRun')
  BY <1>3, <1>4, <1>6, <1>7 DEF Settled, Others
<1> QED BY <1>3, <1>8, LocalStep DEF Good

(* A result may be reported that fits the history.                         *)
LEMMA FinishGood ==
  ASSUME TypeOK, IInv, NEW t \in Targets, run[t].pc # "done",
         NEW r \in BOOLEAN, NEW d \in BOOLEAN,
         Finish(t, run[t].action, r, d),
         \A u \in Targets \ {t} : hist'[u] = hist[u],
         hist'[t].container = hist[t].container,
         hist'[t].gateway = hist[t].gateway,
         hist'[t].strikes \in {hist[t].strikes, hist[t].strikes + 1},
         hist'[t].last = "healthy" => r = TRUE,
         hist'[t].last # "healthy" => r = FALSE,
         d = TRUE => hist'[t].last = "transitional"
  PROVE  IInv'
<1>1. Done(t, run[t].cls, run[t].action, r, d, FALSE)
  BY DEF Finish
<1> QED BY <1>1, DoneGood

(* Starting a target, or failing to, keeps the invariant.                  *)
LEMMA StartGood ==
  ASSUME TypeOK, IInv, NEW t \in Targets, Start(t) \/ FactoryFails(t) \/ Expire(t)
  PROVE  IInv'
<1>1. run[t].pc # "done"
  BY DEF Start, FactoryFails, Expire, MayStart, At, Busy
<1>2. /\ outcome[t] = None
      /\ InPlace(run[t], dryRun) /\ Grounded(run[t]) /\ Recorded(run[t], hist[t])
  BY <1>1 DEF IInv, Good
<1>3. CASE Start(t)
  <2>1. Others(t)
    BY <1>3, ReadEffect DEF Start, Others
  <2>2. outcome'[t] = outcome[t] /\ hist'[t] = hist[t]
    BY <1>3, ReadEffect DEF Start
  <2>3. run[t].pc = "queued" /\ run[t].site = "first"
    BY <1>2, <1>3 DEF Start, MayStart, At, InPlace
  <2>4. /\ run'[t].pc = "status" /\ run'[t].site = "first"
        /\ run'[t].action = run[t].action /\ run'[t].health = None
    BY <1>3, ReadEffect DEF Start
  <2>5. InPlace(run'[t], dryRun) /\ Grounded(run'[t]) /\ Recorded(run'[t], hist[t])
    BY <1>2, <2>3, <2>4
       DEF InPlace, Grounded, Recorded, AfterContainer, AfterGateway, Reading, Rechecks
  <2> QED BY <1>2, <2>1, <2>2, <2>4, <2>5, LocalStep DEF Good, Others
<1>4. CASE FactoryFails(t)
  BY <1>1, <1>4, RaiseGood DEF FactoryFails
<1>5. CASE Expire(t)
  <2>1. /\ run'[t] = [run[t] EXCEPT !.expired = TRUE]
        /\ outcome'[t] = outcome[t] /\ hist'[t] = hist[t]
        /\ Others(t)
    BY <1>5 DEF Expire, Others, TypeOK
  <2>2. /\ run'[t].pc = run[t].pc /\ run'[t].site = run[t].site
        /\ run'[t].action = run[t].action /\ run'[t].tries = run[t].tries
        /\ run'[t].polls = run[t].polls
        /\ run'[t].status = run[t].status /\ run'[t].health = run[t].health
        /\ run'[t].expired = TRUE
    BY <2>1 DEF TypeOK, Locals
  <2>3. InPlace(run'[t], dryRun)
    BY <1>2, <2>2 DEF InPlace
  <2>4. Recorded(run'[t], hist[t])
    BY <1>2, <2>2 DEF Recorded, AfterContainer, AfterGateway
  <2>5. Grounded(run'[t])
    BY <1>2, <2>2 DEF Grounded
  <2> QED BY <1>1, <1>2, <2>1, <2>2, <2>3, <2>4, <2>5, LocalStep DEF Good, Others
<1> QED BY <1>3, <1>4, <1>5

(* A step that only moves the thread: what is left to show is that its new *)
(* place fits.                                                             *)
LEMMA MoveGood ==
  ASSUME IInv, NEW t \in Targets, Others(t), outcome'[t] = outcome[t],
         run[t].pc # "done", run'[t].pc # "done",
         InPlace(run'[t], dryRun), Grounded(run'[t]), Recorded(run'[t], hist'[t])
  PROVE  IInv'
BY LocalStep DEF IInv, Good, Others

(* What the invariant says of an unfinished target.                        *)
LEMMA Unfinished ==
  ASSUME IInv, NEW t \in Targets, run[t].pc # "done"
  PROVE  /\ outcome[t] = None
         /\ InPlace(run[t], dryRun)
         /\ Grounded(run[t])
         /\ Recorded(run[t], hist[t])
BY DEF IInv, Good

(* The reads of a probe keep the invariant.                                *)
LEMMA ProbeGood ==
  ASSUME TypeOK, IInv, NEW t \in Targets, Probe(t)
  PROVE  IInv'
<1>1. run[t].pc # "done"
  BY DEF Probe, ReadStatus, StatusFails, CheckHealth, HealthFails,
         HealthOutOfTime, HealthCrashes, At
<1>2. /\ outcome[t] = None
      /\ InPlace(run[t], dryRun) /\ Grounded(run[t]) /\ Recorded(run[t], hist[t])
  BY <1>1, Unfinished
<1>3. CASE ReadStatus(t)
  <2>1. PICK s \in StatusReplies :
          run' = [run EXCEPT ![t] =
                    [@ EXCEPT !.pc = "health", !.status = s, !.tries = 0]]
    BY <1>3 DEF ReadStatus
  <2>2. run[t].pc = "status"
    BY <1>3 DEF ReadStatus, At
  <2>3. /\ run'[t].pc = "health" /\ run'[t].site = run[t].site
        /\ run'[t].tries = 0 /\ run'[t].health = run[t].health
        /\ run'[t].polls = run[t].polls /\ run'[t].action = run[t].action
    BY <2>1 DEF TypeOK, Locals
  <2>4. Others(t) /\ outcome'[t] = outcome[t] /\ hist' = hist
    BY <1>3, <2>1 DEF ReadStatus, Others, TypeOK
  <2>5. InPlace(run'[t], dryRun)
    BY <1>2, <2>2, <2>3, ConstantsType DEF InPlace, Reading
  <2>6. Grounded(run'[t])
    BY <2>3 DEF Grounded
  <2>7. Recorded(run'[t], hist'[t])
    BY <1>2, <2>2, <2>3, <2>4 DEF Recorded, AfterContainer, AfterGateway
  <2> QED BY <1>1, <2>3, <2>4, <2>5, <2>6, <2>7, MoveGood
<1>4. CASE StatusFails(t)
  BY <1>1, <1>4, RaiseGood DEF StatusFails
<1>5. CASE CheckHealth(t)
  <2>1. PICK h \in HealthReplies :
          run' = [run EXCEPT ![t] = [@ EXCEPT !.pc = "decide", !.health = h]]
    BY <1>5 DEF CheckHealth
  <2>2. run[t].pc = "health"
    BY <1>5 DEF CheckHealth, At
  <2>3. /\ run'[t].pc = "decide" /\ run'[t].site = run[t].site
        /\ run'[t].health # None
        /\ run'[t].polls = run[t].polls /\ run'[t].action = run[t].action
    BY <2>1, RecoveryAssumption DEF TypeOK, Locals
  <2>4. Others(t) /\ outcome'[t] = outcome[t] /\ hist' = hist
    BY <1>5, <2>1 DEF CheckHealth, Others, TypeOK
  <2>5. InPlace(run'[t], dryRun)
    BY <1>2, <2>2, <2>3 DEF InPlace, Reading
  <2>6. Grounded(run'[t])
    BY <2>3 DEF Grounded
  <2>7. Recorded(run'[t], hist'[t])
    BY <1>2, <2>2, <2>3, <2>4 DEF Recorded, AfterContainer, AfterGateway
  <2> QED BY <1>1, <2>3, <2>4, <2>5, <2>6, <2>7, MoveGood
<1>6. CASE HealthFails(t)
  <2>2. run[t].pc = "health"
    BY <1>6 DEF HealthFails, At
  <2> DEFINE p == IF MoreTries(t) THEN "health" ELSE "decide"
             n == run[t].tries + 1
  <2>8. run' = [run EXCEPT ![t] = [@ EXCEPT !.pc = p, !.tries = n]]
    BY <1>6, Zenon DEF HealthFails
  <2> HIDE DEF p, n
  <2>9. /\ run'[t].pc = p /\ run'[t].site = run[t].site
        /\ run'[t].tries = n /\ run'[t].health = run[t].health
        /\ run'[t].polls = run[t].polls /\ run'[t].action = run[t].action
    BY <2>8 DEF TypeOK, Locals
  <2>3. /\ run'[t].pc = IF run[t].tries < HealthRetries THEN "health" ELSE "decide"
        /\ run'[t].site = run[t].site
        /\ run'[t].tries = run[t].tries + 1 /\ run'[t].health = run[t].health
        /\ run'[t].polls = run[t].polls /\ run'[t].action = run[t].action
    BY <2>9 DEF p, n, MoreTries
  <2>4. Others(t) /\ outcome'[t] = outcome[t] /\ hist' = hist
    BY <1>6 DEF HealthFails, Others, TypeOK
  <2>1. run[t].tries <= HealthRetries /\ run[t].tries \in Nat /\ run[t].health = None
    BY <1>2, <2>2, ConstantsType DEF InPlace, TypeOK, Locals
  <2>5. InPlace(run'[t], dryRun)
    BY <1>2, <2>1, <2>2, <2>3, ConstantsType DEF InPlace, Reading
  <2>6. Grounded(run'[t])
    BY <2>1, <2>3, ConstantsType DEF Grounded
  <2>7. Recorded(run'[t], hist'[t])
    BY <1>2, <2>2, <2>3, <2>4 DEF Recorded, AfterContainer, AfterGateway
  <2> QED BY <1>1, <2>3, <2>4, <2>5, <2>6, <2>7, MoveGood
<1>7. CASE HealthOutOfTime(t)
  <2>2. run[t].pc = "health" /\ run[t].expired
    BY <1>7 DEF HealthOutOfTime, At
  <2>3. /\ run'[t].pc = "decide" /\ run'[t].site = run[t].site
        /\ run'[t].expired
        /\ run'[t].polls = run[t].polls /\ run'[t].action = run[t].action
    BY <1>7, <2>2 DEF HealthOutOfTime, TypeOK, Locals
  <2>4. Others(t) /\ outcome'[t] = outcome[t] /\ hist' = hist
    BY <1>7 DEF HealthOutOfTime, Others, TypeOK
  <2>5. InPlace(run'[t], dryRun)
    BY <1>2, <2>2, <2>3 DEF InPlace, Reading
  <2>6. Grounded(run'[t])
    BY <2>3 DEF Grounded
  <2>7. Recorded(run'[t], hist'[t])
    BY <1>2, <2>2, <2>3, <2>4 DEF Recorded, AfterContainer, AfterGateway
  <2> QED BY <1>1, <2>3, <2>4, <2>5, <2>6, <2>7, MoveGood
<1>8. CASE HealthCrashes(t)
  BY <1>1, <1>8, RaiseGood DEF HealthCrashes
<1> QED BY <1>3, <1>4, <1>5, <1>6, <1>7, <1>8 DEF Probe

(* The verdicts.  In each case: where the thread stood, what the history   *)
(* now says, and either a finished target or a new place that fits.        *)
LEMMA DecideGood ==
  ASSUME TypeOK, IInv, NEW t \in Targets, Decide(t)
  PROVE  IInv'
<1>1. run[t].pc = "decide"
  BY DEF Decide, FirstSettles, FirstFindsFailure, RecheckSettles,
         RecheckEscalates, WantContainer, ContainerUnwanted, Regressed,
         WantGateway, GatewayUnwanted, Verify, Judge, At
<1>2. /\ outcome[t] = None
      /\ InPlace(run[t], dryRun) /\ Grounded(run[t]) /\ Recorded(run[t], hist[t])
  BY <1>1, Unfinished
<1>3. /\ hist[t].strikes \in Nat /\ hist[t].container \in Nat
      /\ hist[t].gateway \in Nat
  BY DEF TypeOK, History
<1>4. CASE FirstSettles(t)
  <2>1. PICK c \in RailwayClassification :
          Judge(t, c) /\ Done(t, c, "none", c = "healthy", c = "transitional", FALSE)
    BY <1>4 DEF FirstSettles
  <2>2. run[t].action = "none"
    BY <1>1, <1>2, <1>4 DEF FirstSettles, Recorded, AfterContainer, AfterGateway
  <2>3. /\ hist'[t].last = c
        /\ hist'[t].container = hist[t].container
        /\ hist'[t].gateway = hist[t].gateway
        /\ hist'[t].strikes \in {hist[t].strikes, hist[t].strikes + 1}
        /\ \A u \in Targets \ {t} : hist'[u] = hist[u]
    BY <2>1, JudgeEffect
  <2>4. CASE c = "healthy"
    <3>1. Done(t, c, "none", TRUE, FALSE, FALSE)
      BY <2>1, <2>4
    <3> QED BY <1>1, <2>2, <2>3, <2>4, <3>1, DoneGood
  <2>5. CASE c = "transitional"
    <3>1. Done(t, c, "none", FALSE, TRUE, FALSE)
      BY <2>1, <2>5
    <3> QED BY <1>1, <2>2, <2>3, <2>5, <3>1, DoneGood
  <2>6. CASE c # "healthy" /\ c # "transitional"
    <3>1. Done(t, c, "none", FALSE, FALSE, FALSE)
      BY <2>1, <2>6
    <3> QED BY <1>1, <2>2, <2>3, <2>6, <3>1, DoneGood
  <2> QED BY <2>4, <2>5, <2>6
<1>5. CASE FirstFindsFailure(t)
  <2> DEFINE site(c) == IF c = "gateway_only_failure" THEN "gwCheck" ELSE "ctCheck"
  <2>1. PICK c \in {"gateway_only_failure", "container_failure"} :
          /\ Judge(t, c)
          /\ run' = [run EXCEPT ![t] =
                       [@ EXCEPT !.pc = "status", !.cls = c, !.site = site(c),
                                 !.status = None, !.health = None]]
    BY <1>5, Zenon DEF FirstFindsFailure
  <2>2. site(c) \in {"gwCheck", "ctCheck"}
    OBVIOUS
  <2> HIDE DEF site
  <2>3. run[t].site = "first" /\ ~dryRun
    BY <1>5 DEF FirstFindsFailure, MayMutate
  <2>4. /\ run'[t].pc = "status" /\ run'[t].site = site(c)
        /\ run'[t].health = None /\ run'[t].action = run[t].action
    BY <2>1 DEF TypeOK, Locals
  <2>5. Others(t) /\ outcome'[t] = outcome[t]
    BY <1>5, <2>1, JudgeEffect DEF FirstFindsFailure, Others, TypeOK
  <2>6. /\ hist'[t].last = c
        /\ hist'[t].container = hist[t].container
        /\ hist'[t].gateway = hist[t].gateway
        /\ hist'[t].strikes = hist[t].strikes + 1
    BY <2>1, JudgeEffect
  <2>7. hist[t].container = 0 /\ hist[t].gateway = 0 /\ run[t].action = "none"
    BY <1>1, <1>2, <2>3 DEF Recorded, AfterContainer, AfterGateway
  <2>8. InPlace(run'[t], dryRun)
    BY <2>2, <2>3, <2>4 DEF InPlace, Reading, Rechecks
  <2>9. Grounded(run'[t])
    BY <2>4 DEF Grounded
  <2>10. Recorded(run'[t], hist'[t])
    BY <1>3, <2>1, <2>2, <2>4, <2>6, <2>7 DEF Recorded, AfterContainer, AfterGateway
  <2> QED BY <1>1, <2>4, <2>5, <2>8, <2>9, <2>10, MoveGood
<1>6. CASE RecheckSettles(t)
  <2>1. PICK c \in {"healthy", "transitional"} :
          Judge(t, c) /\ Finish(t, run[t].action, c = "healthy", c = "transitional")
    BY <1>6 DEF RecheckSettles
  <2>2. /\ hist'[t].last = c
        /\ hist'[t].container = hist[t].container
        /\ hist'[t].gateway = hist[t].gateway
        /\ hist'[t].strikes \in {hist[t].strikes, hist[t].strikes + 1}
        /\ \A u \in Targets \ {t} : hist'[u] = hist[u]
    BY <2>1, JudgeEffect
  <2>3. CASE c = "healthy"
    <3>1. Finish(t, run[t].action, TRUE, FALSE)
      BY <2>1, <2>3
    <3> QED BY <1>1, <2>2, <2>3, <3>1, FinishGood
  <2>4. CASE c = "transitional"
    <3>1. Finish(t, run[t].action, FALSE, TRUE)
      BY <2>1, <2>4
    <3> QED BY <1>1, <2>2, <2>4, <3>1, FinishGood
  <2> QED BY <2>3, <2>4
<1>7. CASE RecheckEscalates(t)
  <2>1. run[t].site = "gwCheck" /\ Judge(t, "container_failure") /\ Read(t, "ctCheck")
    BY <1>7 DEF RecheckEscalates
  <2>2. /\ run'[t].pc = "status" /\ run'[t].site = "ctCheck"
        /\ run'[t].health = None /\ run'[t].action = run[t].action
    BY <2>1, ReadEffect
  <2>3. Others(t) /\ outcome'[t] = outcome[t]
    BY <2>1, ReadEffect, JudgeEffect DEF Others
  <2>4. /\ hist'[t].last = "container_failure"
        /\ hist'[t].container = hist[t].container
        /\ hist'[t].gateway = hist[t].gateway
        /\ hist'[t].strikes = hist[t].strikes + 1
    BY <2>1, JudgeEffect
  <2>5. InPlace(run'[t], dryRun)
    BY <1>2, <2>1, <2>2 DEF InPlace, Reading, Rechecks
  <2>6. Grounded(run'[t])
    BY <2>2 DEF Grounded
  <2>7. Recorded(run'[t], hist'[t])
    BY <1>1, <1>2, <1>3, <2>1, <2>2, <2>4 DEF Recorded, AfterContainer, AfterGateway
  <2> QED BY <1>1, <2>2, <2>3, <2>5, <2>6, <2>7, MoveGood
<1>8. CASE WantContainer(t)
  <2>1. run[t].site = "ctCheck" /\ Judge(t, "container_failure") /\ ~run[t].expired
    BY <1>8 DEF WantContainer
  <2>2. /\ run'[t].pc = "container" /\ run'[t].site = run[t].site
        /\ run'[t].action = run[t].action /\ run'[t].tries = run[t].tries
        /\ run'[t].status = run[t].status /\ run'[t].health = run[t].health
    BY <1>8 DEF WantContainer, TypeOK, Locals
  <2>3. Others(t) /\ outcome'[t] = outcome[t]
    BY <1>8, <2>1, JudgeEffect DEF WantContainer, Others, TypeOK
  <2>4. /\ hist'[t].last = "container_failure"
        /\ hist'[t].container = hist[t].container
        /\ hist'[t].gateway = hist[t].gateway
        /\ hist'[t].strikes = hist[t].strikes + 1
        /\ Classify(run[t].status, run[t].health) = "container_failure"
    BY <2>1, JudgeEffect
  <2>5. InPlace(run'[t], dryRun)
    BY <1>2, <2>1, <2>2 DEF InPlace, Reading, Rechecks
  <2>6. Grounded(run'[t])
    BY <1>1, <1>2, <2>1, <2>2, <2>4 DEF Grounded
  <2>7. Recorded(run'[t], hist'[t])
    BY <1>1, <1>2, <1>3, <2>1, <2>2, <2>4
       DEF Recorded, AfterContainer, AfterGateway, Rechecks
  <2> QED BY <1>1, <2>2, <2>3, <2>5, <2>6, <2>7, MoveGood
<1>9. CASE ContainerUnwanted(t)
  <2>1. /\ run[t].site = "ctCheck" /\ Judge(t, "container_failure")
        /\ Finish(t, "none", FALSE, FALSE)
    BY <1>9 DEF ContainerUnwanted
  <2>2. /\ hist'[t].last = "container_failure"
        /\ hist'[t].container = hist[t].container
        /\ hist'[t].gateway = hist[t].gateway
        /\ hist'[t].strikes \in {hist[t].strikes, hist[t].strikes + 1}
        /\ \A u \in Targets \ {t} : hist'[u] = hist[u]
    BY <2>1, JudgeEffect
  <2>3. "none" = run[t].action
    BY <1>1, <1>2, <2>1 DEF Recorded, AfterContainer, AfterGateway
  <2> QED BY <1>1, <2>1, <2>2, <2>3, FinishGood
<1>10. CASE Regressed(t)
  <2>1. /\ run[t].site = "postCheck" /\ Judge(t, "container_failure")
        /\ Finish(t, "container_restart", FALSE, FALSE)
    BY <1>10 DEF Regressed
  <2>2. /\ hist'[t].last = "container_failure"
        /\ hist'[t].container = hist[t].container
        /\ hist'[t].gateway = hist[t].gateway
        /\ hist'[t].strikes \in {hist[t].strikes, hist[t].strikes + 1}
        /\ \A u \in Targets \ {t} : hist'[u] = hist[u]
    BY <2>1, JudgeEffect
  <2>3. "container_restart" = run[t].action
    BY <1>1, <1>2, <2>1 DEF Recorded, AfterContainer, AfterGateway
  <2> QED BY <1>1, <2>1, <2>2, <2>3, FinishGood
<1>11. CASE WantGateway(t)
  <2>1. run[t].site \in Rechecks /\ Judge(t, "gateway_only_failure") /\ ~run[t].expired
    BY <1>11 DEF WantGateway
  <2>2. /\ run'[t].pc = "gateway" /\ run'[t].site = run[t].site
        /\ run'[t].action = run[t].action /\ run'[t].tries = run[t].tries
        /\ run'[t].status = run[t].status /\ run'[t].health = run[t].health
    BY <1>11 DEF WantGateway, TypeOK, Locals
  <2>3. Others(t) /\ outcome'[t] = outcome[t]
    BY <1>11, <2>1, JudgeEffect DEF WantGateway, Others, TypeOK
  <2>4. /\ hist'[t].last = "gateway_only_failure"
        /\ hist'[t].container = hist[t].container
        /\ hist'[t].gateway = hist[t].gateway
        /\ hist'[t].strikes = hist[t].strikes + 1
        /\ Classify(run[t].status, run[t].health) = "gateway_only_failure"
    BY <2>1, JudgeEffect
  <2>5. InPlace(run'[t], dryRun)
    BY <1>2, <2>1, <2>2 DEF InPlace, Reading, Rechecks
  <2>6. Grounded(run'[t])
    BY <1>1, <1>2, <2>1, <2>2, <2>4 DEF Grounded
  <2>7. Recorded(run'[t], hist'[t])
    BY <1>1, <1>2, <1>3, <2>1, <2>2, <2>4
       DEF Recorded, AfterContainer, AfterGateway, Rechecks
  <2> QED BY <1>1, <2>2, <2>3, <2>5, <2>6, <2>7, MoveGood
<1>12. CASE GatewayUnwanted(t)
  <2>1. /\ run[t].site \in Rechecks /\ Judge(t, "gateway_only_failure")
        /\ Finish(t, run[t].action, FALSE, FALSE)
    BY <1>12 DEF GatewayUnwanted
  <2>2. /\ hist'[t].last = "gateway_only_failure"
        /\ hist'[t].container = hist[t].container
        /\ hist'[t].gateway = hist[t].gateway
        /\ hist'[t].strikes \in {hist[t].strikes, hist[t].strikes + 1}
        /\ \A u \in Targets \ {t} : hist'[u] = hist[u]
    BY <2>1, JudgeEffect
  <2>3. run[t].action = run[t].action
    BY <1>1, <1>2, <2>1 DEF Recorded, AfterContainer, AfterGateway
  <2> QED BY <1>1, <2>1, <2>2, <2>3, FinishGood
<1>13. CASE Verify(t)
  <2>1. PICK c \in RailwayClassification :
          Judge(t, c) /\ Finish(t, run[t].action, c = "healthy", FALSE)
    BY <1>13 DEF Verify
  <2>2. /\ hist'[t].last = c
        /\ hist'[t].container = hist[t].container
        /\ hist'[t].gateway = hist[t].gateway
        /\ hist'[t].strikes \in {hist[t].strikes, hist[t].strikes + 1}
        /\ \A u \in Targets \ {t} : hist'[u] = hist[u]
    BY <2>1, JudgeEffect
  <2>3. CASE c = "healthy"
    <3>1. Finish(t, run[t].action, TRUE, FALSE)
      BY <2>1, <2>3
    <3> QED BY <1>1, <2>2, <2>3, <3>1, FinishGood
  <2>4. CASE c # "healthy"
    <3>1. Finish(t, run[t].action, FALSE, FALSE)
      BY <2>1, <2>4
    <3> QED BY <1>1, <2>2, <2>4, <3>1, FinishGood
  <2> QED BY <2>3, <2>4
<1> QED
  BY <1>4, <1>5, <1>6, <1>7, <1>8, <1>9, <1>10, <1>11, <1>12, <1>13 DEF Decide

(* The container restart and the wait for it keep the invariant.           *)
LEMMA RestartContainerGood ==
  ASSUME TypeOK, IInv, NEW t \in Targets, RestartContainer(t)
  PROVE  IInv'
<1>1. run[t].pc # "done"
  BY DEF RestartContainer, IssueContainer, ContainerRefused, ContainerAccepted,
         ContainerDenied, ContainerFails, Poll, WaitEnds, PollFindsIt, PollAgain, At
<1>2. /\ outcome[t] = None
      /\ InPlace(run[t], dryRun) /\ Grounded(run[t]) /\ Recorded(run[t], hist[t])
  BY <1>1, Unfinished
<1>3. /\ hist[t].strikes \in Nat /\ hist[t].container \in Nat
      /\ hist[t].gateway \in Nat
  BY DEF TypeOK, History
<1>4. CASE IssueContainer(t)
  <2>1. run[t].pc = "container" /\ run[t].site = "ctCheck" /\ ~dryRun
    BY <1>2, <1>4 DEF IssueContainer, At, InPlace
  <2>2. /\ run'[t].pc = "containerReply" /\ run'[t].site = "ctCheck"
        /\ run'[t].action = "container_restart"
    BY <1>4, <2>1 DEF IssueContainer, TypeOK, Locals
  <2>3. /\ hist'[t].container = hist[t].container + 1
        /\ hist'[t].gateway = hist[t].gateway
        /\ hist'[t].strikes = hist[t].strikes /\ hist'[t].last = None
    BY <1>4 DEF IssueContainer, TypeOK, History
  <2>4. Others(t) /\ outcome'[t] = outcome[t]
    BY <1>4 DEF IssueContainer, Others, TypeOK
  <2>5. InPlace(run'[t], dryRun)
    BY <2>1, <2>2 DEF InPlace, Reading
  <2>6. Grounded(run'[t])
    BY <2>2 DEF Grounded
  <2>7. Recorded(run'[t], hist'[t])
    BY <1>2, <1>3, <2>1, <2>2, <2>3, RecoveryAssumption
       DEF Recorded, AfterContainer, AfterGateway, RailwayClassification
  <2> QED BY <1>1, <2>2, <2>4, <2>5, <2>6, <2>7, MoveGood
<1>5. CASE ContainerRefused(t)
  BY <1>1, <1>5, RaiseGood DEF ContainerRefused
<1>6. CASE ContainerAccepted(t)
  <2>1. run[t].pc = "containerReply" /\ run[t].site = "ctCheck"
    BY <1>2, <1>6 DEF ContainerAccepted, At, InPlace
  <2>2. /\ run'[t].pc = "wait" /\ run'[t].site = "ctCheck"
        /\ run'[t].action = run[t].action
    BY <1>6, <2>1 DEF ContainerAccepted, TypeOK, Locals
  <2>3. Others(t) /\ outcome'[t] = outcome[t] /\ hist' = hist
    BY <1>6 DEF ContainerAccepted, Others, TypeOK
  <2>4. InPlace(run'[t], dryRun)
    BY <1>2, <2>1, <2>2 DEF InPlace, Reading
  <2>5. Grounded(run'[t])
    BY <2>2 DEF Grounded
  <2>6. Recorded(run'[t], hist'[t])
    BY <1>2, <2>1, <2>2, <2>3 DEF Recorded, AfterContainer, AfterGateway
  <2> QED BY <1>1, <2>2, <2>3, <2>4, <2>5, <2>6, MoveGood
<1>7. CASE ContainerDenied(t) \/ WaitEnds(t)
  <2>1. /\ run[t].pc \in {"containerReply", "wait"} /\ hist' = hist
        /\ Finish(t, "container_restart", FALSE, FALSE)
    BY <1>7 DEF ContainerDenied, WaitEnds, At
  <2>2. run[t].action = "container_restart" /\ hist[t].last # "healthy"
    BY <1>2, <2>1 DEF Recorded, AfterContainer
  <2> QED BY <1>1, <1>3, <2>1, <2>2, FinishGood
<1>8. CASE ContainerFails(t)
  BY <1>1, <1>8, RaiseGood DEF ContainerFails
<1>9. CASE Poll(t)
  <2>1. /\ run[t].pc = "wait" /\ run[t].polls < WaitAttempts
        /\ Read(t, "wait") /\ hist' = hist
    BY <1>9 DEF Poll, At
  <2>2. /\ run'[t].pc = "status" /\ run'[t].site = "wait" /\ run'[t].health = None
        /\ run'[t].action = run[t].action /\ run'[t].polls = run[t].polls
    BY <2>1, ReadEffect
  <2>3. Others(t) /\ outcome'[t] = outcome[t]
    BY <2>1, ReadEffect DEF Others
  <2>4. InPlace(run'[t], dryRun)
    BY <1>2, <2>1, <2>2 DEF InPlace, Reading, Rechecks
  <2>5. Grounded(run'[t])
    BY <2>2 DEF Grounded
  <2>6. Recorded(run'[t], hist'[t])
    BY <1>2, <2>1, <2>2 DEF Recorded, InPlace, AfterContainer, AfterGateway
  <2> QED BY <1>1, <2>2, <2>3, <2>4, <2>5, <2>6, MoveGood
<1>10. CASE PollFindsIt(t)
  <2>1. run[t].pc = "decide" /\ run[t].site = "wait" /\ hist' = hist
    BY <1>10 DEF PollFindsIt, At
  <2>2. run[t].action = "container_restart" /\ hist[t].last # "healthy"
    BY <1>2, <2>1 DEF Recorded, AfterContainer
  <2>3. CASE run[t].expired
    <3>1. Finish(t, "container_restart", FALSE, FALSE)
      BY <1>10, <2>3 DEF PollFindsIt
    <3> QED BY <1>1, <1>3, <2>1, <2>2, <3>1, FinishGood
  <2>4. CASE ~run[t].expired
    <3>1. Read(t, "postCheck")
      BY <1>10, <2>4 DEF PollFindsIt
    <3>2. /\ run'[t].pc = "status" /\ run'[t].site = "postCheck"
          /\ run'[t].health = None /\ run'[t].action = run[t].action
      BY <3>1, ReadEffect
    <3>3. Others(t) /\ outcome'[t] = outcome[t]
      BY <2>1, <3>1, ReadEffect DEF Others
    <3>4. InPlace(run'[t], dryRun)
      BY <1>2, <2>1, <3>2 DEF InPlace, Reading, Rechecks
    <3>5. Grounded(run'[t])
      BY <3>2 DEF Grounded
    <3>6. Recorded(run'[t], hist'[t])
      BY <1>2, <2>1, <2>2, <3>2 DEF Recorded, AfterContainer, AfterGateway
    <3> QED BY <1>1, <3>2, <3>3, <3>4, <3>5, <3>6, MoveGood
  <2> QED BY <2>3, <2>4
<1>11. CASE PollAgain(t)
  <2>1. run[t].pc = "decide" /\ run[t].site = "wait" /\ hist' = hist
    BY <1>11 DEF PollAgain, At
  <2> DEFINE n == run[t].polls + 1
  <2>2. run' = [run EXCEPT ![t] = [@ EXCEPT !.pc = "wait", !.polls = n,
                                           !.status = None, !.health = None]]
    BY <1>11 DEF PollAgain
  <2> HIDE DEF n
  <2>3. /\ run'[t].pc = "wait" /\ run'[t].site = "wait"
        /\ run'[t].action = run[t].action
    BY <2>1, <2>2 DEF TypeOK, Locals
  <2>4. Others(t) /\ outcome'[t] = outcome[t]
    BY <1>11, <2>1, <2>2 DEF PollAgain, Others, TypeOK
  <2>5. InPlace(run'[t], dryRun)
    BY <1>2, <2>1, <2>3 DEF InPlace, Reading
  <2>6. Grounded(run'[t])
    BY <2>3 DEF Grounded
  <2>7. Recorded(run'[t], hist'[t])
    BY <1>2, <2>1, <2>3 DEF Recorded, AfterContainer, AfterGateway
  <2> QED BY <1>1, <2>3, <2>4, <2>5, <2>6, <2>7, MoveGood
<1> QED
  BY <1>4, <1>5, <1>6, <1>7, <1>8, <1>9, <1>10, <1>11 DEF RestartContainer

(* The gateway restart keeps the invariant.                                *)
LEMMA RestartGatewayGood ==
  ASSUME TypeOK, IInv, NEW t \in Targets, RestartGateway(t)
  PROVE  IInv'
<1>1. run[t].pc # "done"
  BY DEF RestartGateway, IssueGateway, GatewayRefused, GatewayRestarted,
         GatewayDenied, GatewayFails, At
<1>2. /\ outcome[t] = None
      /\ InPlace(run[t], dryRun) /\ Grounded(run[t]) /\ Recorded(run[t], hist[t])
  BY <1>1, Unfinished
<1>3. /\ hist[t].strikes \in Nat /\ hist[t].container \in Nat
      /\ hist[t].gateway \in Nat
  BY DEF TypeOK, History
<1>4. CASE IssueGateway(t)
  <2>1. run[t].pc = "gateway" /\ run[t].site \in Rechecks
    BY <1>2, <1>4 DEF IssueGateway, At, InPlace
  <2> DEFINE a == IF run[t].action = "none" THEN "gateway_restart" ELSE run[t].action
  <2>2. run' = [run EXCEPT ![t] = [@ EXCEPT !.pc = "gatewayReply", !.action = a,
                                           !.status = None, !.health = None]]
    BY <1>4, Zenon DEF IssueGateway
  <2> HIDE DEF a
  <2>3. /\ run'[t].pc = "gatewayReply" /\ run'[t].site = run[t].site
        /\ run'[t].action = a
    BY <2>2 DEF TypeOK, Locals
  <2>4. /\ hist'[t].gateway = hist[t].gateway + 1
        /\ hist'[t].container = hist[t].container
        /\ hist'[t].strikes = hist[t].strikes /\ hist'[t].last = None
    BY <1>4 DEF IssueGateway, TypeOK, History
  <2>5. Others(t) /\ outcome'[t] = outcome[t]
    BY <1>4, <2>2 DEF IssueGateway, Others, TypeOK
  <2>6. InPlace(run'[t], dryRun)
    BY <1>2, <2>1, <2>3 DEF InPlace, Reading, Rechecks
  <2>7. Grounded(run'[t])
    BY <2>3 DEF Grounded
  <2>8. run[t].action \in {"none", "container_restart"}
    BY <1>2, <2>1 DEF Recorded, AfterContainer, AfterGateway, Rechecks
  <2>9. Recorded(run'[t], hist'[t])
    BY <1>2, <1>3, <2>1, <2>3, <2>4, <2>8, RecoveryAssumption
       DEF a, Recorded, AfterContainer, AfterGateway, Rechecks, RailwayClassification
  <2> QED BY <1>1, <2>3, <2>5, <2>6, <2>7, <2>9, MoveGood
<1>5. CASE GatewayRefused(t)
  BY <1>1, <1>5, RaiseGood DEF GatewayRefused
<1>6. CASE GatewayRestarted(t)
  <2>1. run[t].pc = "gatewayReply" /\ hist' = hist
    BY <1>6 DEF GatewayRestarted, At
  <2>2. CASE run[t].expired
    <3>1. Finish(t, run[t].action, FALSE, FALSE)
      BY <1>6, <2>2 DEF GatewayRestarted
    <3>2. hist[t].last # "healthy"
      BY <1>2 DEF Recorded
    <3> QED BY <1>1, <1>3, <2>1, <3>1, <3>2, FinishGood
  <2>3. CASE ~run[t].expired
    <3>1. Read(t, "verify")
      BY <1>6, <2>3 DEF GatewayRestarted
    <3>2. /\ run'[t].pc = "status" /\ run'[t].site = "verify"
          /\ run'[t].health = None /\ run'[t].action = run[t].action
      BY <3>1, ReadEffect
    <3>3. Others(t) /\ outcome'[t] = outcome[t]
      BY <2>1, <3>1, ReadEffect DEF Others
    <3>4. InPlace(run'[t], dryRun)
      BY <1>2, <2>1, <3>2 DEF InPlace, Reading, Rechecks
    <3>5. Grounded(run'[t])
      BY <3>2 DEF Grounded
    <3>6. Recorded(run'[t], hist'[t])
      BY <1>2, <2>1, <3>2 DEF Recorded, InPlace, Rechecks, AfterContainer, AfterGateway
    <3> QED BY <1>1, <3>2, <3>3, <3>4, <3>5, <3>6, MoveGood
  <2> QED BY <2>2, <2>3
<1>7. CASE GatewayDenied(t)
  <2>1. hist' = hist /\ Finish(t, run[t].action, FALSE, FALSE)
    BY <1>7 DEF GatewayDenied
  <2>2. hist[t].last # "healthy"
    BY <1>2 DEF Recorded
  <2> QED BY <1>1, <1>3, <2>1, <2>2, FinishGood
<1>8. CASE GatewayFails(t)
  BY <1>1, <1>8, RaiseGood DEF GatewayFails
<1> QED BY <1>4, <1>5, <1>6, <1>7, <1>8 DEF RestartGateway

(* The induction itself.                                                   *)
LEMMA InvInit == Init => TypeOK /\ IInv
<1> SUFFICES ASSUME Init PROVE TypeOK /\ IInv
  OBVIOUS
<1>1. Unstarted \in Locals
  BY UnstartedType
<1>2. [strikes |-> 0, last |-> None, container |-> 0, gateway |-> 0] \in History
  BY DEF History
<1>3. TypeOK
  BY <1>1, <1>2 DEF Init, TypeOK
<1>4. IInv
  <2> SUFFICES ASSUME NEW t \in Targets
               PROVE  Good(run[t], hist[t], outcome[t], dryRun)
    BY DEF IInv
  <2>1. /\ run[t].pc = "queued" /\ run[t].site = "first" /\ run[t].health = None
        /\ run[t].action = "none" /\ outcome[t] = None
        /\ hist[t].container = 0 /\ hist[t].gateway = 0 /\ hist[t].last = None
    BY DEF Init, Unstarted
  <2>2. InPlace(run[t], dryRun)
    BY <2>1 DEF InPlace, Reading
  <2>3. Grounded(run[t])
    BY <2>1 DEF Grounded
  <2>4. Recorded(run[t], hist[t])
    BY <2>1, RecoveryAssumption
       DEF Recorded, AfterContainer, AfterGateway, RailwayClassification
  <2> QED BY <2>1, <2>2, <2>3, <2>4 DEF Good
<1> QED BY <1>3, <1>4

(* Every step keeps the invariant.                                         *)
LEMMA InvStep ==
  ASSUME TypeOK, IInv, [Next]_vars
  PROVE  TypeOK' /\ IInv'
<1>1. TypeOK'
  BY TypeStep
<1>2. CASE UNCHANGED vars
  BY <1>1, <1>2 DEF vars, IInv
<1>3. CASE Next
  <2>1. PICK t \in Targets : Step(t) \/ Expire(t)
    BY <1>3 DEF Next
  <2> QED
    BY <1>1, <2>1, StartGood, ProbeGood, DecideGood, RestartContainerGood,
       RestartGatewayGood DEF Step
<1> QED BY <1>2, <1>3

(* In every behaviour of Recovery, whatever its constants, the variables   *)
(* have their types: the retries and polls of every thread stay bounded.   *)
THEOREM TypeCorrect == Spec => []TypeOK
<1>1. Safe => [](TypeOK /\ IInv)
  BY InvInit, InvStep, PTL DEF Safe
<1> QED BY <1>1, PTL DEF Spec

(* Each target is always where its history and its evidence say.           *)
THEOREM Invariant == Spec => []IInv
<1>1. Safe => [](TypeOK /\ IInv)
  BY InvInit, InvStep, PTL DEF Safe
<1> QED BY <1>1, PTL DEF Spec

-----------------------------------------------------------------------------
(* What the invariant gives.                                               *)

(* No restart without two failing probes before it, nor in a dry run, on   *)
(* any path through the recovery strategies.                               *)
THEOREM MutationIsEarned == Spec => []MutationEarned
<1>1. TypeOK /\ IInv => MutationEarned
  <2> SUFFICES ASSUME TypeOK, IInv, NEW t \in Targets,
                      hist[t].container + hist[t].gateway > 0
               PROVE  ~dryRun /\ hist[t].strikes > hist[t].container + hist[t].gateway
    BY DEF MutationEarned, Requests
  <2>1. CASE run[t].pc = "done"
    BY <2>1 DEF IInv, Good, Settled
  <2>2. CASE run[t].pc # "done"
    <3>1. InPlace(run[t], dryRun) /\ Recorded(run[t], hist[t])
      BY <2>2, Unfinished
    <3> QED
      BY <3>1 DEF Recorded, InPlace, AfterContainer, AfterGateway, Reading,
                  TypeOK, History
  <2> QED BY <2>1, <2>2
<1> QED BY <1>1, TypeCorrect, Invariant, PTL

(* A recovered outcome, the one the exit code counts on, always rests on a *)
(* healthy probe taken after the last restart.                             *)
THEOREM OutcomesAreHonest == Spec => []OutcomeHonest
<1>1. IInv => OutcomeHonest
  BY DEF IInv, Good, Settled, OutcomeHonest, Finished, At
<1> QED BY <1>1, Invariant, PTL

(* An outcome without an error names exactly what was requested.           *)
THEOREM ActionsAreReported == Spec => []ActionReported
<1>1. IInv => ActionReported
  BY DEF IInv, Good, Settled, ActionReported, Finished, At
<1> QED BY <1>1, Invariant, PTL

(* The steps that request a restart.                                       *)
LEMMA OnlyIssueRequests ==
  ASSUME TypeOK, [Next]_vars, NEW t \in Targets
  PROVE  /\ hist'[t].container > hist[t].container => IssueContainer(t)
         /\ hist'[t].gateway > hist[t].gateway => IssueGateway(t)
<1>0. hist[t].container \in Nat /\ hist[t].gateway \in Nat
  BY DEF TypeOK, History
<1>1. CASE UNCHANGED vars
  BY <1>0, <1>1 DEF vars
<1>2. CASE Next
  <2>1. PICK u \in Targets : Step(u) \/ Expire(u)
    BY <1>2 DEF Next
  <2>2. CASE hist' = hist
    BY <1>0, <2>2
  <2>3. CASE \E c : Judge(u, c)
    <3>1. PICK c : Judge(u, c)
      BY <2>3
    <3>2. /\ hist'[t].container = hist[t].container
          /\ hist'[t].gateway = hist[t].gateway
      <4>1. CASE t = u
        BY <3>1, <4>1, JudgeEffect
      <4>2. CASE t # u
        BY <3>1, <4>2, JudgeEffect
      <4> QED BY <4>1, <4>2
    <3> QED BY <1>0, <3>2
  <2>4. CASE IssueContainer(u)
    <3>1. t # u => hist'[t] = hist[t]
      BY <2>4 DEF IssueContainer, TypeOK
    <3>2. hist'[u].gateway = hist[u].gateway
      BY <2>4 DEF IssueContainer, TypeOK, History
    <3> QED BY <1>0, <2>4, <3>1, <3>2
  <2>5. CASE IssueGateway(u)
    <3>1. t # u => hist'[t] = hist[t]
      BY <2>5 DEF IssueGateway, TypeOK
    <3>2. hist'[u].container = hist[u].container
      BY <2>5 DEF IssueGateway, TypeOK, History
    <3> QED BY <1>0, <2>5, <3>1, <3>2
  <2>6. Probe(u) \/ Start(u) \/ FactoryFails(u) \/ Expire(u) => hist' = hist
    BY DEF Probe, ReadStatus, StatusFails, CheckHealth, HealthFails,
           HealthOutOfTime, HealthCrashes, Start, FactoryFails, Expire, Raise
  <2>7. Decide(u) => \E c : Judge(u, c)
    BY DEF Decide, FirstSettles, FirstFindsFailure, RecheckSettles,
           RecheckEscalates, WantContainer, ContainerUnwanted, Regressed,
           WantGateway, GatewayUnwanted, Verify
  <2>8. RestartContainer(u) => IssueContainer(u) \/ hist' = hist
    BY DEF RestartContainer, ContainerRefused, ContainerAccepted,
           ContainerDenied, ContainerFails, Poll, WaitEnds, PollFindsIt,
           PollAgain, Raise
  <2>9. RestartGateway(u) => IssueGateway(u) \/ hist' = hist
    BY DEF RestartGateway, GatewayRefused, GatewayRestarted, GatewayDenied,
           GatewayFails, Raise
  <2> QED BY <2>1, <2>2, <2>3, <2>4, <2>5, <2>6, <2>7, <2>8, <2>9 DEF Step
<1> QED BY <1>1, <1>2

(* Each mutation at most once per run, the container never after the       *)
(* gateway.                                                                *)
THEOREM RestartsAtMostOnce == Spec => AtMostOnce
<1> DEFINE Once ==
      \A t \in Targets :
        /\ hist'[t].gateway > hist[t].gateway => hist[t].gateway = 0
        /\ hist'[t].container > hist[t].container => Requests(t) = 0
<1>1. TypeOK /\ IInv /\ [Next]_vars => [Once]_vars
  <2> SUFFICES ASSUME TypeOK, IInv, [Next]_vars, NEW t \in Targets
               PROVE  /\ hist'[t].gateway > hist[t].gateway => hist[t].gateway = 0
                      /\ hist'[t].container > hist[t].container => Requests(t) = 0
    OBVIOUS
  <2>1. ASSUME IssueGateway(t) PROVE hist[t].gateway = 0
    <3>1. run[t].pc = "gateway"
      BY <2>1 DEF IssueGateway, At
    <3> QED
      BY <3>1, Unfinished DEF Recorded, InPlace, Rechecks, AfterGateway
  <2>2. ASSUME IssueContainer(t) PROVE Requests(t) = 0
    <3>1. run[t].pc = "container"
      BY <2>2 DEF IssueContainer, At
    <3> QED
      BY <3>1, Unfinished
         DEF Requests, Recorded, InPlace, AfterContainer, AfterGateway
  <2> QED BY <2>1, <2>2, OnlyIssueRequests
<1>2. Safe => [](TypeOK /\ IInv)
  BY InvInit, InvStep, PTL DEF Safe
<1> QED BY <1>1, <1>2, PTL DEF Spec, Safe, AtMostOnce

(* A container that Railway reports running is restarted only after a      *)
(* complete series of failed health checks.                                *)
THEOREM NoRestartIsBlind == Spec => NoBlindRestart
<1> DEFINE Seen ==
      \A t \in Targets :
        /\ hist'[t].container > hist[t].container
        /\ ContainerRunning(run[t].status)
        => run[t].tries = HealthRetries + 1
<1>1. TypeOK /\ IInv /\ [Next]_vars => [Seen]_vars
  <2> SUFFICES ASSUME TypeOK, IInv, [Next]_vars, NEW t \in Targets,
                      hist'[t].container > hist[t].container,
                      ContainerRunning(run[t].status)
               PROVE  run[t].tries = HealthRetries + 1
    OBVIOUS
  <2>1. IssueContainer(t)
    BY OnlyIssueRequests
  <2>2. run[t].pc = "container" /\ ~run[t].expired
    BY <2>1 DEF IssueContainer, At
  <2>3. Grounded(run[t])
    BY <2>2, Unfinished
  <2>4. run[t].health = None
    BY <2>2, <2>3
       DEF Grounded, Classify, RecentTransition, ContainerRunning
  <2> QED BY <2>2, <2>3, <2>4 DEF Grounded
<1>2. Safe => [](TypeOK /\ IInv)
  BY InvInit, InvStep, PTL DEF Safe
<1> QED BY <1>1, <1>2, PTL DEF Spec, Safe, NoBlindRestart

-----------------------------------------------------------------------------
(* The three kinds of steps a target may take.                             *)

(* The restarts that were requested stay the same.                         *)
SameRestarts(t) ==
  /\ hist'[t].container = hist[t].container
  /\ hist'[t].gateway = hist[t].gateway

(* A thread goes on.                                                       *)
Quiet(t) ==
  /\ Others(t) /\ SameRestarts(t)
  /\ run[t].pc # "done" /\ run'[t].pc # "done"

(* A thread ends, with an outcome that what it has just read supports.     *)
Ends(t) ==
  /\ Others(t) /\ SameRestarts(t)
  /\ run[t].pc # "done" /\ run'[t].pc = "done"
  /\ outcome'[t].action \in Actions
  /\ outcome'[t].recovered \in BOOLEAN /\ outcome'[t].deferred \in BOOLEAN
  /\ outcome'[t].recovered => Evidence(t) = "healthy"
  /\ outcome'[t].deferred => Evidence(t) = "transitional"
  /\ outcome'[t].error => outcome'[t].action = "none" /\ ~outcome'[t].recovered

(* What every step leaves alone.                                           *)
LEMMA Elsewhere ==
  ASSUME NEW t \in Targets, Others(t)
  PROVE  \A u \in Targets \ {t} :
           /\ Evidence(u)' = Evidence(u)
           /\ Verdict(u)' = Verdict(u)
           /\ hist'[u] = hist[u]
BY DEF Others, Evidence, Verdict, Judged, At, Finished

(* A look finds one of four things, or has not been finished.              *)
LEMMA EvidenceType ==
  \A t : Evidence(t)' \in Contract!Findings \cup {None}
BY DEF Evidence, Judged, Classify, Contract!Findings

(* A thread that goes on looks, whatever it does.                          *)
LEMMA QuietLooks ==
  ASSUME NEW t \in Targets, Quiet(t)
  PROVE  Contract!Look(t)
<1>1. evidence' = [evidence EXCEPT ![t] = Evidence(t)']
  BY Elsewhere DEF Quiet, evidence
<1>2. restarts' = restarts
  BY Elsewhere DEF Quiet, SameRestarts, restarts
<1>3. verdict' = verdict
  BY Elsewhere DEF Quiet, verdict, Verdict, Finished, At
<1>4. Contract!Open(t)
  BY DEF Quiet, Contract!Open, verdict, Verdict, Finished, At
<1> QED
  BY <1>1, <1>2, <1>3, <1>4, EvidenceType DEF Contract!Look, Quiet, Others

(* A thread that ends closes its target.                                   *)
LEMMA EndsCloses ==
  ASSUME TypeOK, IInv, IInv', NEW t \in Targets, Ends(t)
  PROVE  Contract!Close(t)
<1>1. evidence' = [evidence EXCEPT ![t] = None]
  BY Elsewhere DEF Ends, evidence, Evidence, At
<1>2. restarts' = restarts
  BY Elsewhere DEF Ends, SameRestarts, restarts
<1>3. Contract!Open(t)
  BY DEF Ends, Contract!Open, verdict, Verdict, Finished, At
<1>4. verdict' = [verdict EXCEPT ![t] = [action |-> outcome'[t].action,
                                         recovered |-> outcome'[t].recovered,
                                         deferred |-> outcome'[t].deferred]]
  BY Elsewhere DEF Ends, verdict, Verdict, Finished, At
<1>5. hist[t].container \in {0, 1} /\ hist[t].gateway \in {0, 1}
  BY Unfinished DEF Ends, Recorded
<1>6. Settled(hist'[t], outcome'[t], dryRun')
  BY DEF Ends, IInv, Good
<1>7. CASE outcome'[t].error
  BY <1>1, <1>2, <1>3, <1>4, <1>7
     DEF Contract!Close, Ends, Others, evidence, restarts
<1>8. CASE ~outcome'[t].error
  <2>1. outcome'[t].action =
          IF hist[t].container > 0 THEN "container_restart"
          ELSE IF hist[t].gateway > 0 THEN "gateway_restart" ELSE "none"
    BY <1>6, <1>8 DEF Settled, Ends, SameRestarts
  <2>2. /\ outcome'[t].action = "gateway_restart"
             => restarts[t] = [container |-> 0, gateway |-> 1]
        /\ outcome'[t].action = "container_restart" => restarts[t].container = 1
        /\ outcome'[t].action = "none"
             => restarts[t] = [container |-> 0, gateway |-> 0]
    BY <1>5, <2>1 DEF restarts
  <2> QED
    BY <1>1, <1>2, <1>3, <1>4, <2>2
       DEF Contract!Close, Ends, Others, Actions, evidence
<1> QED BY <1>7, <1>8 DEF Ends

(* A container restart rests on the look at hand, and is the first request.*)
LEMMA ContainerRestarts ==
  ASSUME TypeOK, IInv, NEW t \in Targets, IssueContainer(t)
  PROVE  Contract!Restart(t, "container")
<1>1. /\ run[t].pc = "container"
      /\ run'[t].pc = "containerReply" /\ run'[t].site = run[t].site
      /\ Others(t)
      /\ hist'[t].container = hist[t].container + 1
      /\ hist'[t].gateway = hist[t].gateway
  BY DEF IssueContainer, At, Others, TypeOK, Locals, History
<1>2. /\ ~dryRun
      /\ Evidence(t) = "container_failure"
      /\ hist[t].container = 0 /\ hist[t].gateway = 0
  BY <1>1, Unfinished
     DEF InPlace, Grounded, Recorded, AfterContainer, AfterGateway, Evidence,
         Judged, At
<1>3. evidence' = [evidence EXCEPT ![t] = None]
  BY <1>1, Elsewhere DEF evidence, Evidence, At
<1>4. restarts' = [restarts EXCEPT ![t]["container"] = 1]
  <2>1. [restarts[t] EXCEPT !["container"] = 1] = [container |-> 1, gateway |-> 0]
    BY <1>2 DEF restarts
  <2>2. \A u \in Targets \ {t} : hist'[u] = hist[u]
    BY <1>1 DEF Others
  <2>3. hist'[t].container = 1 /\ hist'[t].gateway = 0
    BY <1>1, <1>2
  <2>4. restarts' = [restarts EXCEPT ![t] = [container |-> 1, gateway |-> 0]]
    BY <2>2, <2>3 DEF restarts
  <2> QED BY <2>1, <2>4
<1>5. verdict' = verdict
  BY <1>1, Elsewhere DEF verdict, Verdict, Finished, At
<1>6. Contract!Open(t)
  BY <1>1 DEF Contract!Open, verdict, Verdict, Finished, At
<1>7. evidence[t] = "container_failure" /\ restarts[t] = [container |-> 0, gateway |-> 0]
  BY <1>2 DEF evidence, restarts
<1> QED
  BY <1>1, <1>2, <1>3, <1>4, <1>5, <1>6, <1>7
     DEF Contract!Restart, Contract!Cause, Others

(* A gateway restart rests on the look at hand, and is the last request.   *)
LEMMA GatewayRestarts ==
  ASSUME TypeOK, IInv, NEW t \in Targets, IssueGateway(t)
  PROVE  Contract!Restart(t, "gateway")
<1>1. /\ run[t].pc = "gateway"
      /\ run'[t].pc = "gatewayReply"
      /\ hist'[t].container = hist[t].container
      /\ hist'[t].gateway = hist[t].gateway + 1
  BY DEF IssueGateway, At, TypeOK, Locals, History
<1>2. Others(t)
  BY DEF IssueGateway, Others, TypeOK
<1>3. /\ ~dryRun
      /\ Evidence(t) = "gateway_only_failure"
      /\ hist[t].gateway = 0
  BY <1>1, Unfinished
     DEF InPlace, Grounded, Recorded, AfterContainer, AfterGateway, Evidence,
         Judged, At, Rechecks
<1>4. evidence' = [evidence EXCEPT ![t] = None]
  BY <1>1, <1>2, Elsewhere DEF evidence, Evidence, At
<1>5. restarts' = [restarts EXCEPT ![t]["gateway"] = 1]
  <2> DEFINE both == [container |-> hist[t].container, gateway |-> 1]
  <2>1. [restarts[t] EXCEPT !["gateway"] = 1] = both
    BY DEF restarts
  <2>2. \A u \in Targets \ {t} : hist'[u] = hist[u]
    BY <1>2 DEF Others
  <2>3. hist'[t].container = hist[t].container /\ hist'[t].gateway = 1
    BY <1>1, <1>3
  <2>4. restarts' = [restarts EXCEPT ![t] = both]
    BY <2>2, <2>3 DEF restarts
  <2> QED BY <2>1, <2>4
<1>6. verdict' = verdict
  BY <1>1, <1>2, Elsewhere DEF verdict, Verdict, Finished, At
<1>7. Contract!Open(t)
  BY <1>1 DEF Contract!Open, verdict, Verdict, Finished, At
<1>8. evidence[t] = "gateway_only_failure" /\ restarts[t].gateway = 0
  BY <1>3 DEF evidence, restarts
<1> QED
  BY <1>2, <1>3, <1>4, <1>5, <1>6, <1>7, <1>8
     DEF Contract!Restart, Contract!Cause, Others

-----------------------------------------------------------------------------
(* Which steps end a thread, and which let it go on.                       *)

(* An exception ends its target with nothing to report.                    *)
LEMMA RaiseEnds ==
  ASSUME TypeOK, NEW t \in Targets, run[t].pc # "done", Raise(t)
  PROVE  Ends(t)
<1>1. hist' = hist /\ Done(t, run[t].cls, "none", FALSE, FALSE, TRUE)
  BY DEF Raise
<1> QED
  BY <1>1, DoneEffect DEF Ends, Others, SameRestarts, Actions

(* A result ends its target, if the look at hand supports it.              *)
LEMMA ResultEnds ==
  ASSUME TypeOK, NEW t \in Targets, run[t].pc # "done",
         NEW c, NEW a \in Actions, NEW r \in BOOLEAN, NEW d \in BOOLEAN,
         Done(t, c, a, r, d, FALSE),
         \A u \in Targets \ {t} : hist'[u] = hist[u], SameRestarts(t),
         r => Evidence(t) = "healthy", d => Evidence(t) = "transitional"
  PROVE  Ends(t)
<1>1. /\ dryRun' = dryRun
      /\ \A u \in Targets \ {t} : run'[u] = run[u] /\ outcome'[u] = outcome[u]
      /\ run'[t].pc = "done"
      /\ outcome'[t].action = a
      /\ outcome'[t].recovered = r
      /\ outcome'[t].deferred = d
      /\ outcome'[t].error = FALSE
  BY DEF Done, TypeOK, Unstarted
<1>2. /\ outcome'[t].recovered => Evidence(t) = "healthy"
      /\ outcome'[t].recovered \in BOOLEAN
  <2>1. CASE r = TRUE
    BY <1>1, <2>1
  <2>2. CASE r = FALSE
    BY <1>1, <2>2
  <2> QED BY <2>1, <2>2
<1>3. /\ outcome'[t].deferred => Evidence(t) = "transitional"
      /\ outcome'[t].deferred \in BOOLEAN
  <2>1. CASE d = TRUE
    BY <1>1, <2>1
  <2>2. CASE d = FALSE
    BY <1>1, <2>2
  <2> QED BY <2>1, <2>2
<1> QED BY <1>1, <1>2, <1>3 DEF Ends, Others

(* So does a failure to recover, whatever was read.                        *)
LEMMA FailureEnds ==
  ASSUME TypeOK, NEW t \in Targets, run[t].pc # "done", NEW a \in Actions,
         Finish(t, a, FALSE, FALSE),
         \A u \in Targets \ {t} : hist'[u] = hist[u], SameRestarts(t)
  PROVE  Ends(t)
BY ResultEnds DEF Finish

(* A thread that begins to read goes on.                                   *)
LEMMA ReadQuiet ==
  ASSUME TypeOK, NEW t \in Targets, run[t].pc # "done", NEW s, Read(t, s),
         \A u \in Targets \ {t} : hist'[u] = hist[u], SameRestarts(t)
  PROVE  Quiet(t)
BY ReadEffect DEF Quiet, Others

(* A classified probe is the look at hand, and requests nothing.           *)
LEMMA JudgeLooks ==
  ASSUME TypeOK, NEW t \in Targets, run[t].site # "wait", NEW c, Judge(t, c)
  PROVE  /\ run[t].pc # "done"
         /\ Evidence(t) = c
         /\ SameRestarts(t)
         /\ \A u \in Targets \ {t} : hist'[u] = hist[u]
BY JudgeEffect DEF SameRestarts, Evidence, Judged, At

(* Starting a target, or failing to, and the passing of its budget.        *)
LEMMA StartSteps ==
  ASSUME TypeOK, NEW t \in Targets, Start(t) \/ FactoryFails(t) \/ Expire(t)
  PROVE  Quiet(t) \/ Ends(t)
<1>1. run[t].pc # "done"
  BY DEF Start, FactoryFails, Expire, MayStart, At, Busy
<1>2. CASE Start(t)
  BY <1>1, <1>2, ReadQuiet DEF Start, SameRestarts
<1>3. CASE FactoryFails(t)
  BY <1>1, <1>3, RaiseEnds DEF FactoryFails
<1>4. CASE Expire(t)
  BY <1>1, <1>4 DEF Expire, Quiet, Others, SameRestarts, TypeOK, Locals
<1> QED BY <1>2, <1>3, <1>4

(* The reads of a probe.                                                   *)
LEMMA ProbeSteps ==
  ASSUME TypeOK, NEW t \in Targets, Probe(t)
  PROVE  Quiet(t) \/ Ends(t)
<1>1. run[t].pc # "done"
  BY DEF Probe, ReadStatus, StatusFails, CheckHealth, HealthFails,
         HealthOutOfTime, HealthCrashes, At
<1>2. CASE StatusFails(t) \/ HealthCrashes(t)
  BY <1>1, <1>2, RaiseEnds DEF StatusFails, HealthCrashes
<1>3. CASE ReadStatus(t)
  BY <1>1, <1>3 DEF ReadStatus, Quiet, Others, SameRestarts, TypeOK, Locals
<1>4. CASE CheckHealth(t)
  BY <1>1, <1>4 DEF CheckHealth, Quiet, Others, SameRestarts, TypeOK, Locals
<1>5. CASE HealthFails(t)
  <2>1. Others(t) /\ SameRestarts(t)
    BY <1>5 DEF HealthFails, Others, SameRestarts, TypeOK
  <2>2. run'[t].pc \in {"health", "decide"}
    BY <1>5 DEF HealthFails, TypeOK, Locals
  <2> QED BY <1>1, <2>1, <2>2 DEF Quiet
<1>6. CASE HealthOutOfTime(t)
  BY <1>1, <1>6 DEF HealthOutOfTime, Quiet, Others, SameRestarts, TypeOK, Locals
<1> QED BY <1>2, <1>3, <1>4, <1>5, <1>6 DEF Probe

(* The verdicts on a full probe.                                           *)
LEMMA DecideSteps ==
  ASSUME TypeOK, NEW t \in Targets, Decide(t)
  PROVE  Quiet(t) \/ Ends(t)
<1>1. run[t].action \in Actions
  BY DEF TypeOK, Locals
<1>2. CASE FirstSettles(t)
  <2>1. PICK c \in RailwayClassification :
          Judge(t, c) /\ Done(t, c, "none", c = "healthy", c = "transitional", FALSE)
    BY <1>2 DEF FirstSettles
  <2>2. run[t].site # "wait" /\ "none" \in Actions
    BY <1>2 DEF FirstSettles, Actions
  <2> QED BY <2>1, <2>2, JudgeLooks, ResultEnds
<1>3. CASE FirstFindsFailure(t)
  <2>1. PICK c \in {"gateway_only_failure", "container_failure"} : Judge(t, c)
    BY <1>3 DEF FirstFindsFailure
  <2>2. run[t].site # "wait"
    BY <1>3 DEF FirstFindsFailure
  <2>3. /\ run'[t].pc = "status" /\ dryRun' = dryRun
        /\ \A u \in Targets \ {t} : run'[u] = run[u] /\ outcome'[u] = outcome[u]
    BY <1>3 DEF FirstFindsFailure, TypeOK, Locals
  <2> QED BY <2>1, <2>2, <2>3, JudgeLooks DEF Quiet, Others
<1>4. CASE RecheckSettles(t)
  <2>1. PICK c \in {"healthy", "transitional"} :
          Judge(t, c) /\ Finish(t, run[t].action, c = "healthy", c = "transitional")
    BY <1>4 DEF RecheckSettles
  <2>2. run[t].site # "wait"
    BY <1>4 DEF RecheckSettles, Rechecks
  <2> QED BY <1>1, <2>1, <2>2, JudgeLooks, ResultEnds DEF Finish
<1>5. CASE RecheckEscalates(t)
  <2>1. run[t].site # "wait" /\ Judge(t, "container_failure") /\ Read(t, "ctCheck")
    BY <1>5 DEF RecheckEscalates
  <2> QED BY <2>1, JudgeLooks, ReadQuiet
<1>6. CASE WantContainer(t)
  <2>1. run[t].site # "wait" /\ Judge(t, "container_failure")
    BY <1>6 DEF WantContainer
  <2>2. /\ run'[t].pc = "container" /\ dryRun' = dryRun
        /\ \A u \in Targets \ {t} : run'[u] = run[u] /\ outcome'[u] = outcome[u]
    BY <1>6 DEF WantContainer, TypeOK, Locals
  <2> QED BY <2>1, <2>2, JudgeLooks DEF Quiet, Others
<1>7. CASE ContainerUnwanted(t)
  <2>1. /\ run[t].site # "wait" /\ Judge(t, "container_failure")
        /\ Finish(t, "none", FALSE, FALSE) /\ "none" \in Actions
    BY <1>7 DEF ContainerUnwanted, Actions
  <2> QED BY <2>1, JudgeLooks, FailureEnds
<1>8. CASE Regressed(t)
  <2>1. /\ run[t].site # "wait" /\ Judge(t, "container_failure")
        /\ Finish(t, "container_restart", FALSE, FALSE)
        /\ "container_restart" \in Actions
    BY <1>8 DEF Regressed, Actions
  <2> QED BY <2>1, JudgeLooks, FailureEnds
<1>9. CASE WantGateway(t)
  <2>1. run[t].site # "wait" /\ Judge(t, "gateway_only_failure")
    BY <1>9 DEF WantGateway, Rechecks
  <2>2. /\ run'[t].pc = "gateway" /\ dryRun' = dryRun
        /\ \A u \in Targets \ {t} : run'[u] = run[u] /\ outcome'[u] = outcome[u]
    BY <1>9 DEF WantGateway, TypeOK, Locals
  <2> QED BY <2>1, <2>2, JudgeLooks DEF Quiet, Others
<1>10. CASE GatewayUnwanted(t)
  <2>1. /\ run[t].site # "wait" /\ Judge(t, "gateway_only_failure")
        /\ Finish(t, run[t].action, FALSE, FALSE)
    BY <1>10 DEF GatewayUnwanted, Rechecks
  <2> QED BY <1>1, <2>1, JudgeLooks, FailureEnds
<1>11. CASE Verify(t)
  <2>1. PICK c \in RailwayClassification :
          Judge(t, c) /\ Finish(t, run[t].action, c = "healthy", FALSE)
    BY <1>11 DEF Verify
  <2>2. run[t].site # "wait"
    BY <1>11 DEF Verify
  <2> QED BY <1>1, <2>1, <2>2, JudgeLooks, ResultEnds DEF Finish
<1> QED
  BY <1>2, <1>3, <1>4, <1>5, <1>6, <1>7, <1>8, <1>9, <1>10, <1>11 DEF Decide

(* The container restart's answer and the wait.                            *)
LEMMA ContainerSteps ==
  ASSUME TypeOK, NEW t \in Targets, RestartContainer(t), ~IssueContainer(t)
  PROVE  Quiet(t) \/ Ends(t)
<1>1. run[t].pc # "done" /\ hist' = hist
  BY DEF RestartContainer, ContainerRefused, ContainerAccepted, ContainerDenied,
         ContainerFails, Poll, WaitEnds, PollFindsIt, PollAgain, Raise, At
<1>2. SameRestarts(t) /\ \A u \in Targets \ {t} : hist'[u] = hist[u]
  BY <1>1 DEF SameRestarts
<1>3. CASE ContainerRefused(t) \/ ContainerFails(t)
  BY <1>1, <1>3, RaiseEnds DEF ContainerRefused, ContainerFails
<1>4. CASE ContainerDenied(t) \/ WaitEnds(t)
  <2>1. Finish(t, "container_restart", FALSE, FALSE) /\ "container_restart" \in Actions
    BY <1>4 DEF ContainerDenied, WaitEnds, Actions
  <2> QED BY <1>1, <1>2, <2>1, FailureEnds
<1>5. CASE ContainerAccepted(t)
  BY <1>1, <1>2, <1>5 DEF ContainerAccepted, Quiet, Others, TypeOK, Locals
<1>6. CASE Poll(t)
  BY <1>1, <1>2, <1>6, ReadQuiet DEF Poll
<1>7. CASE PollFindsIt(t)
  <2>1. CASE run[t].expired
    <3>1. Finish(t, "container_restart", FALSE, FALSE) /\ "container_restart" \in Actions
      BY <1>7, <2>1 DEF PollFindsIt, Actions
    <3> QED BY <1>1, <1>2, <3>1, FailureEnds
  <2>2. CASE ~run[t].expired
    BY <1>1, <1>2, <1>7, <2>2, ReadQuiet DEF PollFindsIt
  <2> QED BY <2>1, <2>2
<1>8. CASE PollAgain(t)
  <2>1. /\ run'[t].pc = "wait" /\ dryRun' = dryRun
        /\ \A u \in Targets \ {t} : run'[u] = run[u] /\ outcome'[u] = outcome[u]
    BY <1>8 DEF PollAgain, TypeOK, Locals
  <2> QED BY <1>1, <1>2, <2>1 DEF Quiet, Others
<1> QED BY <1>3, <1>4, <1>5, <1>6, <1>7, <1>8 DEF RestartContainer

(* The gateway restart's answer.                                           *)
LEMMA GatewaySteps ==
  ASSUME TypeOK, NEW t \in Targets, RestartGateway(t), ~IssueGateway(t)
  PROVE  Quiet(t) \/ Ends(t)
<1>1. run[t].pc # "done" /\ hist' = hist
  BY DEF RestartGateway, GatewayRefused, GatewayRestarted, GatewayDenied,
         GatewayFails, Raise, At
<1>2. SameRestarts(t) /\ \A u \in Targets \ {t} : hist'[u] = hist[u]
  BY <1>1 DEF SameRestarts
<1>3. run[t].action \in Actions
  BY DEF TypeOK, Locals
<1>4. CASE GatewayRefused(t) \/ GatewayFails(t)
  BY <1>1, <1>4, RaiseEnds DEF GatewayRefused, GatewayFails
<1>5. CASE GatewayDenied(t)
  BY <1>1, <1>2, <1>3, <1>5, FailureEnds DEF GatewayDenied
<1>6. CASE GatewayRestarted(t)
  <2>1. CASE run[t].expired
    <3>1. Finish(t, run[t].action, FALSE, FALSE)
      BY <1>6, <2>1 DEF GatewayRestarted
    <3> QED BY <1>1, <1>2, <1>3, <3>1, FailureEnds
  <2>2. CASE ~run[t].expired
    BY <1>1, <1>2, <1>6, <2>2, ReadQuiet DEF GatewayRestarted
  <2> QED BY <2>1, <2>2
<1> QED BY <1>4, <1>5, <1>6 DEF RestartGateway

-----------------------------------------------------------------------------
(* The refinement.                                                         *)

(* Nothing has been looked at, restarted or closed at first.               *)
LEMMA InitImplements == Init => Contract!ContractInit
BY DEF Init, Unstarted, Contract!ContractInit, evidence, Evidence, restarts, verdict,
       Verdict, Finished, At

(* Every step is a step of the contract, or none.                          *)
LEMMA StepImplements ==
  ASSUME TypeOK, IInv, IInv', [Next]_vars
  PROVE  [Contract!ContractNext]_(Contract!contractVars)
<1>1. CASE UNCHANGED vars
  BY <1>1 DEF vars, Contract!contractVars, evidence, Evidence, Judged,
              restarts, verdict, Verdict, Finished, At
<1>2. CASE Next
  <2>1. PICK t \in Targets : Step(t) \/ Expire(t)
    BY <1>2 DEF Next
  <2>2. CASE IssueContainer(t)
    BY <2>2, ContainerRestarts DEF Contract!ContractNext, Contract!Mutations
  <2>3. CASE IssueGateway(t)
    BY <2>3, GatewayRestarts DEF Contract!ContractNext, Contract!Mutations
  <2>4. CASE ~IssueContainer(t) /\ ~IssueGateway(t)
    <3>1. Quiet(t) \/ Ends(t)
      BY <2>1, <2>4, StartSteps, ProbeSteps, DecideSteps, ContainerSteps,
         GatewaySteps DEF Step
    <3> QED
      BY <3>1, QuietLooks, EndsCloses DEF Contract!ContractNext
  <2> QED BY <2>2, <2>3, <2>4
<1> QED BY <1>1, <1>2

(* Whatever its constants, a recovery does what orchestrator.py promises   *)
(* and nothing else.                                                       *)
THEOREM ImplementsContract == Spec => KeepsContract
<1>1. Safe => [](TypeOK /\ IInv)
  BY InvInit, InvStep, PTL DEF Safe
<1>2. TypeOK /\ IInv /\ IInv' /\ [Next]_vars
        => [Contract!ContractNext]_(Contract!contractVars)
  BY StepImplements
<1> QED
  BY <1>1, <1>2, InitImplements, PTL
     DEF Spec, Safe, KeepsContract, Contract!ContractSpec
-----------------------------------------------------------------------------
(* Every recovery ends: each step of a thread uses one of the steps that   *)
(* the caps on attempts leave it.                                          *)

(* What a poll is worth: one probe's steps.                                *)
LEMMA PollsAreWorth ==
  ASSUME NEW p \in 0 .. WaitAttempts
  PROVE  /\ PerProbe = HealthRetries + 4
         /\ WaitLeft(p) \in Nat
         /\ WaitLeft(p) > 2 * PerProbe
         /\ WaitLeft(p) <= WaitLeft(0)
         /\ p < WaitAttempts => WaitLeft(p + 1) = WaitLeft(p) - PerProbe
<1> DEFINE d == WaitAttempts - p
<1>1. /\ PerProbe = HealthRetries + 4 /\ PerProbe \in Nat
      /\ d \in Nat /\ p \in Nat /\ WaitAttempts \in Nat
  BY ConstantsType DEF PerProbe
<1>2. PerProbe * d \in Nat /\ PerProbe * p \in Nat
  BY <1>1
<1>3. PerProbe * (WaitAttempts - 0) = PerProbe * d + PerProbe * p
  BY <1>1
<1>4. PerProbe * (WaitAttempts - (p + 1)) = PerProbe * d - PerProbe
  BY <1>1
<1> HIDE DEF PerProbe
<1>5. WaitLeft(p) = PerProbe * d + 2 * PerProbe + 1
  BY DEF WaitLeft
<1>6. WaitLeft(0) = PerProbe * d + PerProbe * p + 2 * PerProbe + 1
  BY <1>3 DEF WaitLeft
<1>7. WaitLeft(p + 1) = PerProbe * d - PerProbe + 2 * PerProbe + 1
  BY <1>4 DEF WaitLeft
<1> DEFINE x == PerProbe * d
           y == PerProbe * p
<1> HIDE DEF x, y
<1>8. x \in Nat /\ y \in Nat /\ WaitLeft(p) = x + 2 * PerProbe + 1
      /\ WaitLeft(0) = x + y + 2 * PerProbe + 1 /\ WaitLeft(p + 1) = x - PerProbe + 2 * PerProbe + 1
  BY <1>2, <1>5, <1>6, <1>7 DEF x, y
<1> QED BY <1>1, <1>8

(* A thread in its place has a number of steps left, and one at least      *)
(* unless it is done.                                                      *)
LEMMA LeftType ==
  ASSUME NEW r \in Locals, NEW dry, r.pc = "done" \/ InPlace(r, dry)
  PROVE  /\ StepsLeft(r) \in Nat
         /\ StepsLeft(r) = 0 <=> r.pc = "done"
         /\ PlaceLeft(r) \in Nat
         /\ r.pc \in Reading => SiteLeft(r) \in Nat /\ ReadsLeft(r) \in Nat \ {0}
<1>1. /\ r.pc \in Stages /\ r.site \in Sites /\ r.tries \in 0 .. HealthRetries + 1
      /\ r.polls \in 0 .. WaitAttempts /\ r.expired \in BOOLEAN
  BY DEF Locals
<1>2. /\ HealthRetries \in Nat /\ WaitAttempts \in Nat /\ PerProbe = HealthRetries + 4
      /\ WaitLeft(0) \in Nat /\ WaitLeft(r.polls) \in Nat /\ WaitLeft(r.polls) > 0
  BY <1>1, ConstantsType, PollsAreWorth
<1>3. ASSUME r.pc \in Reading
      PROVE  SiteLeft(r) \in Nat /\ ReadsLeft(r) \in Nat \ {0}
  <2>1. InPlace(r, dry)
    BY <1>3 DEF Reading
  <2>2. ReadsLeft(r) \in Nat \ {0}
    <3>1. r.pc = "health" => r.tries <= HealthRetries
      BY <2>1 DEF InPlace
    <3> QED BY <1>1, <1>2, <1>3, <3>1 DEF ReadsLeft, Reading
  <2>3. r.site = "wait" => WaitLeft(r.polls + 1) \in Nat
    <3>1. r.site = "wait" => r.polls + 1 \in 0 .. WaitAttempts
      BY <1>1, <1>2, <1>3, <2>1 DEF InPlace
    <3> QED BY <3>1, PollsAreWorth
  <2>4. SiteLeft(r) \in Nat
    BY <1>1, <1>2, <2>3 DEF SiteLeft, Sites, ProbeSites
  <2> QED BY <2>2, <2>4
<1>4. PlaceLeft(r) \in Nat /\ (PlaceLeft(r) = 0 <=> r.pc = "done")
  BY <1>1, <1>2, <1>3 DEF PlaceLeft, Stages, Reading
<1> QED BY <1>1, <1>3, <1>4 DEF StepsLeft

(* A thread has fewer steps left than it had: it is done, ...              *)
LEMMA DoneAdvances ==
  ASSUME TypeOK, IInv, TypeOK', NEW t \in Targets, run[t].pc # "done", run'[t].pc = "done"
  PROVE  StepsLeft(run'[t]) < StepsLeft(run[t])
<1>1. run[t] \in Locals /\ run'[t] \in Locals /\ InPlace(run[t], dryRun)
  BY Unfinished DEF TypeOK
<1>2. StepsLeft(run[t]) \in Nat /\ StepsLeft(run[t]) # 0
  BY <1>1, LeftType
<1>3. StepsLeft(run'[t]) = 0
  BY <1>1, LeftType
<1> QED BY <1>2, <1>3

(* ... or is at another place.                                             *)
LEMMA PlaceAdvances ==
  ASSUME NEW r \in Locals, NEW s \in Locals, NEW dry, InPlace(r, dry), InPlace(s, dry),
         r.pc # "done", s.pc # "done", s.expired = r.expired,
         PlaceLeft(r) \in Int, PlaceLeft(s) \in Int, PlaceLeft(s) < PlaceLeft(r)
  PROVE  StepsLeft(s) < StepsLeft(r)
BY DEF StepsLeft, Locals

(* What is known of a thread that is not done, and stays so.               *)
Moved(t) ==
  /\ run[t] \in Locals /\ run'[t] \in Locals
  /\ run[t].pc # "done" /\ run'[t].pc # "done"
  /\ InPlace(run[t], dryRun) /\ InPlace(run'[t], dryRun)

(* The invariant says it of every thread that is not done.                 *)
LEMMA MovedInPlace ==
  ASSUME TypeOK, IInv, TypeOK', IInv', NEW t \in Targets, dryRun' = dryRun,
         run[t].pc # "done", run'[t].pc # "done"
  PROVE  Moved(t)
BY DEF Moved, TypeOK, IInv, Good

(* A thread that goes on reading the same probe.                           *)
LEMMA ReadingAdvances ==
  ASSUME NEW t \in Targets, Moved(t), run[t].pc \in Reading, run'[t].pc \in Reading,
         run'[t].site = run[t].site, run'[t].polls = run[t].polls,
         run'[t].expired = run[t].expired,
         ReadsLeft(run'[t]) < ReadsLeft(run[t])
  PROVE  StepsLeft(run'[t]) < StepsLeft(run[t])
<1> DEFINE r == run[t]
           s == run'[t]
<1>1. SiteLeft(s) = SiteLeft(r)
  BY DEF SiteLeft
<1>2. SiteLeft(r) \in Nat /\ ReadsLeft(r) \in Nat /\ ReadsLeft(s) \in Nat
  BY LeftType DEF Moved
<1>3. PlaceLeft(r) = ReadsLeft(r) + SiteLeft(r) /\ PlaceLeft(s) = ReadsLeft(s) + SiteLeft(s)
  BY DEF PlaceLeft, Reading
<1> QED BY <1>1, <1>2, <1>3, PlaceAdvances DEF Moved

(* A thread that begins to read: what follows its new probe is less than   *)
(* what it had left, by more than a probe.                                 *)
LEMMA ReadAdvances ==
  ASSUME NEW t \in Targets, Moved(t), run'[t].pc = "status",
         run'[t].expired = run[t].expired,
         PlaceLeft(run[t]) \in Nat,
         SiteLeft(run'[t]) + HealthRetries + 3 < PlaceLeft(run[t])
  PROVE  StepsLeft(run'[t]) < StepsLeft(run[t])
<1> DEFINE s == run'[t]
<1>1. SiteLeft(s) \in Nat /\ HealthRetries \in Nat
  BY LeftType, ConstantsType DEF Moved, Reading
<1>2. PlaceLeft(s) = HealthRetries + 3 + SiteLeft(s)
  BY DEF PlaceLeft, Reading, ReadsLeft
<1> QED BY <1>1, <1>2, PlaceAdvances DEF Moved

(* The numbers all of these rest on.                                       *)
LEMMA Numbers ==
  ASSUME NEW r \in Locals
  PROVE  /\ HealthRetries \in Nat /\ PerProbe = HealthRetries + 4
         /\ WaitLeft(0) \in Nat /\ WaitLeft(0) > 2 * PerProbe
         /\ r.polls \in Nat
         /\ WaitLeft(r.polls) \in Nat /\ WaitLeft(r.polls) > 2 * PerProbe
         /\ WaitLeft(r.polls) <= WaitLeft(0)
         /\ r.polls < WaitAttempts => WaitLeft(r.polls + 1) = WaitLeft(r.polls) - PerProbe
         /\ r.polls < WaitAttempts => WaitLeft(r.polls + 1) \in Nat
         /\ r.polls < WaitAttempts => WaitLeft(r.polls + 1) > 2 * PerProbe
<1>1. r.polls \in 0 .. WaitAttempts /\ 0 \in 0 .. WaitAttempts /\ WaitAttempts \in Nat
  BY ConstantsType DEF Locals
<1>2. r.polls < WaitAttempts => r.polls + 1 \in 0 .. WaitAttempts
  BY <1>1
<1> QED BY <1>1, <1>2, PollsAreWorth, ConstantsType

(* The start of a target, and the passing of its budget.                   *)
LEMMA StartAdvances ==
  ASSUME TypeOK, IInv, TypeOK', IInv', NEW t \in Targets,
         Start(t) \/ FactoryFails(t) \/ Expire(t)
  PROVE  StepsLeft(run'[t]) < StepsLeft(run[t])
<1>1. run[t].pc # "done" /\ dryRun' = dryRun
  BY DEF Start, FactoryFails, Expire, MayStart, At, Busy, Read, Raise, Done
<1>2. CASE Start(t)
  <2>1. /\ run[t].pc = "queued" /\ run'[t].pc = "status" /\ run'[t].site = "first"
        /\ run'[t].expired = run[t].expired
    BY <1>2 DEF Start, MayStart, At, Read, TypeOK, Locals
  <2>2. Moved(t)
    BY <1>1, <2>1, MovedInPlace
  <2>3. PlaceLeft(run[t]) = WaitLeft(0) + 3 * PerProbe + 2
    BY <2>1 DEF PlaceLeft, Reading
  <2>4. SiteLeft(run'[t]) = WaitLeft(0) + 2 * PerProbe + 2
    BY <2>1 DEF SiteLeft
  <2> QED BY <2>1, <2>2, <2>3, <2>4, Numbers, ReadAdvances DEF Moved
<1>3. CASE FactoryFails(t)
  BY <1>1, <1>3, DoneAdvances, DoneEffect DEF FactoryFails, Raise
<1>4. CASE Expire(t)
  <2>1. /\ ~run[t].expired /\ run'[t] = [run[t] EXCEPT !.expired = TRUE]
    BY <1>4 DEF Expire, TypeOK
  <2>2. /\ run'[t].expired /\ run'[t].pc = run[t].pc /\ run'[t].site = run[t].site
        /\ run'[t].tries = run[t].tries /\ run'[t].polls = run[t].polls
    BY <2>1 DEF TypeOK, Locals
  <2>3. Moved(t)
    BY <1>1, <2>2, MovedInPlace
  <2>4. PlaceLeft(run'[t]) = PlaceLeft(run[t])
    BY <2>2 DEF PlaceLeft, SiteLeft, ReadsLeft
  <2>6. StepsLeft(run[t]) = PlaceLeft(run[t]) + 1 /\ StepsLeft(run'[t]) = PlaceLeft(run'[t]) + 0
    BY <1>1, <2>1, <2>2 DEF StepsLeft
  <2> QED BY <2>3, <2>4, <2>6, LeftType DEF Moved
<1> QED BY <1>2, <1>3, <1>4

(* The reads of a probe.                                                   *)
LEMMA ProbeAdvances ==
  ASSUME TypeOK, IInv, TypeOK', IInv', NEW t \in Targets, Probe(t)
  PROVE  StepsLeft(run'[t]) < StepsLeft(run[t])
<1>1. run[t].pc \in {"status", "health"} /\ dryRun' = dryRun
  BY DEF Probe, ReadStatus, StatusFails, CheckHealth, HealthFails,
         HealthOutOfTime, HealthCrashes, At, Raise, Done
<1>2. CASE StatusFails(t) \/ HealthCrashes(t)
  BY <1>1, <1>2, DoneAdvances, DoneEffect DEF StatusFails, HealthCrashes, Raise
<1>3. CASE ReadStatus(t) \/ CheckHealth(t) \/ HealthFails(t) \/ HealthOutOfTime(t)
  <2>1. /\ run'[t].site = run[t].site /\ run'[t].polls = run[t].polls
        /\ run'[t].expired = run[t].expired
        /\ \/ run[t].pc = "status" /\ run'[t].pc = "health" /\ run'[t].tries = 0
           \/ run[t].pc = "health" /\ run'[t].pc = "decide"
           \/ run[t].pc = "health" /\ run'[t].pc = "health"
              /\ run[t].tries < HealthRetries /\ run'[t].tries = run[t].tries + 1
    <3>1. CASE ReadStatus(t)
      BY <3>1 DEF ReadStatus, At, TypeOK, Locals
    <3>2. CASE CheckHealth(t)
      BY <3>2 DEF CheckHealth, At, TypeOK, Locals
    <3>3. CASE HealthFails(t)
      <4> DEFINE p == IF MoreTries(t) THEN "health" ELSE "decide"
                 n == run[t].tries + 1
      <4>1. run' = [run EXCEPT ![t] = [@ EXCEPT !.pc = p, !.tries = n]]
        BY <3>3, Zenon DEF HealthFails
      <4> HIDE DEF p, n
      <4>2. /\ run'[t].pc = p /\ run'[t].tries = n /\ run'[t].site = run[t].site
            /\ run'[t].polls = run[t].polls /\ run'[t].expired = run[t].expired
        BY <4>1 DEF TypeOK, Locals
      <4> QED BY <3>3, <4>2 DEF p, n, MoreTries, HealthFails, At
    <3>4. CASE HealthOutOfTime(t)
      BY <3>4 DEF HealthOutOfTime, At, TypeOK, Locals
    <3> QED BY <1>3, <3>1, <3>2, <3>3, <3>4
  <2>2. Moved(t)
    BY <1>1, <2>1, MovedInPlace
  <2>3. run[t].pc = "health" => run[t].tries \in 0 .. HealthRetries
    BY <2>2, ConstantsType DEF Moved, InPlace, Locals
  <2>4. run[t].tries \in Nat /\ HealthRetries \in Nat
    BY <2>2, ConstantsType DEF Moved, Locals
  <2>5. ReadsLeft(run'[t]) < ReadsLeft(run[t])
    BY <2>1, <2>3, <2>4 DEF ReadsLeft
  <2> QED BY <1>1, <2>1, <2>2, <2>5, ReadingAdvances DEF Reading
<1> QED BY <1>2, <1>3 DEF Probe

(* What a thread that decides has left.                                    *)
LEMMA DecidingLeft ==
  ASSUME NEW t \in Targets, run[t].pc = "decide"
  PROVE  PlaceLeft(run[t]) = 1 + SiteLeft(run[t])
BY DEF PlaceLeft, ReadsLeft, Reading

(* The verdicts.                                                           *)
LEMMA DecideAdvances ==
  ASSUME TypeOK, IInv, TypeOK', IInv', NEW t \in Targets, Decide(t)
  PROVE  StepsLeft(run'[t]) < StepsLeft(run[t])
<1>1. run[t].pc = "decide" /\ dryRun' = dryRun
  BY DEF Decide, FirstSettles, FirstFindsFailure, RecheckSettles,
         RecheckEscalates, WantContainer, ContainerUnwanted, Regressed,
         WantGateway, GatewayUnwanted, Verify, Judge, At, Finish, Done, Read
<1>2. PlaceLeft(run[t]) = 1 + SiteLeft(run[t])
  BY <1>1, DecidingLeft
<1>3. CASE \/ FirstSettles(t) \/ RecheckSettles(t) \/ ContainerUnwanted(t)
           \/ Regressed(t) \/ GatewayUnwanted(t) \/ Verify(t)
  <2>1. run'[t].pc = "done"
    BY <1>3 DEF FirstSettles, RecheckSettles, ContainerUnwanted, Regressed,
                GatewayUnwanted, Verify, Finish, Done, TypeOK, Unstarted
  <2> QED BY <1>1, <2>1, DoneAdvances
<1>4. CASE FirstFindsFailure(t)
  <2>1. PICK c \in {"gateway_only_failure", "container_failure"} :
          run' = [run EXCEPT ![t] =
                    [@ EXCEPT !.pc = "status", !.cls = c,
                              !.site = IF c = "gateway_only_failure"
                                         THEN "gwCheck" ELSE "ctCheck",
                              !.status = None, !.health = None]]
    BY <1>4 DEF FirstFindsFailure
  <2>2. /\ run[t].site = "first"
        /\ run'[t].pc = "status" /\ run'[t].site \in {"gwCheck", "ctCheck"}
        /\ run'[t].expired = run[t].expired
    BY <1>4, <2>1 DEF FirstFindsFailure, TypeOK, Locals
  <2>3. Moved(t)
    BY <1>1, <2>2, MovedInPlace
  <2>4. /\ SiteLeft(run[t]) = WaitLeft(0) + 2 * PerProbe + 2
        /\ SiteLeft(run'[t]) \in {WaitLeft(0) + PerProbe + 2, WaitLeft(0) + 2}
    BY <2>2 DEF SiteLeft
  <2> QED BY <1>2, <2>2, <2>3, <2>4, Numbers, ReadAdvances DEF Moved
<1>5. CASE RecheckEscalates(t)
  <2>1. /\ run[t].site = "gwCheck"
        /\ run'[t].pc = "status" /\ run'[t].site = "ctCheck"
        /\ run'[t].expired = run[t].expired
    BY <1>5 DEF RecheckEscalates, Read, TypeOK, Locals
  <2>2. Moved(t)
    BY <1>1, <2>1, MovedInPlace
  <2>3. /\ SiteLeft(run[t]) = WaitLeft(0) + PerProbe + 2
        /\ SiteLeft(run'[t]) = WaitLeft(0) + 2
    BY <2>1 DEF SiteLeft
  <2> QED BY <1>2, <2>1, <2>2, <2>3, Numbers, ReadAdvances DEF Moved
<1>6. CASE WantContainer(t)
  <2>1. /\ run[t].site = "ctCheck" /\ run'[t].pc = "container"
        /\ run'[t].expired = run[t].expired
    BY <1>6 DEF WantContainer, TypeOK, Locals
  <2>2. Moved(t)
    BY <1>1, <2>1, MovedInPlace
  <2>3. SiteLeft(run[t]) = WaitLeft(0) + 2 /\ PlaceLeft(run'[t]) = WaitLeft(0) + 2
    BY <2>1 DEF SiteLeft, PlaceLeft, Reading
  <2> QED BY <1>2, <2>1, <2>2, <2>3, Numbers, PlaceAdvances DEF Moved
<1>7. CASE WantGateway(t)
  <2>1. /\ run[t].site \in Rechecks /\ run'[t].pc = "gateway"
        /\ run'[t].expired = run[t].expired
    BY <1>7 DEF WantGateway, TypeOK, Locals
  <2>2. Moved(t)
    BY <1>1, <2>1, MovedInPlace
  <2>3. /\ SiteLeft(run[t]) \in {WaitLeft(0) + PerProbe + 2, WaitLeft(0) + 2, PerProbe + 1}
        /\ PlaceLeft(run'[t]) = PerProbe + 1
    BY <2>1 DEF SiteLeft, PlaceLeft, Reading, Rechecks
  <2> QED BY <1>2, <2>1, <2>2, <2>3, Numbers, PlaceAdvances DEF Moved
<1> QED BY <1>3, <1>4, <1>5, <1>6, <1>7 DEF Decide

(* The container restart and the wait.                                     *)
LEMMA RestartContainerAdvances ==
  ASSUME TypeOK, IInv, TypeOK', IInv', NEW t \in Targets, RestartContainer(t)
  PROVE  StepsLeft(run'[t]) < StepsLeft(run[t])
<1>1. run[t].pc \in {"container", "containerReply", "wait", "decide"} /\ dryRun' = dryRun
  BY DEF RestartContainer, IssueContainer, ContainerRefused, ContainerAccepted,
         ContainerDenied, ContainerFails, Poll, WaitEnds, PollFindsIt, PollAgain,
         At, Raise, Finish, Done, Read
<1>2. CASE ContainerRefused(t) \/ ContainerDenied(t) \/ ContainerFails(t) \/ WaitEnds(t)
  <2>1. run'[t].pc = "done"
    BY <1>2 DEF ContainerRefused, ContainerDenied, ContainerFails, WaitEnds, Raise,
                Finish, Done, TypeOK, Unstarted
  <2> QED BY <1>1, <2>1, DoneAdvances
<1>3. CASE IssueContainer(t)
  <2>1. /\ run[t].pc = "container" /\ run'[t].pc = "containerReply"
        /\ run'[t].expired = run[t].expired
    BY <1>3 DEF IssueContainer, At, TypeOK, Locals
  <2>2. Moved(t)
    BY <1>1, <2>1, MovedInPlace
  <2>3. PlaceLeft(run[t]) = WaitLeft(0) + 2 /\ PlaceLeft(run'[t]) = WaitLeft(0) + 1
    BY <2>1 DEF PlaceLeft, Reading
  <2> QED BY <2>1, <2>2, <2>3, Numbers, PlaceAdvances DEF Moved
<1>4. CASE ContainerAccepted(t)
  <2>1. /\ run[t].pc = "containerReply" /\ run'[t].pc = "wait" /\ run'[t].polls = 0
        /\ run'[t].expired = run[t].expired
    BY <1>4 DEF ContainerAccepted, At, TypeOK, Locals
  <2>2. Moved(t)
    BY <1>1, <2>1, MovedInPlace
  <2>3. PlaceLeft(run[t]) = WaitLeft(0) + 1 /\ PlaceLeft(run'[t]) = WaitLeft(0)
    BY <2>1 DEF PlaceLeft, Reading
  <2> QED BY <2>1, <2>2, <2>3, Numbers, PlaceAdvances DEF Moved
<1>5. CASE Poll(t)
  <2>1. /\ run[t].pc = "wait" /\ run[t].polls < WaitAttempts
        /\ run'[t].pc = "status" /\ run'[t].site = "wait"
        /\ run'[t].polls = run[t].polls /\ run'[t].expired = run[t].expired
    BY <1>5 DEF Poll, At, Read, TypeOK, Locals
  <2>2. Moved(t)
    BY <1>1, <2>1, MovedInPlace
  <2>3. PlaceLeft(run[t]) = WaitLeft(run[t].polls)
    BY <2>1 DEF PlaceLeft, Reading
  <2>4. SiteLeft(run'[t]) = WaitLeft(run[t].polls + 1)
    BY <2>1 DEF SiteLeft
  <2> QED BY <2>1, <2>2, <2>3, <2>4, Numbers, ReadAdvances DEF Moved
<1>6. CASE PollFindsIt(t)
  <2>1. run[t].pc = "decide" /\ run[t].site = "wait"
    BY <1>6 DEF PollFindsIt, At
  <2>2. CASE run[t].expired
    <3>1. run'[t].pc = "done"
      BY <1>6, <2>2 DEF PollFindsIt, Finish, Done, TypeOK, Unstarted
    <3> QED BY <1>1, <3>1, DoneAdvances
  <2>3. CASE ~run[t].expired
    <3>1. /\ run'[t].pc = "status" /\ run'[t].site = "postCheck"
          /\ run'[t].expired = run[t].expired
      <4>1. Read(t, "postCheck")
        BY <1>6, <2>3 DEF PollFindsIt
      <4> QED BY <4>1 DEF Read, TypeOK, Locals
    <3>2. Moved(t)
      BY <1>1, <3>1, MovedInPlace
    <3>3. run[t].polls < WaitAttempts
      BY <2>1, <3>2 DEF Moved, InPlace, Reading
    <3>4. PlaceLeft(run[t]) = 1 + WaitLeft(run[t].polls + 1)
      BY <2>1, DecidingLeft DEF SiteLeft
    <3>5. SiteLeft(run'[t]) = PerProbe + 1
      BY <3>1 DEF SiteLeft
    <3> QED BY <3>1, <3>2, <3>3, <3>4, <3>5, Numbers, ReadAdvances DEF Moved
  <2> QED BY <2>2, <2>3
<1>7. CASE PollAgain(t)
  <2>1. /\ run[t].pc = "decide" /\ run[t].site = "wait"
        /\ run'[t].pc = "wait" /\ run'[t].polls = run[t].polls + 1
        /\ run'[t].expired = run[t].expired
    BY <1>7 DEF PollAgain, At, TypeOK, Locals
  <2>2. Moved(t)
    BY <1>1, <2>1, MovedInPlace
  <2>3. run[t].polls < WaitAttempts
    BY <2>1, <2>2 DEF Moved, InPlace, Reading
  <2>4. PlaceLeft(run[t]) = 1 + WaitLeft(run[t].polls + 1)
    BY <2>1, DecidingLeft DEF SiteLeft
  <2>5. PlaceLeft(run'[t]) = WaitLeft(run[t].polls + 1)
    BY <2>1 DEF PlaceLeft, Reading
  <2> QED BY <2>1, <2>2, <2>3, <2>4, <2>5, Numbers, PlaceAdvances DEF Moved
<1> QED BY <1>2, <1>3, <1>4, <1>5, <1>6, <1>7 DEF RestartContainer

(* The gateway restart.                                                    *)
LEMMA RestartGatewayAdvances ==
  ASSUME TypeOK, IInv, TypeOK', IInv', NEW t \in Targets, RestartGateway(t)
  PROVE  StepsLeft(run'[t]) < StepsLeft(run[t])
<1>1. run[t].pc \in {"gateway", "gatewayReply"} /\ dryRun' = dryRun
  BY DEF RestartGateway, IssueGateway, GatewayRefused, GatewayRestarted,
         GatewayDenied, GatewayFails, At, Raise, Finish, Done, Read
<1>2. CASE GatewayRefused(t) \/ GatewayDenied(t) \/ GatewayFails(t)
  <2>1. run'[t].pc = "done"
    BY <1>2 DEF GatewayRefused, GatewayDenied, GatewayFails, Raise, Finish, Done,
                TypeOK, Unstarted
  <2> QED BY <1>1, <2>1, DoneAdvances
<1>3. CASE IssueGateway(t)
  <2>1. /\ run[t].pc = "gateway" /\ run'[t].pc = "gatewayReply"
        /\ run'[t].expired = run[t].expired
    BY <1>3 DEF IssueGateway, At, TypeOK, Locals
  <2>2. Moved(t)
    BY <1>1, <2>1, MovedInPlace
  <2>3. PlaceLeft(run[t]) = PerProbe + 1 /\ PlaceLeft(run'[t]) = PerProbe
    BY <2>1 DEF PlaceLeft, Reading
  <2> QED BY <2>1, <2>2, <2>3, Numbers, PlaceAdvances DEF Moved
<1>4. CASE GatewayRestarted(t)
  <2>1. CASE run[t].expired
    <3>1. run'[t].pc = "done"
      BY <1>4, <2>1 DEF GatewayRestarted, Finish, Done, TypeOK, Unstarted
    <3> QED BY <1>1, <3>1, DoneAdvances
  <2>2. CASE ~run[t].expired
    <3>1. /\ run[t].pc = "gatewayReply"
          /\ run'[t].pc = "status" /\ run'[t].site = "verify"
          /\ run'[t].expired = run[t].expired
      <4>1. Read(t, "verify") /\ run[t].pc = "gatewayReply"
        BY <1>4, <2>2 DEF GatewayRestarted, At
      <4> QED BY <4>1 DEF Read, TypeOK, Locals
    <3>2. Moved(t)
      BY <1>1, <3>1, MovedInPlace
    <3>3. PlaceLeft(run[t]) = PerProbe /\ SiteLeft(run'[t]) = 0
      BY <3>1 DEF PlaceLeft, SiteLeft, Reading
    <3> QED BY <3>1, <3>2, <3>3, Numbers, ReadAdvances DEF Moved
  <2> QED BY <2>1, <2>2
<1> QED BY <1>2, <1>3, <1>4 DEF RestartGateway

(* A step changes its own thread only.                                     *)
LEMMA OnlyOwnThread ==
  ASSUME TypeOK, NEW u \in Targets, Step(u) \/ Expire(u)
  PROVE  \A v \in Targets \ {u} : run'[v] = run[v]
BY DEF Step, Expire, Start, FactoryFails, Probe, ReadStatus, StatusFails, CheckHealth,
       HealthFails, HealthOutOfTime, HealthCrashes, Decide, FirstSettles,
       FirstFindsFailure, RecheckSettles, RecheckEscalates, WantContainer,
       ContainerUnwanted, Regressed, WantGateway, GatewayUnwanted, Verify,
       RestartContainer, IssueContainer, ContainerRefused, ContainerAccepted,
       ContainerDenied, ContainerFails, Poll, WaitEnds, PollFindsIt, PollAgain,
       RestartGateway, IssueGateway, GatewayRefused, GatewayRestarted, GatewayDenied,
       GatewayFails, Raise, Finish, Done, Read, TypeOK

(* Every step of a thread, and the passing of its budget.                  *)
LEMMA StepAdvances ==
  ASSUME TypeOK, IInv, TypeOK', IInv', [Next]_vars, NEW t \in Targets
  PROVE  /\ StepsLeft(run'[t]) \in Nat
         /\ run'[t] # run[t] => StepsLeft(run'[t]) < StepsLeft(run[t])
<1>1. StepsLeft(run'[t]) \in Nat
  <2>1. run'[t] \in Locals /\ (run'[t].pc = "done" \/ InPlace(run'[t], dryRun'))
    BY DEF TypeOK, IInv, Good
  <2> QED BY <2>1, LeftType
<1>2. ASSUME run'[t] # run[t] PROVE StepsLeft(run'[t]) < StepsLeft(run[t])
  <2>1. PICK u \in Targets : Step(u) \/ Expire(u)
    BY <1>2 DEF vars, Next
  <2>2. \A v \in Targets \ {u} : run'[v] = run[v]
    BY <2>1, OnlyOwnThread
  <2>3. u = t
    BY <1>2, <2>2
  <2> QED
    BY <2>1, <2>3, StartAdvances, ProbeAdvances, DecideAdvances,
       RestartContainerAdvances, RestartGatewayAdvances DEF Step
<1> QED BY <1>1, <1>2

(* No target keeps its thread for ever, however its services answer and    *)
(* even if its budget never expires: each step of a recovery uses up one   *)
(* of the finitely many that its caps on attempts allow.                   *)
THEOREM RecoveriesAdvance == Spec => Advances
<1>1. Safe => [](TypeOK /\ IInv)
  BY InvInit, InvStep, PTL DEF Safe
<1>2. TypeOK /\ IInv /\ (TypeOK /\ IInv)' /\ [Next]_vars
        => [\A t \in Targets :
              /\ StepsLeft(run'[t]) \in Nat
              /\ run'[t] # run[t] => StepsLeft(run'[t]) < StepsLeft(run[t])]_vars
  BY StepAdvances
<1> QED BY <1>1, <1>2, PTL DEF Spec, Safe, Advances
=============================================================================
