------------------------ MODULE RailwayClient_proofs ------------------------
(***************************************************************************)
(* The Railway client's properties for every budget, retry policy and set  *)
(* of replies.                                                             *)
(***************************************************************************)
EXTENDS RailwayClient, TLAPS

(* What an attempt leaves of the budget is no less than nothing, backoff   *)
(* included.                                                               *)
LEMMA ClippedBackoff ==
  ASSUME NEW took \in 0 .. left, left \in Nat, call \in Calls
  PROVE  /\ left - took \in Nat
         /\ (left - took) - ClipBackoff(left - took) \in Nat
<1>1. call.attempt \in 0 .. MaxRetries
  BY DEF Calls
<1>2. BackoffFor(call.attempt) \in Nat
  BY <1>1, ClientAssumption
<1>3. left - took \in Nat
  OBVIOUS
<1> DEFINE backoff == BackoffFor(call.attempt)
           rest == left - took
<1>4. backoff \in Nat /\ rest \in Nat
  BY <1>2, <1>3
<1>5. ClipBackoff(rest) = IF backoff < rest THEN backoff ELSE rest
  BY DEF ClipBackoff
<1> HIDE DEF backoff, rest
<1>6. rest - ClipBackoff(rest) \in Nat
  BY <1>4, <1>5
<1>. QED
  BY <1>3, <1>6 DEF rest

(* The shape of a call that begins and of one that ends.                   *)
LEMMA CallShapes ==
  ASSUME call \in Calls
  PROVE  /\ \A op \in {"read", "restart"} : Fresh(op) \in Calls
         /\ \A e \in RailwayErrors \cup {None}, ok \in BOOLEAN :
              [call EXCEPT !.pc = "returned", !.error = e, !.ok = ok] \in Calls
<1>1. 0 \in 0 .. MaxRetries
  BY ClientAssumption
<1>. QED
  BY <1>1 DEF Calls, Fresh

(* What an attempt that reaches Railway adds to what Railway saw, by the   *)
(* kind of call it belongs to.                                             *)
LEMMA SentOnce ==
  ASSUME ClientInv, NEW took, NEW rejected \in {0, 1}, NEW restarted \in {0, 1},
         Sent(took, rejected, restarted)
  PROVE  /\ railway' \in Railway
         /\ railway'.requests = call.attempt + 1
         /\ railway'.rejected = rejected
         /\ railway'.restarts = railway.restarts + restarted
         /\ call.op = "read" => restarted = 0 /\ railway.restarts = 0
         /\ call.op = "restart" => /\ railway'.requests = 1
                                   /\ railway.restarts = 0
         /\ railway'.requests <= MaxRetries + 1
         /\ took \in 0 .. left /\ left > 0 /\ left \in Nat
         /\ call.pc = "attempt" /\ call \in Calls /\ ~call.ok
<1>1. /\ call \in Calls /\ railway \in Railway /\ left \in Nat
      /\ call.pc = "attempt" /\ ~call.ok
      /\ railway.requests = call.attempt
      /\ call.op = "restart" => call.attempt = 0
  BY DEF ClientInv, TypeOK, Sent
<1>2. railway.rejected = 0
  <2>1. railway.rejected \in Nat /\ ~(railway.rejected > 0)
    BY <1>1 DEF ClientInv, AttemptsBounded, Railway
  <2>. QED
    BY <2>1
<1>3. call.attempt \in 0 .. MaxRetries /\ call.op \in {"read", "restart"}
  BY <1>1 DEF Calls
<1>4. railway.restarts \in Nat /\ railway.restarts <= 0
  <2>1. CASE call.op = "restart"
    BY <1>1, <2>1 DEF ClientInv, Railway
  <2>2. CASE call.op = "read"
    BY <1>1, <2>2 DEF ClientInv, Railway
  <2>. QED
    BY <2>1, <2>2, <1>3
<1>5. railway' = [requests |-> railway.requests + 1,
                  rejected |-> railway.rejected + rejected,
                  restarts |-> railway.restarts + restarted]
  BY DEF Sent
<1>6. /\ railway'.requests = call.attempt + 1
      /\ railway'.rejected = rejected
      /\ railway'.restarts = railway.restarts + restarted
  BY <1>1, <1>2, <1>5
<1>7. railway' \in Railway
  BY <1>1, <1>2, <1>3, <1>4, <1>5 DEF Railway
<1>8. call.op = "read" => restarted = 0
  BY DEF Sent
<1>9. took \in 0 .. left /\ left > 0
  BY DEF Sent
<1>10. railway.restarts = 0
  BY <1>4
<1>11. railway'.requests <= MaxRetries + 1
  BY <1>3, <1>6, ClientAssumption
<1>. QED
  BY <1>1, <1>3, <1>6, <1>7, <1>8, <1>9, <1>10, <1>11

(* The invariant after a step that ends a call with an attempt.            *)
LEMMA Ending ==
  ASSUME ClientInv, NEW took, NEW rejected \in {0, 1}, NEW restarted \in {0, 1},
         Sent(took, rejected, restarted),
         left' = left - took,
         NEW e \in RailwayErrors \cup {None}, NEW ok \in BOOLEAN,
         Return(e, ok),
         ok => restarted = 1,
         read' \in Replies \cup {None},
         read' # None => Acceptable(read'),
         read # None => read' # None
  PROVE  ClientInv'
<1>1. /\ railway' \in Railway
      /\ railway'.requests = call.attempt + 1
      /\ railway'.restarts = railway.restarts + restarted
      /\ call.op = "read" => restarted = 0 /\ railway.restarts = 0
      /\ call.op = "restart" => railway'.requests = 1 /\ railway.restarts = 0
      /\ railway'.requests <= MaxRetries + 1
      /\ took \in 0 .. left /\ left \in Nat
      /\ call \in Calls
  BY SentOnce
<1>2. call' = [call EXCEPT !.pc = "returned", !.error = e, !.ok = ok]
  BY DEF Return
<1>3. call' \in Calls /\ call'.op = call.op /\ call'.pc = "returned" /\ call'.ok = ok
  BY <1>1, <1>2, CallShapes DEF Calls
<1>4. left' \in Nat
  BY <1>1
<1>5. call.op \in {"read", "restart"}
  BY <1>1 DEF Calls
<1>6. railway'.restarts = restarted
  BY <1>1, <1>5
<1>7. railway'.restarts <= IF call'.op = "restart" THEN railway'.requests ELSE 0
  BY <1>1, <1>3, <1>5, <1>6
<1>8. AttemptsBounded'
  BY <1>1, <1>3, <1>5 DEF AttemptsBounded
<1>9. call'.op = "restart" => read' # None
  BY <1>3 DEF ClientInv
<1>. QED
  BY <1>1, <1>3, <1>4, <1>6, <1>7, <1>8, <1>9 DEF ClientInv, TypeOK

(* The initial state satisfies the invariant.                              *)
LEMMA InitInv == Init => ClientInv
<1>. SUFFICES ASSUME Init PROVE ClientInv
  OBVIOUS
<1>1. 0 \in 0 .. MaxRetries
  BY ClientAssumption
<1>2. call \in Calls /\ call.op = "read" /\ call.pc = "returned" /\ ~call.ok
  BY <1>1 DEF Init, Fresh, Calls
<1>3. left \in Nat /\ read = None
  BY ClientAssumption DEF Init
<1>4. railway = [requests |-> 0, rejected |-> 0, restarts |-> 0]
  BY DEF Init, Untouched
<1>5. AttemptsBounded
  BY <1>2, <1>4, ClientAssumption DEF AttemptsBounded
<1>. QED
  BY <1>2, <1>3, <1>4, <1>5 DEF ClientInv, TypeOK, Railway

(* A call begins with nothing asked.                                       *)
LEMMA Beginning ==
  ASSUME ClientInv, NEW op \in {"read", "restart"}, Call(op),
         read' \in {None, read}, op = "restart" => read' # None
  PROVE  ClientInv'
<1>1. call \in Calls /\ left \in Nat /\ read \in Replies \cup {None}
  BY DEF ClientInv, TypeOK
<1>2. call' = Fresh(op) /\ railway' = Untouched /\ left' \in 0 .. left
  BY DEF Call
<1>3. /\ call' \in Calls /\ call'.op = op /\ call'.pc = "attempt"
      /\ ~call'.ok /\ call'.attempt = 0
  BY <1>1, <1>2, CallShapes DEF Fresh
<1>4. railway' = [requests |-> 0, rejected |-> 0, restarts |-> 0]
  BY <1>2 DEF Untouched
<1>5. left' \in Nat
  BY <1>1, <1>2
<1>6. AttemptsBounded'
  BY <1>3, <1>4, ClientAssumption DEF AttemptsBounded
<1>7. read' # None => Acceptable(read')
  <2>1. read # None => Acceptable(read)
    BY DEF ClientInv
  <2>2. CASE read' = read
    BY <2>1, <2>2
  <2>. QED
    BY <2>2
<1>. QED
  BY <1>1, <1>3, <1>4, <1>5, <1>6, <1>7 DEF ClientInv, TypeOK, Railway

(* A further attempt is one of a read, and is within the bound.            *)
LEMMA TryingAgain ==
  ASSUME ClientInv, NEW took, NEW restarted \in {0, 1},
         Sent(took, 0, restarted), Retryable, NotLast, TryAgain(took),
         UNCHANGED read
  PROVE  ClientInv'
<1>1. /\ railway' \in Railway
      /\ railway'.requests = call.attempt + 1
      /\ railway'.rejected = 0
      /\ railway'.restarts = railway.restarts + restarted
      /\ call.op = "read" => restarted = 0 /\ railway.restarts = 0
      /\ railway'.requests <= MaxRetries + 1
      /\ took \in 0 .. left /\ left \in Nat
      /\ call.pc = "attempt" /\ call \in Calls /\ ~call.ok
  BY SentOnce
<1>2. call.op = "read" /\ call.attempt < MaxRetries
  BY DEF Retryable, NotLast
<1>3. call' = [call EXCEPT !.attempt = call.attempt + 1]
  BY DEF TryAgain
<1>4. call.attempt + 1 \in 0 .. MaxRetries
  BY <1>1, <1>2, ClientAssumption DEF Calls
<1>5. /\ call' \in Calls /\ call'.op = "read" /\ call'.pc = "attempt"
      /\ ~call'.ok /\ call'.attempt = call.attempt + 1
  BY <1>1, <1>2, <1>3, <1>4 DEF Calls
<1>6. left' \in Nat
  BY <1>1, ClippedBackoff DEF TryAgain
<1>7. AttemptsBounded'
  BY <1>1, <1>5 DEF AttemptsBounded
<1>8. railway'.restarts = 0
  BY <1>1, <1>2
<1>. QED
  BY <1>1, <1>5, <1>6, <1>7, <1>8 DEF ClientInv, TypeOK

(* Every step keeps the invariant.                                         *)
LEMMA StepInv == ClientInv /\ [Next]_vars => ClientInv'
<1>. SUFFICES ASSUME ClientInv, [Next]_vars PROVE ClientInv'
  OBVIOUS
<1>0. /\ read \in Replies \cup {None}
      /\ read # None => Acceptable(read)
      /\ left \in Nat /\ call \in Calls
  BY DEF ClientInv, TypeOK
<1>1. CASE GetServiceStatus
  BY <1>1, Beginning DEF GetServiceStatus
<1>2. CASE RestartCurrentDeployment
  BY <1>2, Beginning DEF RestartCurrentDeployment
<1>3. CASE Refuse
  <2>1. /\ call' = [call EXCEPT !.pc = "returned", !.error = "timeout", !.ok = FALSE]
        /\ left' = left /\ read' = read /\ railway' = railway
        /\ call.pc = "attempt"
    BY <1>3 DEF Refuse, Return
  <2>2. "timeout" \in RailwayErrors \cup {None} /\ FALSE \in BOOLEAN
    BY DEF RailwayErrors
  <2>3. call' \in Calls
    BY <1>0, <2>1, <2>2, CallShapes
  <2>4. call'.op = call.op /\ call'.pc = "returned" /\ ~call'.ok
    BY <1>0, <2>1 DEF Calls
  <2>5. AttemptsBounded'
    BY <2>1, <2>4 DEF ClientInv, AttemptsBounded
  <2>. QED
    BY <2>1, <2>3, <2>4, <2>5 DEF ClientInv, TypeOK
<1>4. CASE AttemptFails
  <2>1. PICK took \in 0 .. left, restarted \in {0, 1}, error \in {"timeout", "http"} :
          /\ Sent(took, 0, restarted)
          /\ IF Retryable /\ NotLast THEN TryAgain(took) ELSE GiveUp(error, took)
          /\ UNCHANGED read
    BY <1>4 DEF AttemptFails
  <2>2. CASE Retryable /\ NotLast
    BY <2>1, <2>2, TryingAgain
  <2>3. CASE ~(Retryable /\ NotLast)
    <3>1. Return(error, FALSE) /\ left' = left - took
      BY <2>1, <2>3 DEF GiveUp
    <3>2. error \in RailwayErrors \cup {None}
      BY <2>1 DEF RailwayErrors
    <3>. QED
      BY <1>0, <2>1, <3>1, <3>2, Ending
  <2>. QED
    BY <2>2, <2>3
<1>5. CASE TokenRejected
  <2>1. PICK took \in 0 .. left :
          Sent(took, 1, 0) /\ GiveUp("auth", took) /\ UNCHANGED read
    BY <1>5 DEF TokenRejected
  <2>2. Return("auth", FALSE) /\ left' = left - took
    BY <2>1 DEF GiveUp
  <2>3. "auth" \in RailwayErrors \cup {None}
    BY DEF RailwayErrors
  <2>. QED
    BY <1>0, <2>1, <2>2, <2>3, Ending
<1>6. CASE AnswerUseless
  <2>1. PICK took \in 0 .. left, restarted \in {0, 1},
             error \in {"http", "graphql", "crash"} :
          Sent(took, 0, restarted) /\ GiveUp(error, took) /\ UNCHANGED read
    BY <1>6 DEF AnswerUseless
  <2>2. Return(error, FALSE) /\ left' = left - took
    BY <2>1 DEF GiveUp
  <2>3. error \in RailwayErrors \cup {None}
    BY <2>1 DEF RailwayErrors
  <2>. QED
    BY <1>0, <2>1, <2>2, <2>3, Ending
<1>7. CASE StatusAnswered
  <2>1. PICK took \in 0 .. left, r \in Replies :
          /\ Sent(took, 0, 0)
          /\ left' = left - took
          /\ IF Acceptable(r) THEN Return(None, FALSE) /\ read' = r
             ELSE Return("graphql", FALSE) /\ UNCHANGED read
    BY <1>7 DEF StatusAnswered
  <2>2. r # None
    BY ClientAssumption
  <2>3. CASE Acceptable(r)
    <3>1. Return(None, FALSE) /\ read' = r
      BY <2>1, <2>3
    <3>2. Acceptable(read')
      BY <2>3, <3>1
    <3>. QED
      BY <2>1, <2>2, <3>1, <3>2, Ending
  <2>4. CASE ~Acceptable(r)
    <3>1. Return("graphql", FALSE) /\ read' = read
      BY <2>1, <2>4
    <3>2. "graphql" \in RailwayErrors \cup {None}
      BY DEF RailwayErrors
    <3>. QED
      BY <1>0, <2>1, <3>1, <3>2, Ending
  <2>. QED
    BY <2>3, <2>4
<1>8. CASE RestartAnswered
  <2>1. PICK took \in 0 .. left, answer \in {"true", "false", "missing"},
             restarted \in {0, 1} :
          /\ answer = "true" => restarted = 1
          /\ Sent(took, 0, restarted)
          /\ left' = left - took
          /\ Return(None, IsTrue(answer))
          /\ UNCHANGED read
    BY <1>8 DEF RestartAnswered
  <2>2. IsTrue(answer) \in BOOLEAN /\ (IsTrue(answer) => restarted = 1)
    BY <2>1 DEF IsTrue
  <2>. QED
    BY <1>0, <2>1, <2>2, Ending
<1>9. CASE UNCHANGED vars
  <2>1. left' = left /\ call' = call /\ read' = read /\ railway' = railway
    BY <1>9 DEF vars
  <2>. QED
    BY <2>1 DEF ClientInv, TypeOK, AttemptsBounded
<1>. QED
  BY <1>1, <1>2, <1>3, <1>4, <1>5, <1>6, <1>7, <1>8, <1>9 DEF Next, ClientStep

-----------------------------------------------------------------------------
(* The inductive invariant: each attempt was one request, a restart's is   *)
(* its first, and the caller holds an acceptable reply or none.            *)
THEOREM Invariant == Spec => []ClientInv
<1>1. Init => ClientInv
  BY InitInv
<1>2. ClientInv /\ [Next]_vars => ClientInv'
  BY StepInv
<1>. QED
  BY <1>1, <1>2, PTL DEF Spec

(* The variables keep their types; what is left of the budget is never     *)
(* negative.                                                               *)
THEOREM TypeCorrect == Spec => []TypeOK
<1>1. ClientInv => TypeOK
  BY DEF ClientInv
<1>. QED
  BY <1>1, Invariant, PTL

(* A restart is requested once per call, a read once per retry, and after  *)
(* a rejected token nothing, for every retry policy.                       *)
THEOREM AttemptsAreBounded == Spec => []AttemptsBounded
<1>1. ClientInv => AttemptsBounded
  BY DEF ClientInv
<1>. QED
  BY <1>1, Invariant, PTL

(* True is returned only for a restart that was carried out, and no call   *)
(* restarts twice.                                                         *)
THEOREM RestartsAreTruthful == Spec => []RestartTruthful
<1>1. ClientInv => RestartTruthful
  <2>. SUFFICES ASSUME ClientInv PROVE RestartTruthful
    OBVIOUS
  <2>1. railway.restarts \in Nat /\ railway.requests \in Nat
    BY DEF ClientInv, TypeOK, Railway
  <2>2. railway.restarts <= 1
    BY <2>1 DEF ClientInv, AttemptsBounded
  <2>. QED
    BY <2>2 DEF ClientInv, RestartTruthful
<1>. QED
  BY <1>1, Invariant, PTL

(* Only a deployment of the configured service is ever restarted.          *)
THEOREM OnlyOwnRestarts == Spec => []RestartsOwn
<1>1. ClientInv => RestartsOwn
  <2>. SUFFICES ASSUME ClientInv, railway.restarts > 0 PROVE read.mismatch = {}
    BY DEF RestartsOwn
  <2>1. call.op = "restart"
    BY DEF ClientInv, TypeOK, Railway
  <2>. QED
    BY <2>1 DEF ClientInv, Acceptable
<1>. QED
  BY <1>1, Invariant, PTL

(* A service counts as running only if an instance of its active           *)
(* deployment was listed as running, for every reply.                      *)
THEOREM OnlySeenRuns == Spec => []RunningIsSeen
<1>1. RunningIsSeen
  <2>. SUFFICES ASSUME read # None, ContainerRunning(ParseStatus(read))
                PROVE  /\ \E i \in read.active[1].instances : i \in {"RUNNING", "HEALTHY"}
                       /\ ~read.active[1].stopped
    BY DEF RunningIsSeen
  <2>1. /\ ParseStatus(read).stopped = (read.active # <<>> /\ read.active[1].stopped)
        /\ ParseStatus(read).instance_running = InstanceRunning(read)
    BY DEF ParseStatus
  <2>2. InstanceRunning(read) /\ ~(read.active # <<>> /\ read.active[1].stopped)
    BY <2>1 DEF ContainerRunning
  <2>. QED
    BY <2>2 DEF InstanceRunning
<1>. QED
  BY <1>1, PTL

(* No attempt begins without budget, and none, nor the wait after it, ends *)
(* beyond it.                                                              *)
THEOREM BudgetIsKept == Spec => BudgetKept
<1>1. ClientInv /\ ClientInv' /\ [Next]_vars =>
        [left' >= 0 /\ (railway'.requests > railway.requests => left > 0)]_vars
  <2>. SUFFICES ASSUME ClientInv, ClientInv', Next
                PROVE  left' >= 0 /\ (railway'.requests > railway.requests => left > 0)
    OBVIOUS
  <2>1. left' >= 0
    BY DEF ClientInv, TypeOK
  <2>2. railway.requests \in Nat
    BY DEF ClientInv, TypeOK, Railway
  <2>3. CASE GetServiceStatus \/ RestartCurrentDeployment
    <3>1. railway'.requests = 0
      BY <2>3 DEF GetServiceStatus, RestartCurrentDeployment, Call, Untouched
    <3>. QED
      BY <2>1, <2>2, <3>1
  <2>4. CASE Refuse
    BY <2>1, <2>2, <2>4 DEF Refuse
  <2>5. CASE AttemptFails \/ TokenRejected \/ AnswerUseless
               \/ StatusAnswered \/ RestartAnswered
    <3>1. left > 0
      BY <2>5 DEF AttemptFails, TokenRejected, AnswerUseless, StatusAnswered,
                  RestartAnswered, Sent
    <3>. QED
      BY <2>1, <3>1
  <2>. QED
    BY <2>3, <2>4, <2>5 DEF Next, ClientStep
<1>. QED
  BY <1>1, Invariant, PTL DEF Spec, BudgetKept

(* A reply whose timestamps have zones is parsed to a status that Recovery *)
(* may be given, whatever else it says or leaves out.                      *)
LEMMA ZonedIsComparable ==
  ASSUME NEW r \in Reply, HasZones(r)
  PROVE  ParseStatus(r) \in ServiceStatus
<1>1. ASSUME NEW raw \in RawTime, raw # None => raw.form # "zoneless"
      PROVE  ParseDt(raw) \in Age
  BY <1>1 DEF ParseDt, RawTime, Age
<1>2. r.latest \in RawDeployment \cup {None} /\ r.active \in Seq(RawDeployment)
  BY DEF Reply
<1>3. r.active # <<>> => r.active[1] \in RawDeployment
  BY <1>2
<1>4. ActiveId(r) \in Deployments \cup {None}
  BY <1>3 DEF ActiveId, RawDeployment
<1>5. ParseStatus(r).restartable_deployment_id \in Deployments \cup {None}
  BY <1>2, <1>4 DEF ParseStatus, RawDeployment
<1>6. ParseStatus(r).latest_status \in DeploymentStatus
  BY DEF ParseStatus, ParseDeploymentStatus, DeploymentStatus
<1>7. ParseStatus(r).latest_created_at \in Age
  <2>1. CASE r.latest = None
    BY <2>1 DEF ParseStatus, Age
  <2>2. CASE r.latest # None
    <3>1. r.latest.created \in RawTime
      BY <1>2, <2>2 DEF RawDeployment
    <3>. QED
      BY <1>1, <2>2, <3>1 DEF ParseStatus, HasZones
  <2>. QED
    BY <2>1, <2>2
<1>8. ParseStatus(r).latest_updated_at \in Age
  <2>1. CASE r.latest = None
    BY <2>1 DEF ParseStatus, Age
  <2>2. CASE r.latest # None
    <3>1. r.latest.updated \in RawTime
      BY <1>2, <2>2 DEF RawDeployment
    <3>. QED
      BY <1>1, <2>2, <3>1 DEF ParseStatus, HasZones
  <2>. QED
    BY <2>1, <2>2
<1>9. ParseStatus(r).stopped \in BOOLEAN /\ ParseStatus(r).instance_running \in BOOLEAN
  BY DEF ParseStatus, InstanceRunning
<1>10. ParseStatus(r).has_active_deployment \in BOOLEAN
  BY DEF ParseStatus
<1>11. ParseStatus(r).active_deployment_id = ActiveId(r)
  BY DEF ParseStatus
<1>. DEFINE s == ParseStatus(r)
<1>12. s = [has_active_deployment |-> s.has_active_deployment,
            active_deployment_id |-> s.active_deployment_id,
            restartable_deployment_id |-> s.restartable_deployment_id,
            latest_status |-> s.latest_status,
            latest_created_at |-> s.latest_created_at,
            latest_updated_at |-> s.latest_updated_at,
            stopped |-> s.stopped,
            instance_running |-> s.instance_running]
  BY DEF ParseStatus
<1>. HIDE DEF s
<1>13. s \in ServiceStatus
  BY <1>4, <1>5, <1>6, <1>7, <1>8, <1>9, <1>10, <1>11, <1>12 DEF ServiceStatus, s
<1>. QED
  BY <1>13 DEF s

(* The status that the caller holds can be classified, if its timestamps   *)
(* have zones.                                                             *)
THEOREM StatusesAreComparable == Spec => []StatusComparable
<1>1. ClientInv => StatusComparable
  <2>. SUFFICES ASSUME ClientInv, read # None, HasZones(read)
                PROVE  ParseStatus(read) \in ServiceStatus
    BY DEF StatusComparable
  <2>1. read \in Reply
    BY ClientAssumption DEF ClientInv, TypeOK
  <2>. QED
    BY <2>1, ZonedIsComparable
<1>. QED
  BY <1>1, Invariant, PTL
=============================================================================
