---------------------------- MODULE RailwayClient ----------------------------
(***************************************************************************)
(* The Railway client of src/watchdog/railway.py, attempt by attempt: the  *)
(* status read with its retries and the restart mutation without, under    *)
(* what is left of the caller's budget (src/watchdog/http.py).             *)
(*                                                                         *)
(* A step is one attempt, its answer and the backoff that follows it.      *)
(* Time is what is left of the budget: an attempt takes any time up to     *)
(* that, because wait_for cuts it off.  Railway is free to answer anything.*)
(***************************************************************************)
EXTENDS RailwayReply

CONSTANTS
  Budget,       \* the caller's time budget
  MaxRetries,   \* RetryPolicy.max_retries
  BackoffBase,  \* RetryPolicy.backoff_base
  Replies       \* the data Railway may answer a status query with

BackoffFor(attempt) == BackoffBase * 2 ^ attempt

ASSUME ClientAssumption ==
  /\ Budget \in Nat
  /\ MaxRetries \in Nat
  /\ \A attempt \in 0 .. MaxRetries : BackoffFor(attempt) \in Nat
  /\ Replies \subseteq Reply
  /\ None \notin Replies
  /\ None \notin BOOLEAN

VARIABLES
  left,    \* deadline.remaining()
  call,    \* the call in progress, or how the last one ended
  read,    \* the reply whose status the caller holds, None if it holds none
  railway  \* history of this call: what Railway saw and did

vars == <<left, call, read, railway>>

RailwayErrors == {"auth", "http", "timeout", "graphql", "crash"}

Calls ==
  [op      : {"read", "restart"},
   pc      : {"attempt", "returned"},
   attempt : 0 .. MaxRetries,
   error   : RailwayErrors \cup {None},
   ok      : BOOLEAN]  \* restart_current_deployment returned True

Railway == [requests : Nat, rejected : Nat, restarts : Nat]

TypeOK ==
  /\ left \in Nat
  /\ call \in Calls
  /\ read \in Replies \cup {None}
  /\ railway \in Railway

Fresh(op) ==
  [op |-> op, pc |-> "attempt", attempt |-> 0, error |-> None, ok |-> FALSE]

Untouched == [requests |-> 0, rejected |-> 0, restarts |-> 0]

Init ==
  /\ left = Budget
  /\ call = [Fresh("read") EXCEPT !.pc = "returned"]
  /\ read = None
  /\ railway = Untouched

-----------------------------------------------------------------------------
(* The caller: time passes between two calls, and a deployment is restarted*)
(* on the status just read.                                                *)

Call(op) ==
  /\ call.pc = "returned"
  /\ left' \in 0 .. left
  /\ call' = Fresh(op)
  /\ railway' = Untouched

GetServiceStatus == Call("read") /\ read' = None

RestartCurrentDeployment ==
  /\ read # None
  /\ ParseStatus(read).restartable_deployment_id # None
  /\ Call("restart")
  /\ UNCHANGED read

-----------------------------------------------------------------------------
(* _post: an attempt, and what follows it.                                 *)

Return(error, ok) ==
  call' = [call EXCEPT !.pc = "returned", !.error = error, !.ok = ok]

(* Mutant: the restart is retried like a read.                             *)
RetriesAnything == TRUE

Retryable == call.op = "read"

NotLast == call.attempt < MaxRetries

(* Mutant: the backoff is not clipped to the budget.                       *)
FullBackoff(rest) == BackoffFor(call.attempt)

ClipBackoff(rest) ==
  IF BackoffFor(call.attempt) < rest THEN BackoffFor(call.attempt) ELSE rest

TryAgain(took) ==
  /\ call' = [call EXCEPT !.attempt = call.attempt + 1]
  /\ left' = (left - took) - ClipBackoff(left - took)

GiveUp(error, took) == Return(error, FALSE) /\ left' = left - took

(* An attempt reaches Railway; restarted says whether it acts on it.       *)
Sent(took, rejected, restarted) ==
  /\ call.pc = "attempt"
  /\ left > 0
  /\ took \in 0 .. left
  /\ restarted \in IF call.op = "restart" THEN {0, 1} ELSE {0}
  /\ railway' = [requests |-> railway.requests + 1,
                 rejected |-> railway.rejected + rejected,
                 restarts |-> railway.restarts + restarted]

(* "railway budget exhausted", before an attempt.                          *)
Refuse ==
  /\ call.pc = "attempt"
  /\ left = 0
  /\ Return("timeout", FALSE)
  /\ UNCHANGED <<left, read, railway>>

(* A timeout, a transport error, or one of retry_statuses.                 *)
AttemptFails ==
  \E took \in 0 .. left, restarted \in {0, 1}, error \in {"timeout", "http"} :
    /\ Sent(took, 0, restarted)
    /\ IF Retryable /\ NotLast THEN TryAgain(took) ELSE GiveUp(error, took)
    /\ UNCHANGED read

TokenRejected ==
  \E took \in 0 .. left :
    /\ Sent(took, 1, 0)
    /\ GiveUp("auth", took)
    /\ UNCHANGED read

(* Another status of 400 and more, a body _decode does not take, or an     *)
(* exception _post does not catch.                                         *)
AnswerUseless ==
  \E took \in 0 .. left, restarted \in {0, 1},
     error \in {"http", "graphql", "crash"} :
    /\ Sent(took, 0, restarted)
    /\ GiveUp(error, took)
    /\ UNCHANGED read

StatusAnswered ==
  /\ call.op = "read"
  /\ \E took \in 0 .. left, r \in Replies :
       /\ Sent(took, 0, 0)
       /\ left' = left - took
       /\ IF Acceptable(r) THEN Return(None, FALSE) /\ read' = r
          ELSE Return("graphql", FALSE) /\ UNCHANGED read

(* Mutant: any data is a success.                                          *)
AnyDataIsTrue(answer) == TRUE

(* "Only an explicit true counts as a successful mutation."                *)
IsTrue(answer) == answer = "true"

(* Railway's boolean says what it did; one that is missing says nothing.   *)
RestartAnswered ==
  /\ call.op = "restart"
  /\ \E took \in 0 .. left, answer \in {"true", "false", "missing"},
        restarted \in {0, 1} :
       /\ answer = "true" => restarted = 1
       /\ answer = "false" => restarted = 0
       /\ Sent(took, 0, restarted)
       /\ left' = left - took
       /\ Return(None, IsTrue(answer))
  /\ UNCHANGED read

-----------------------------------------------------------------------------
ClientStep ==
  \/ Refuse \/ AttemptFails \/ TokenRejected \/ AnswerUseless
  \/ StatusAnswered \/ RestartAnswered

Next == GetServiceStatus \/ RestartCurrentDeployment \/ ClientStep

Spec == Init /\ [][Next]_vars

-----------------------------------------------------------------------------
(* Properties.                                                             *)

(* "Only idempotent reads are retried; the restart mutation is attempted   *)
(* once": in one call Railway sees at most one restart, a bounded number   *)
(* of reads, and never another request after it rejected the token.        *)
AttemptsBounded ==
  /\ railway.requests <= IF call.op = "restart" THEN 1 ELSE MaxRetries + 1
  /\ railway.rejected > 0 => call.pc = "returned"

(* "Every sleep, poll, request, and mutation is bounded by the remaining   *)
(* budget, and no operation starts after it expires", retries included.    *)
BudgetKept ==
  [][/\ left' >= 0
     /\ railway'.requests > railway.requests => left > 0]_vars

(* A restart that is reported as successful was carried out, and a call    *)
(* that fails has restarted the deployment at most once.                   *)
RestartTruthful ==
  /\ railway.restarts <= 1
  /\ call.ok => railway.restarts = 1

(* A deployment is restarted only if a reply proved that it belongs to the *)
(* configured service, project and environment ("proves ownership          *)
(* relationally [...] before any restartable deployment id is accepted").  *)
RestartsOwn == railway.restarts > 0 => read.mismatch = {}

(* A service is taken to run only if Railway listed an instance of its     *)
(* active deployment as running and did not list the deployment as         *)
(* stopped: nothing else that a reply may say or leave out stands in.      *)
RunningIsSeen ==
  read # None /\ ContainerRunning(ParseStatus(read)) =>
    /\ \E i \in read.active[1].instances : i \in {"RUNNING", "HEALTHY"}
    /\ ~read.active[1].stopped

(* The inductive invariant behind them: while a call is in progress, every *)
(* attempt but the one to come has been a request, a restart has its first *)
(* attempt, and the caller holds an acceptable reply or none.              *)
ClientInv ==
  /\ TypeOK
  /\ read # None => Acceptable(read)
  /\ call.op = "restart" => read # None
  /\ railway.restarts <= IF call.op = "restart" THEN railway.requests ELSE 0
  /\ call.ok => railway.restarts = 1
  /\ AttemptsBounded
  /\ call.pc = "attempt" =>
       /\ ~call.ok
       /\ railway.requests = call.attempt
       /\ call.op = "restart" => call.attempt = 0

(* classify is "a pure function that maps a Railway ServiceStatus and a    *)
(* Hermes health probe to one of four broad classifications": whatever     *)
(* else Railway says or leaves out, what the caller holds can be judged.   *)
(* (Without a zone it cannot: classify raises TypeError on the difference  *)
(* to its own clock.)                                                      *)
HasZones(r) ==
  \A time \in IF r.latest = None THEN {} ELSE {r.latest.created, r.latest.updated} :
    time # None => time.form # "zoneless"

StatusComparable ==
  read # None /\ HasZones(read) => ParseStatus(read) \in ServiceStatus
=============================================================================
