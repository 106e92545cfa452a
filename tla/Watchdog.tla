------------------------------ MODULE Watchdog ------------------------------
(***************************************************************************)
(* The whole watchdog in time: the schedule and the job of                 *)
(* .github/workflows/watchdog.yml, main() of src/watchdog/cli.py, the      *)
(* thread pool of Orchestrator.run with each target's budget, and the      *)
(* notifications (the steps of Notifier) that follow.                      *)
(*                                                                         *)
(* Time is counted in periods of the schedule.  A recovery may take any    *)
(* time up to its budget, and what it does in it is left to Recovery and   *)
(* SelfHosted; notifications take no time.  Time does not pass while       *)
(* somebody has to act at once.                                            *)
(***************************************************************************)
EXTENDS Naturals, Sequences, FiniteSets

CONSTANTS
  None, NumTargets, HOST_ALIAS, SelfHosted, Conditions, MaxFaults, \* of Notifier
  Concurrency,  \* the cap on worker threads
  Budget,       \* per_target_deadline
  JobLimit,     \* timeout-minutes
  Webui         \* the targets have a web UI to be checked

VARIABLES
  env,      \* the flags and secrets main() finds
  pending,  \* a scheduled run waits for the concurrency group
  job,      \* the job that runs, or how the last one ended
  thread,   \* each target's thread
  found,    \* each target's outcome, None until it is built
  marker, result, queue, todo, faults, told, alerted \* of Notifier

N == INSTANCE Notifier

Targets == 1 .. NumTargets

ASSUME WatchdogAssumption ==
  /\ Concurrency \in Nat \ {0}
  /\ Budget \in Nat \ {0}
  /\ JobLimit \in Nat \ {0}
  /\ Webui \in BOOLEAN
  /\ Webui => SelfHosted
  /\ N!NotifierAssumption /\ N!NoneAssumption
  /\ None \notin {0, 1, 2}

notifyVars == <<marker, result, queue, todo, faults, told, alerted>>
vars == <<env, pending, job, thread, found, notifyVars>>

Env == [valid : BOOLEAN, dryRun : BOOLEAN, mail : BOOLEAN]

(* exit is the exit status of main(); "traceback" stands for an exception  *)
(* that leaves it, "killed" for a job cut off by its time limit, "cut" for *)
(* one cut off otherwise.                                                  *)
Jobs ==
  [pc   : {"none", "recover", "notify"},
   age  : 0 .. JobLimit,
   exit : {0, 1, 2} \cup {None}, how : {"returned", "traceback", "killed", "cut"}]

Threads ==
  [pc : {"queued", "working", "webui", "done"}, age : 0 .. JobLimit,
   mutated : BOOLEAN]  \* it has requested a restart

TypeOK ==
  /\ env \in Env
  /\ pending \in BOOLEAN
  /\ job \in Jobs
  /\ thread \in [Targets -> Threads]
  /\ found \in [Targets -> N!Outcomes \cup {None}]
  /\ N!TypeOK

Queued == [t \in Targets |-> [pc |-> "queued", age |-> 0, mutated |-> FALSE]]

Init ==
  /\ env \in Env
  /\ pending = TRUE
  /\ job = [pc |-> "none", age |-> 0, exit |-> None, how |-> "returned"]
  /\ thread = Queued
  /\ found = [t \in Targets |-> None]
  /\ N!Init

-----------------------------------------------------------------------------
(* The job.                                                                *)

Ended(exit, how) ==
  job' = [job EXCEPT !.pc = "none", !.exit = exit, !.how = how]

(* main() up to orchestrator.run: a ConfigError ends it with 2.            *)
Launch ==
  /\ job.pc = "none" /\ pending
  /\ pending' = FALSE
  /\ IF env.valid
       THEN job' = [pc |-> "recover", age |-> 0, exit |-> None, how |-> "returned"]
       ELSE Ended(2, "returned")
  /\ thread' = Queued
  /\ found' = [t \in Targets |-> None]
  /\ UNCHANGED <<env, notifyVars>>

(* "timeout-minutes": the runner kills the job, its threads with it.       *)
Kill ==
  /\ job.pc = "recover" /\ job.age = JobLimit
  /\ Ended(None, "killed")
  /\ UNCHANGED <<env, pending, thread, found, notifyVars>>

-----------------------------------------------------------------------------
(* The thread pool.                                                        *)

Busy == {t \in Targets : thread[t].pc \in {"working", "webui"}}

(* Mutant: the pool has a worker less.                                     *)
OneWorkerIdle(t) ==
  /\ thread[t].pc = "queued"
  /\ \A u \in Targets : u < t => thread[u].pc # "queued"
  /\ Cardinality(Busy) < IF Concurrency = 1 THEN 1 ELSE Concurrency - 1

MayStart(t) ==
  /\ thread[t].pc = "queued"
  /\ \A u \in Targets : u < t => thread[u].pc # "queued"
  /\ Cardinality(Busy) < Concurrency

Start(t) ==
  /\ job.pc = "recover"
  /\ MayStart(t)
  /\ thread' = [thread EXCEPT ![t].pc = "working"]
  /\ UNCHANGED <<env, pending, job, found, notifyVars>>

Mutate(t) ==
  /\ job.pc = "recover" /\ ~env.dryRun
  /\ thread[t].pc = "working" /\ ~thread[t].mutated
  /\ thread[t].age < Budget
  /\ thread' = [thread EXCEPT ![t].mutated = TRUE]
  /\ UNCHANGED <<env, pending, job, found, notifyVars>>

(* check_webui is refused without budget, but its timeouts bound only each *)
(* phase of the request, so that it may outlast the budget.                *)
CheckWebui(t) ==
  /\ job.pc = "recover" /\ Webui
  /\ thread[t].pc = "working" /\ thread[t].age < Budget
  /\ thread' = [thread EXCEPT ![t].pc = "webui"]
  /\ UNCHANGED <<env, pending, job, found, notifyVars>>

Finish(t) ==
  /\ job.pc = "recover"
  /\ t \in Busy
  /\ \E o \in N!Outcomes :
       /\ o.acted => thread[t].mutated
       /\ found' = [found EXCEPT ![t] = o]
  /\ thread' = [thread EXCEPT ![t].pc = "done"]
  /\ UNCHANGED <<env, pending, job, notifyVars>>

-----------------------------------------------------------------------------
(* main() after orchestrator.run.                                          *)

AllDone == \A t \in Targets : thread[t].pc = "done"

Good(o) == o.recovered \/ o.deferred

(* RunResult.exit_code                                                     *)
ExitCode == IF \A t \in Targets : Good(found[t]) THEN 0 ELSE 1

Notable(o) == N!IsRecovery(o) \/ N!IsFailure(o)

(* A dry run does not notify; without credentials there is only a degraded *)
(* report, which fails the run if there was something to say.              *)
ReportNobody ==
  /\ job.pc = "recover" /\ AllDone
  /\ env.dryRun \/ ~env.mail
  /\ Ended(IF ~env.dryRun /\ \E t \in Targets : Notable(found[t])
             THEN 1 ELSE ExitCode, "returned")
  /\ UNCHANGED <<env, pending, thread, found, notifyVars>>

HandOver ==
  /\ job.pc = "recover" /\ AllDone
  /\ ~env.dryRun /\ env.mail
  /\ result' = found
  /\ N!Begin
  /\ job' = [job EXCEPT !.pc = "notify"]
  /\ UNCHANGED <<env, pending, thread, found>>

Notify ==
  /\ job.pc = "notify"
  /\ N!TakeTarget \/ N!TakeHost \/ N!Call
  /\ UNCHANGED <<env, pending, job, thread, found>>

Return ==
  /\ job.pc = "notify"
  /\ N!End
  /\ Ended(ExitCode, "returned")
  /\ UNCHANGED <<env, pending, thread, found>>

(* Mutant: a failed notification leaves the exit code as it was.           *)
CodeAsItWas == ExitCode

(* max(exit_code, 1)                                                       *)
FailedCode == 1

NotificationFails ==
  /\ job.pc = "notify"
  /\ N!Abort \/ N!AbortInDoubt
  /\ Ended(FailedCode, "returned")
  /\ UNCHANGED <<env, pending, thread, found>>

(* A listing whose "messages" is null: no NotificationError but a TypeError*)
ListingCrashes ==
  /\ job.pc = "notify" /\ todo = <<>>
  /\ N!Abort
  /\ Ended(1, "traceback")
  /\ UNCHANGED <<env, pending, thread, found>>

(* The runner dies between two calls.                                      *)
CutOff ==
  /\ job.pc = "notify"
  /\ N!Abort \/ N!AbortInDoubt
  /\ Ended(None, "cut")
  /\ UNCHANGED <<env, pending, thread, found>>

-----------------------------------------------------------------------------
(* Time.                                                                   *)

(* No recovery is out of budget.                                           *)
NobodyOutOfBudget ==
  \A t \in Targets : thread[t].pc = "working" => thread[t].age < Budget

(* Mutant: the time limit is enforced a period late.                       *)
LatePeriod == job.age <= JobLimit

WithinLimit == job.age < JobLimit

(* A period passes and the schedule fires: one run at most is pending.     *)
Tick ==
  /\ \/ job.pc = "none"
     \/ /\ job.pc = "recover" /\ WithinLimit
        /\ ~AllDone
        /\ \A t \in Targets : ~MayStart(t)
        /\ NobodyOutOfBudget
  /\ job' = IF job.pc = "recover" THEN [job EXCEPT !.age = @ + 1] ELSE job
  /\ thread' = [t \in Targets |->
                  IF job.pc = "recover" /\ t \in Busy
                    THEN [thread[t] EXCEPT !.age = @ + 1] ELSE thread[t]]
  /\ pending' = TRUE
  /\ UNCHANGED <<env, found, notifyVars>>

-----------------------------------------------------------------------------
Pool == \E t \in Targets : Start(t) \/ Finish(t)

Progress == Launch \/ Pool \/ ReportNobody \/ HandOver \/ Notify \/ Return

Next ==
  \/ Progress \/ Tick \/ Kill
  \/ \E t \in Targets : Mutate(t) \/ CheckWebui(t)
  \/ NotificationFails \/ ListingCrashes \/ CutOff

(* The schedule fires, a pending run is started, the runner enforces its   *)
(* time limit, and what may begin or end at once does not wait for ever.   *)
Spec ==
  /\ Init /\ [][Next]_vars
  /\ WF_vars(Tick) /\ WF_vars(Launch) /\ WF_vars(Pool \/ Kill)
  /\ WF_vars(ReportNobody \/ HandOver \/ Notify \/ Return)

-----------------------------------------------------------------------------
(* Properties.                                                             *)

(* A green run is good news that is complete: every target recovered or    *)
(* was deferred, and no incident of a recovered target is left to suppress *)
(* its next one.  Whatever failed, the exit status is not 0.               *)
ExitHonest ==
  job.pc = "none" /\ job.exit = 0 =>
    \A t \in Targets :
      /\ Good(found[t])
      /\ env.mail /\ ~env.dryRun /\ found[t].recovered => marker[t] = None

(* NOT guaranteed where a web UI is checked, which may outlast the budget. *)
(* "Each target has an absolute recovery budget; every sleep, poll,        *)
(* request, and mutation is bounded by the remaining budget."              *)
TargetInBudget == \A t \in Targets : thread[t].age <= Budget

(* The run is over once its rounds of budgets are: ceil(targets / workers) *)
(* of them, unless a web UI check outlasts its budget.                     *)
Rounds == (NumTargets + Concurrency - 1) \div Concurrency
RunBounded == (Webui => TargetInBudget) => job.age <= Rounds * Budget

(* A target that every run finds failing, from some run on, is reported.   *)
(* With mail credentials nobody has to look at the workflow's log.         *)
Fails(t) == N!IsFailure(found[t])
Alerted(t) == \E k \in {t, HOST_ALIAS} : told[k] \in N!Fingerprints

OutageReported ==
  env.valid /\ env.mail /\ ~env.dryRun =>
    \A t \in Targets :
      <>[](found[t] # None => Fails(t)) => []<>Alerted(t)

(* NOT guaranteed.  "A mid-recovery cancellation could leave a service     *)
(* half-restarted": no job is killed while a target whose restart was      *)
(* requested is being recovered.                                           *)
NotHalfRestarted ==
  job.how = "killed" =>
    \A t \in Targets : thread[t].mutated => thread[t].pc = "done"

(* NOT guaranteed.  "Never surface a public traceback with notification    *)
(* internals."                                                             *)
NoTraceback == job.how # "traceback"
=============================================================================
