-------------------------- MODULE WatchdogInvariant --------------------------
(***************************************************************************)
(* The inductive invariant of Watchdog: what TLC checks on an instance and *)
(* Watchdog_proofs proves in general.                                      *)
(***************************************************************************)
EXTENDS Watchdog

C == INSTANCE NotifierInvariant

(* A job finds valid settings, an invalid one never runs.                  *)
OnlyValidRuns ==
  ~env.valid => job.pc = "none" /\ job.exit # 0 /\ job.age = 0

(* Only a job that reports has anything to do with the notifier, and what  *)
(* it reports is what the threads have found.                              *)
ReportsFindings ==
  /\ job.pc # "notify" => result = None /\ queue = <<>> /\ todo = <<>>
  /\ job.pc = "notify" => result = found /\ env.mail /\ ~env.dryRun

(* The threads are started in the order of the targets, and none is older  *)
(* than its job.                                                           *)
StartedInOrder ==
  \A t \in Targets :
    /\ thread[t].age <= job.age
    /\ thread[t].pc = "queued" =>
         /\ thread[t].age = 0
         /\ \A u \in Targets : t < u => thread[u].pc = "queued"

(* How many budgets may be used up before a target's thread is started.    *)
Round(t) == (t - 1) \div Concurrency

(* The thread is started, or will be, at the end of its round.             *)
OnTime(t) ==
  /\ thread[t].pc = "queued" => job.age <= Round(t) * Budget
  /\ t \in Busy => job.age <= Round(t) * Budget + thread[t].age

(* While nobody has outlasted a budget, the rounds take a budget each.     *)
Punctual ==
  TargetInBudget =>
    /\ job.age <= Rounds * Budget
    /\ job.pc = "recover" => \A t \in Targets : OnTime(t)

(* Without a web UI to be checked nobody does.                             *)
OnlyWebuiOutlasts ==
  ~Webui => TargetInBudget /\ \A t \in Targets : thread[t].pc # "webui"

WInv ==
  /\ TypeOK
  /\ C!CInv
  /\ OnlyValidRuns
  /\ ReportsFindings
  /\ StartedInOrder
  /\ Punctual
  /\ OnlyWebuiOutlasts
  /\ ExitHonest
=============================================================================
