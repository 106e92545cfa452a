--------------------------- MODULE Watchdog_proofs ---------------------------
(***************************************************************************)
(* Theorems about Watchdog, for every number of targets and workers, every *)
(* budget and time limit, and both modes.  What a run does to the markers  *)
(* is taken from the proofs about Notifier.                                *)
(***************************************************************************)
EXTENDS WatchdogInvariant, FiniteSetTheorems, WellFoundedInduction, TLAPS

NP == INSTANCE NotifierConvergence_proofs

-----------------------------------------------------------------------------
(* The notifier's steps and invariant are those its proofs are about.      *)

LEMMA NotifierFacts == NP!NotifierAssumption /\ NP!NoneAssumption
  BY WatchdogAssumption
  DEF N!NotifierAssumption, N!NoneAssumption, N!Targets, N!Outcomes, N!Outcome,
      NP!NotifierAssumption, NP!NoneAssumption, NP!Targets, NP!Outcomes, NP!Outcome

LEMMA BeginIsBegin == N!Begin => NP!Begin
  BY DEF N!Begin, N!Reporting, N!Targets, N!Outcomes, N!Outcome,
         NP!Begin, NP!Reporting, NP!Targets, NP!Outcomes, NP!Outcome

LEMMA TakeTargetIsTakeTarget == N!TakeTarget => NP!TakeTarget
  BY DEF N!TakeTarget, N!Targets, N!IsRecovery, N!Recovery, N!IsFailure, N!Alert,
         N!Fingerprint, N!IsPassiveHealthy, N!Resolve, N!IsActive, N!Mail, N!Marker,
         N!Incident,
         NP!TakeTarget, NP!Targets, NP!IsRecovery, NP!Recovery, NP!IsFailure, NP!Alert,
         NP!Fingerprint, NP!IsPassiveHealthy, NP!Resolve, NP!IsActive, NP!Mail,
         NP!Marker, NP!Incident

LEMMA TakeHostIsTakeHost == N!TakeHost => NP!TakeHost
  BY DEF N!TakeHost, N!HostDown, N!Selected, N!Unreachable, N!Resolve, N!IsActive,
         N!Mail, N!Marker, N!Incident,
         NP!TakeHost, NP!HostDown, NP!Selected, NP!Unreachable, NP!Resolve,
         NP!IsActive, NP!Mail, NP!Marker, NP!Incident

LEMMA CallIsCall == N!Call => NP!Call
  BY DEF N!Call, N!Delivered, N!Fingerprints, NP!Call, NP!Delivered, NP!Fingerprints

LEMMA EndIsEnd == N!End => NP!End
  BY DEF N!End, N!Finished, N!Stop, N!Reporting, NP!End, NP!Finished, NP!Stop,
         NP!Reporting

LEMMA AbortIsAbort == N!Abort => NP!Abort
  BY DEF N!Abort, N!Finished, N!Stop, N!Reporting, NP!Abort, NP!Finished, NP!Stop,
         NP!Reporting

LEMMA AbortInDoubtIsAbortInDoubt == N!AbortInDoubt => NP!AbortInDoubt
  BY DEF N!AbortInDoubt, N!Stop, N!Delivered, N!Fingerprints,
         NP!AbortInDoubt, NP!Stop, NP!Delivered, NP!Fingerprints

LEMMA InitIsInit == N!Init => NP!Init
  BY DEF N!Init, N!Keys, N!Targets, NP!Init, NP!Keys, NP!Targets

LEMMA TypeIsType == NP!TypeOK <=> N!TypeOK
  BY DEF N!TypeOK, N!Keys, N!Targets, N!Fingerprints, N!Outcomes, N!Outcome, N!Calls,
         N!Mails,
         NP!TypeOK, NP!Keys, NP!Targets, NP!Fingerprints, NP!Outcomes, NP!Outcome,
         NP!Calls, NP!Mails

LEMMA CInvIsCInv == C!CInv <=> NP!CInv
<1>1. C!Targets = NP!Targets /\ C!Keys = NP!Keys /\ C!Fingerprints = NP!Fingerprints
  BY DEF C!Keys, C!Targets, C!Fingerprints, NP!Keys, NP!Targets, NP!Fingerprints
<1>2. \A k, w : C!Mail(k, w) = NP!Mail(k, w) /\ C!Marker(k, w) = NP!Marker(k, w)
  BY DEF C!Mail, C!Marker, NP!Mail, NP!Marker
<1>3. /\ C!Reporting <=> NP!Reporting
      /\ C!Selected = NP!Selected
      /\ \A k : C!IsActive(k) <=> NP!IsActive(k)
      /\ \A k : C!Fingerprint(k) = NP!Fingerprint(k)
      /\ \A o : C!IsFailure(o) <=> NP!IsFailure(o)
  BY DEF C!Reporting, C!Selected, C!IsActive, C!IsFailure, C!Fingerprint,
         NP!Reporting, NP!Selected, NP!IsActive, NP!IsFailure, NP!Fingerprint
<1>4. C!TypeOK <=> NP!TypeOK
  BY DEF C!TypeOK, C!Keys, C!Targets, C!Fingerprints, C!Outcomes, C!Outcome, C!Calls,
         C!Mails,
         NP!TypeOK, NP!Keys, NP!Targets, NP!Fingerprints, NP!Outcomes, NP!Outcome,
         NP!Calls, NP!Mails
<1>5. C!Enlisted <=> NP!Enlisted
  BY <1>1, <1>3 DEF C!Enlisted, NP!Enlisted
<1>6. \A k, calls : C!Planned(k, calls) <=> NP!Planned(k, calls)
  BY <1>1, <1>2 DEF C!Planned, NP!Planned
<1>7. C!MarkerWasMailed <=> NP!MarkerWasMailed
  BY <1>1, <1>3 DEF C!MarkerWasMailed, NP!MarkerWasMailed
<1>8. C!NInv <=> NP!NInv
  BY <1>1, <1>3, <1>4, <1>5, <1>6, <1>7 DEF C!NInv, NP!NInv
<1>9. \A k, calls : C!Following(k, calls) <=> NP!Following(k, calls)
  BY <1>1, <1>2 DEF C!Following, NP!Following
<1>10. C!HostKept <=> NP!HostKept
  BY DEF C!HostKept, NP!HostKept
<1>11. \A k : C!Outlook(k) = NP!Outlook(k) /\ (C!Waiting(k) <=> NP!Waiting(k))
  BY DEF C!Outlook, C!After, C!Waiting, NP!Outlook, NP!After, NP!Waiting
<1>12. C!RolledUp <=> NP!RolledUp
  BY <1>3 DEF C!RolledUp, C!Cardinality, NP!RolledUp, NP!Cardinality
<1>13. \A t : C!Fits(t) <=> NP!Fits(t)
  BY <1>3, <1>11 DEF C!Fits, NP!Fits
<1>14. C!OnCourse <=> NP!OnCourse
  BY <1>3, <1>11, <1>12, <1>13 DEF C!OnCourse, NP!OnCourse
<1>15. \A k : (C!Owed(k) <=> NP!Owed(k)) /\ (C!Agreed(k) <=> NP!Agreed(k))
  BY <1>1 DEF C!Owed, C!Agreed, NP!Owed, NP!Agreed
<1>16. C!InStep <=> NP!InStep
  BY <1>1, <1>15 DEF C!InStep, NP!InStep
<1> QED BY <1>1, <1>8, <1>9, <1>10, <1>14, <1>16 DEF C!CInv, NP!CInv

(* The watchdog's step is a step of its notifier, or does not touch it.    *)
LEMMA NotifierStep ==
  ASSUME [Next]_vars PROVE [N!Next]_(N!vars)
<1>1. CASE UNCHANGED notifyVars
  BY <1>1 DEF notifyVars, N!vars
<1>2. CASE HandOver
  BY <1>2 DEF HandOver, N!Next
<1>3. CASE Notify
  BY <1>3 DEF Notify, N!Next
<1>4. CASE Return
  BY <1>4 DEF Return, N!Next
<1>5. CASE NotificationFails \/ ListingCrashes \/ CutOff
  BY <1>5 DEF NotificationFails, ListingCrashes, CutOff, N!Next
<1>6. CASE Launch \/ Pool \/ ReportNobody \/ Tick \/ Kill
           \/ \E t \in Targets : Mutate(t) \/ CheckWebui(t)
  BY <1>1, <1>6
  DEF Launch, Pool, Start, Finish, ReportNobody, Tick, Kill, Mutate, CheckWebui
<1>7. CASE UNCHANGED vars
  BY <1>1, <1>7 DEF vars
<1> QED BY <1>2, <1>3, <1>4, <1>5, <1>6, <1>7 DEF Next, Progress

LEMMA NotifierKeeps ==
  ASSUME C!CInv, [Next]_vars PROVE C!CInv' /\ N!TypeOK'
<1>1. [NP!Next]_(NP!vars)
  <2>1. CASE N!Next
    BY <2>1, BeginIsBegin, TakeTargetIsTakeTarget, TakeHostIsTakeHost, CallIsCall,
       EndIsEnd, AbortIsAbort, AbortInDoubtIsAbortInDoubt DEF N!Next, NP!Next
  <2>2. CASE UNCHANGED N!vars
    BY <2>2 DEF N!vars, NP!vars
  <2> QED BY <2>1, <2>2, NotifierStep
<1>2. NP!CInv'
  BY <1>1, CInvIsCInv, NotifierFacts, NP!StepConverges
<1>3. (C!CInv <=> NP!CInv)' /\ (NP!TypeOK <=> N!TypeOK)'
  BY CInvIsCInv, TypeIsType, PTL
<1> QED BY <1>2, <1>3 DEF NP!CInv, NP!NInv

-----------------------------------------------------------------------------
(* Rounds.                                                                 *)

LEMMA Numbers ==
  /\ Concurrency \in Nat \ {0} /\ Budget \in Nat \ {0} /\ JobLimit \in Nat \ {0}
  /\ NumTargets \in Nat \ {0} /\ Webui \in BOOLEAN
  /\ Targets = 1 .. NumTargets
  BY WatchdogAssumption DEF N!NotifierAssumption, Targets

(* Rounds of m, b periods long.                                            *)
LEMMA Multiples ==
  ASSUME NEW a \in Nat, NEW c \in Nat, NEW b \in Nat
  PROVE  a * b \in Nat /\ (a <= c => a * b <= c * b) /\ (a + 1) * b = a * b + b
  OBVIOUS

LEMMA Blocks ==
  ASSUME NEW t \in Nat \ {0}, NEW u \in Nat \ {0}, NEW m \in Nat \ {0}, NEW b \in Nat
  PROVE  /\ ((t - 1) \div m) * b \in Nat
         /\ t <= u => ((t - 1) \div m) * b <= ((u - 1) \div m) * b
         /\ u + m <= t => ((u - 1) \div m) * b + b <= ((t - 1) \div m) * b
         /\ ((t + m - 1) \div m) * b \in Nat
         /\ u <= t => ((u - 1) \div m) * b + b <= ((t + m - 1) \div m) * b
<1> DEFINE q == (t - 1) \div m
           r == (u - 1) \div m
           s == (t + m - 1) \div m
<1>1. /\ q \in Nat /\ r \in Nat /\ s \in Nat
      /\ t <= u => q <= r
      /\ u + m <= t => r + 1 <= q
      /\ u <= t => r + 1 <= s
  OBVIOUS
<1> HIDE DEF q, r, s
<1>2. /\ q * b \in Nat /\ s * b \in Nat
      /\ q <= r => q * b <= r * b
      /\ r + 1 <= q => (r + 1) * b <= q * b
      /\ r + 1 <= s => (r + 1) * b <= s * b
      /\ (r + 1) * b = r * b + b
  BY <1>1, Multiples
<1>3. /\ q * b \in Nat
      /\ t <= u => q * b <= r * b
      /\ u + m <= t => r * b + b <= q * b
      /\ s * b \in Nat
      /\ u <= t => r * b + b <= s * b
  BY <1>1, <1>2
<1> QED BY <1>3 DEF q, r, s

LEMMA RoundNat ==
  ASSUME NEW t \in Targets
  PROVE  Round(t) * Budget \in Nat
<1>1. t \in Nat \ {0} /\ Concurrency \in Nat \ {0} /\ Budget \in Nat
  BY Numbers
<1> QED BY <1>1, Blocks DEF Round

(* Who comes later is not in an earlier round.                             *)
LEMMA LaterRound ==
  ASSUME NEW t \in Targets, NEW u \in Targets, t <= u
  PROVE  Round(t) * Budget <= Round(u) * Budget
<1>1. t \in Nat \ {0} /\ u \in Nat \ {0} /\ Concurrency \in Nat \ {0} /\ Budget \in Nat
  BY Numbers
<1> QED BY <1>1, Blocks DEF Round

(* Who comes a pool of workers later is in a later round.                  *)
LEMMA NextRound ==
  ASSUME NEW t \in Targets, NEW u \in Targets, u + Concurrency <= t
  PROVE  Round(u) * Budget + Budget <= Round(t) * Budget
<1>1. t \in Nat \ {0} /\ u \in Nat \ {0} /\ Concurrency \in Nat \ {0} /\ Budget \in Nat
  BY Numbers
<1> QED BY <1>1, Blocks DEF Round

(* Every round is one of Rounds.                                           *)
LEMMA LastRound ==
  ASSUME NEW u \in Targets
  PROVE  /\ Rounds * Budget \in Nat
         /\ Round(u) * Budget + Budget <= Rounds * Budget
<1>1. /\ NumTargets \in Nat \ {0} /\ u \in Nat \ {0} /\ u <= NumTargets
      /\ Concurrency \in Nat \ {0} /\ Budget \in Nat
  BY Numbers
<1> QED BY <1>1, Blocks DEF Round, Rounds

(* A set of numbers has a least one.                                       *)
LEMMA FirstOfNaturals ==
  ASSUME NEW S \in SUBSET Nat, S # {}
  PROVE  \E s \in S : \A u \in S : s <= u
<1>1. PICK s \in S : \A u \in S : <<u, s>> \notin OpToRel(<, Nat)
  BY NatLessThanWellFounded, WFMin
<1>2. \A u \in S : ~(u < s)
  BY <1>1 DEF OpToRel
<1> QED BY <1>2

(* If all workers are busy with targets before t, one of them is a pool of *)
(* workers ahead of it.                                                    *)
LEMMA Ahead ==
  ASSUME NEW t \in Targets, NEW S \in SUBSET (1 .. t - 1),
         Cardinality(S) >= Concurrency
  PROVE  \E u \in S : u + Concurrency <= t
<1> SUFFICES ASSUME \A u \in S : u + Concurrency > t PROVE FALSE
  <2>1. \A u \in S : u \in Nat
    OBVIOUS
  <2> QED BY <2>1, Numbers
<1> DEFINE low == t - Concurrency + 1
<1>1. t \in Nat /\ low \in Int /\ t - 1 \in Int
  BY Numbers
<1>2. S \subseteq low .. (t - 1)
  BY <1>1, Numbers
<1>3. /\ IsFiniteSet(low .. (t - 1))
      /\ Cardinality(low .. (t - 1)) = IF low > t - 1 THEN 0 ELSE (t - 1) - low + 1
  BY <1>1, FS_Interval
<1>4. IsFiniteSet(S) /\ Cardinality(S) <= Cardinality(low .. (t - 1))
  BY <1>2, <1>3, FS_Subset
<1>5. Cardinality(S) \in Nat
  BY <1>4, FS_CardinalityType
<1> QED BY <1>1, <1>3, <1>4, <1>5, Numbers

-----------------------------------------------------------------------------
(* Steps in which no time passes.                                          *)

LEMMA Types ==
  ASSUME WInv
  PROVE  /\ env \in Env /\ job \in Jobs /\ thread \in [Targets -> Threads]
         /\ found \in [Targets -> N!Outcomes \cup {None}]
         /\ job.age \in Nat /\ job.age <= JobLimit
         /\ \A t \in Targets : thread[t].age \in Nat
  BY Numbers DEF WInv, TypeOK, Jobs, Threads

(* What depends on the threads and the age of the job alone.               *)
InTime == StartedInOrder /\ Punctual /\ OnlyWebuiOutlasts

(* The job goes on to report, or ends; its threads are left behind.        *)
LEMMA JobLeaves ==
  ASSUME WInv, UNCHANGED <<env, thread, found>>, C!CInv', N!TypeOK', pending' \in BOOLEAN,
         env.valid, job' \in Jobs, job'.age = job.age, job'.pc # "recover",
         ReportsFindings', ExitHonest'
  PROVE  WInv'
<1>1. TypeOK'
  BY Types DEF TypeOK
<1>2. OnlyValidRuns'
  BY DEF OnlyValidRuns
<1>3. StartedInOrder'
  BY DEF WInv, StartedInOrder
<1>4. Punctual'
  BY DEF WInv, Punctual, TargetInBudget
<1>5. OnlyWebuiOutlasts'
  BY DEF WInv, OnlyWebuiOutlasts, TargetInBudget
<1> QED BY <1>1, <1>2, <1>3, <1>4, <1>5 DEF WInv

(* It ends.                                                                *)
LEMMA JobEnds ==
  ASSUME WInv, UNCHANGED <<env, pending, thread, found>>, C!CInv', N!TypeOK',
         job.pc # "none", NEW exit \in {0, 1, 2} \cup {None},
         NEW how \in {"returned", "traceback", "killed", "cut"},
         Ended(exit, how), result' = None, queue' = <<>>, todo' = <<>>,
         exit = 0 => \A t \in Targets :
           /\ Good(found[t])
           /\ env.mail /\ ~env.dryRun /\ found[t].recovered => marker'[t] = None
  PROVE  WInv'
<1>1. job' = [job EXCEPT !.pc = "none", !.exit = exit, !.how = how]
  BY DEF Ended
<1>2. job' \in Jobs /\ job'.age = job.age /\ job'.pc = "none" /\ job'.exit = exit
  BY <1>1, Types DEF Jobs
<1>3. env.valid
  BY DEF WInv, OnlyValidRuns
<1>4. ReportsFindings'
  BY <1>2 DEF ReportsFindings
<1>5. ExitHonest'
  BY <1>2 DEF ExitHonest, Good
<1>6. pending' \in BOOLEAN
  BY DEF WInv, TypeOK
<1> QED BY <1>2, <1>3, <1>4, <1>5, <1>6, JobLeaves

LEMMA KillKeeps ==
  ASSUME WInv, Kill, C!CInv', N!TypeOK' PROVE WInv'
<1>1. /\ job.pc = "recover" /\ Ended(None, "killed")
      /\ UNCHANGED <<env, pending, thread, found, result, queue, todo>>
  BY DEF Kill, notifyVars
<1>2. result' = None /\ queue' = <<>> /\ todo' = <<>>
  BY <1>1 DEF WInv, ReportsFindings
<1>3. None # 0
  BY WatchdogAssumption
<1> QED BY <1>1, <1>2, <1>3, JobEnds

LEMMA ReportNobodyKeeps ==
  ASSUME WInv, ReportNobody, C!CInv', N!TypeOK' PROVE WInv'
<1> DEFINE exit == IF ~env.dryRun /\ \E t \in Targets : Notable(found[t])
                   THEN 1 ELSE ExitCode
<1>1. /\ job.pc = "recover" /\ Ended(exit, "returned")
      /\ UNCHANGED <<env, pending, thread, found, result, queue, todo>>
  BY DEF ReportNobody, notifyVars
<1>2. result' = None /\ queue' = <<>> /\ todo' = <<>>
  BY <1>1 DEF WInv, ReportsFindings
<1>3. exit \in {0, 1} /\ (exit = 0 => \A t \in Targets : Good(found[t]))
  BY DEF ExitCode
<1>4. env.dryRun \/ ~env.mail
  BY DEF ReportNobody
<1> HIDE DEF exit
<1> QED BY <1>1, <1>2, <1>3, <1>4, JobEnds

(* What the threads have found is handed over.                             *)
LEMMA HandOverKeeps ==
  ASSUME WInv, HandOver, C!CInv', N!TypeOK' PROVE WInv'
<1>1. /\ job.pc = "recover" /\ ~env.dryRun /\ env.mail /\ result' = found
      /\ job' = [job EXCEPT !.pc = "notify"]
      /\ UNCHANGED <<env, pending, thread, found>>
  BY DEF HandOver
<1>2. job' \in Jobs /\ job'.age = job.age /\ job'.pc = "notify"
  BY <1>1, Types DEF Jobs
<1>3. env.valid /\ pending' \in BOOLEAN
  BY <1>1 DEF WInv, OnlyValidRuns, TypeOK
<1>4. ReportsFindings'
  BY <1>1, <1>2 DEF ReportsFindings
<1>5. ExitHonest'
  BY <1>2 DEF ExitHonest
<1> QED BY <1>1, <1>2, <1>3, <1>4, <1>5, JobLeaves

LEMMA NotifyKeeps ==
  ASSUME WInv, Notify, C!CInv', N!TypeOK' PROVE WInv'
<1>1. /\ job.pc = "notify" /\ UNCHANGED <<env, pending, job, thread, found>>
  BY DEF Notify
<1>2. UNCHANGED result
  BY DEF Notify, N!TakeTarget, N!TakeHost, N!Call
<1>3. env.valid /\ pending' \in BOOLEAN /\ job' \in Jobs
  BY <1>1, Types DEF WInv, OnlyValidRuns, TypeOK
<1>4. ReportsFindings'
  BY <1>1, <1>2 DEF WInv, ReportsFindings
<1>5. ExitHonest'
  BY <1>1 DEF ExitHonest
<1> QED BY <1>1, <1>3, <1>4, <1>5, JobLeaves

(* A run that reported everything left the markers as it should.           *)
LEMMA ReturnKeeps ==
  ASSUME WInv, Return, C!CInv', N!TypeOK' PROVE WInv'
<1>1. /\ job.pc = "notify" /\ N!End /\ Ended(ExitCode, "returned")
      /\ UNCHANGED <<env, pending, thread, found>>
  BY DEF Return
<1>2. /\ N!Finished /\ result' = None /\ queue' = <<>> /\ todo' = <<>>
      /\ marker' = marker
  BY <1>1 DEF N!End, N!Stop
<1>3. ExitCode \in {0, 1} /\ (ExitCode = 0 => \A t \in Targets : Good(found[t]))
  BY DEF ExitCode
<1>4. ASSUME ExitCode = 0, NEW t \in Targets, found[t].recovered
      PROVE  marker[t] = None
  <2>1. NP!MarkersConverge /\ NP!TypeOK
    BY CInvIsCInv, NotifierFacts, NP!CInvConverges DEF WInv, NP!CInv, NP!NInv
  <2>2. NP!Finished /\ result # None
    BY <1>2 DEF N!Finished, N!Reporting, NP!Finished, NP!Reporting
  <2>3. result = found /\ NP!Selected = Targets /\ 1 \in Targets
    BY <1>1, Types, Numbers DEF WInv, ReportsFindings, NP!Selected
  <2>4. \A u \in Targets : result[u] \in NP!Outcomes
    BY <2>1, <2>2, <2>3 DEF NP!TypeOK, NP!Selected
  <2>5. result[1] \in NP!Outcomes /\ Good(result[1])
    BY <1>3, <1>4, <2>3, <2>4
  <2>6. result[1].condition # "host_unreachable"
    <3>1. None # "host_unreachable"
      BY NotifierFacts DEF NP!NotifierAssumption
    <3>2. \A o \in NP!Outcomes : o.recovered \/ o.deferred => o.condition = None
      BY DEF NP!Outcomes, NP!Outcome
    <3> QED BY <2>5, <3>1, <3>2 DEF Good
  <2>7. ~NP!RolledUp
    BY <2>3, <2>6 DEF NP!RolledUp
  <2> QED BY <1>4, <2>1, <2>2, <2>3, <2>7 DEF NP!MarkersConverge, NP!IsActive
<1> QED BY <1>1, <1>2, <1>3, <1>4, JobEnds

(* A run that was cut short.                                               *)
LEMMA Aborted ==
  ASSUME N!Abort \/ N!AbortInDoubt
  PROVE  result' = None /\ queue' = <<>> /\ todo' = <<>>
  BY DEF N!Abort, N!AbortInDoubt, N!Stop

LEMMA CutShortKeeps ==
  ASSUME WInv, NotificationFails \/ ListingCrashes \/ CutOff, C!CInv', N!TypeOK'
  PROVE  WInv'
<1>1. Ended(1, "returned") \/ Ended(1, "traceback") \/ Ended(None, "cut")
  BY DEF NotificationFails, ListingCrashes, CutOff, FailedCode
<1>2. result' = None /\ queue' = <<>> /\ todo' = <<>>
  BY Aborted DEF NotificationFails, ListingCrashes, CutOff
<1>3. None # 0
  BY WatchdogAssumption
<1>4. job.pc = "notify" /\ UNCHANGED <<env, pending, thread, found>>
  BY DEF NotificationFails, ListingCrashes, CutOff
<1>5. CASE Ended(1, "returned") \/ Ended(1, "traceback")
  BY <1>2, <1>4, <1>5, JobEnds
<1>6. CASE Ended(None, "cut")
  BY <1>2, <1>3, <1>4, <1>6, JobEnds
<1> QED BY <1>1, <1>5, <1>6

-----------------------------------------------------------------------------
(* Steps of the threads.                                                   *)

LEMMA ThreadMoves ==
  ASSUME WInv, C!CInv', N!TypeOK', job.pc = "recover",
         UNCHANGED <<env, pending, job, result, queue, todo>>,
         NEW t \in Targets, NEW pc \in {"working", "webui", "done"},
         thread' \in [Targets -> Threads], thread'[t].pc = pc,
         \A u \in Targets : thread'[u].age = thread[u].age,
         \A u \in Targets \ {t} : thread'[u].pc = thread[u].pc,
         found' \in [Targets -> N!Outcomes \cup {None}],
         thread[t].pc = "queued" => \A u \in Targets : u < t => thread[u].pc # "queued",
         pc # "done" => thread[t].pc # "done",
         pc = "webui" => Webui
  PROVE  WInv'
<1>1. /\ thread'[t].pc = pc
      /\ \A u \in Targets : thread'[u].age = thread[u].age
      /\ \A u \in Targets \ {t} : thread'[u].pc = thread[u].pc
  OBVIOUS
<1>2. TypeOK'
  BY DEF WInv, TypeOK
<1>3. OnlyValidRuns' /\ ReportsFindings' /\ ExitHonest'
  BY DEF WInv, OnlyValidRuns, ReportsFindings, ExitHonest
<1>4. StartedInOrder'
  <2> SUFFICES ASSUME NEW u \in Targets
               PROVE  /\ thread'[u].age <= job'.age
                      /\ thread'[u].pc = "queued" =>
                           /\ thread'[u].age = 0
                           /\ \A v \in Targets : u < v => thread'[v].pc = "queued"
    BY DEF StartedInOrder
  <2>1. thread'[u].age <= job'.age
    BY <1>1 DEF WInv, StartedInOrder
  <2>2. ASSUME thread'[u].pc = "queued"
        PROVE  thread'[u].age = 0 /\ \A v \in Targets : u < v => thread'[v].pc = "queued"
    <3>1. u # t /\ thread[u].pc = "queued"
      BY <1>1, <2>2
    <3>2. thread[u].age = 0 /\ \A v \in Targets : u < v => thread[v].pc = "queued"
      BY <3>1 DEF WInv, StartedInOrder
    <3>3. ~(u < t)
      BY <3>1, <3>2
    <3> QED BY <1>1, <3>2, <3>3
  <2> QED BY <2>1, <2>2
<1>5. Punctual'
  <2> SUFFICES ASSUME TargetInBudget'
               PROVE  /\ job.age <= Rounds * Budget
                      /\ \A u \in Targets : OnTime(u)'
    BY DEF Punctual
  <2>1. TargetInBudget
    BY <1>1 DEF TargetInBudget
  <2>2. job.age <= Rounds * Budget /\ \A u \in Targets : OnTime(u)
    BY <2>1 DEF WInv, Punctual
  <2>3. ASSUME NEW u \in Targets, u # t PROVE OnTime(u)'
    <3>1. thread'[u].pc = thread[u].pc /\ thread'[u].age = thread[u].age
      BY <1>1, <2>3
    <3> QED BY <2>2, <3>1 DEF OnTime, Busy
  <2>4. OnTime(t)'
    <3>1. thread[t].pc = "queued" => thread[t].age = 0
      BY DEF WInv, StartedInOrder
    <3>2. thread[t].pc # "done" => job.age <= Round(t) * Budget + thread[t].age
      <4>1. thread[t].pc \in {"queued", "working", "webui", "done"}
        BY Types DEF Threads
      <4>2. CASE thread[t].pc = "queued"
        BY <2>2, <3>1, <4>2, RoundNat, Types DEF OnTime
      <4>3. CASE thread[t].pc \in {"working", "webui"}
        BY <2>2, <4>3 DEF OnTime, Busy
      <4> QED BY <4>1, <4>2, <4>3
    <3> QED BY <1>1, <3>2 DEF OnTime, Busy
  <2> QED BY <2>2, <2>3, <2>4
<1>6. OnlyWebuiOutlasts'
  BY <1>1 DEF WInv, OnlyWebuiOutlasts, TargetInBudget
<1> QED BY <1>2, <1>3, <1>4, <1>5, <1>6 DEF WInv

LEMMA StartKeeps ==
  ASSUME WInv, NEW t \in Targets, Start(t), C!CInv', N!TypeOK' PROVE WInv'
<1>1. /\ job.pc = "recover" /\ MayStart(t)
      /\ thread' = [thread EXCEPT ![t].pc = "working"]
      /\ UNCHANGED <<env, pending, job, found, result, queue, todo>>
  BY DEF Start, notifyVars
<1>2. thread[t] \in Threads
  BY Types
<1>3. /\ thread' \in [Targets -> Threads] /\ thread'[t].pc = "working"
      /\ \A u \in Targets : thread'[u].age = thread[u].age
      /\ \A u \in Targets \ {t} : thread'[u].pc = thread[u].pc
  BY <1>1, <1>2, Types DEF Threads
<1>4. /\ \A u \in Targets : u < t => thread[u].pc # "queued"
      /\ thread[t].pc = "queued"
  BY <1>1 DEF MayStart
<1> QED BY <1>1, <1>3, <1>4, Types, ThreadMoves

LEMMA MutateKeeps ==
  ASSUME WInv, NEW t \in Targets, Mutate(t), C!CInv', N!TypeOK' PROVE WInv'
<1>1. /\ job.pc = "recover" /\ thread[t].pc = "working"
      /\ thread' = [thread EXCEPT ![t].mutated = TRUE]
      /\ UNCHANGED <<env, pending, job, found, result, queue, todo>>
  BY DEF Mutate, notifyVars
<1>2. thread[t] \in Threads
  BY Types
<1>3. /\ thread' \in [Targets -> Threads] /\ thread'[t].pc = "working"
      /\ \A u \in Targets : thread'[u].age = thread[u].age
      /\ \A u \in Targets \ {t} : thread'[u].pc = thread[u].pc
  BY <1>1, <1>2, Types DEF Threads
<1> QED BY <1>1, <1>3, Types, ThreadMoves

LEMMA CheckWebuiKeeps ==
  ASSUME WInv, NEW t \in Targets, CheckWebui(t), C!CInv', N!TypeOK' PROVE WInv'
<1>1. /\ job.pc = "recover" /\ Webui /\ thread[t].pc = "working"
      /\ thread' = [thread EXCEPT ![t].pc = "webui"]
      /\ UNCHANGED <<env, pending, job, found, result, queue, todo>>
  BY DEF CheckWebui, notifyVars
<1>2. thread[t] \in Threads
  BY Types
<1>3. /\ thread' \in [Targets -> Threads] /\ thread'[t].pc = "webui"
      /\ \A u \in Targets : thread'[u].age = thread[u].age
      /\ \A u \in Targets \ {t} : thread'[u].pc = thread[u].pc
  BY <1>1, <1>2, Types DEF Threads
<1> QED BY <1>1, <1>3, Types, ThreadMoves

LEMMA FinishKeeps ==
  ASSUME WInv, NEW t \in Targets, Finish(t), C!CInv', N!TypeOK' PROVE WInv'
<1>1. PICK o \in N!Outcomes : found' = [found EXCEPT ![t] = o]
  BY DEF Finish
<1>2. /\ job.pc = "recover" /\ t \in Busy
      /\ thread' = [thread EXCEPT ![t].pc = "done"]
      /\ UNCHANGED <<env, pending, job, result, queue, todo>>
  BY DEF Finish, notifyVars
<1>3. thread[t] \in Threads /\ thread[t].pc # "queued"
  BY <1>2, Types DEF Busy
<1>4. /\ thread' \in [Targets -> Threads] /\ thread'[t].pc = "done"
      /\ \A u \in Targets : thread'[u].age = thread[u].age
      /\ \A u \in Targets \ {t} : thread'[u].pc = thread[u].pc
  BY <1>2, <1>3, Types DEF Threads
<1>5. found' \in [Targets -> N!Outcomes \cup {None}]
  BY <1>1, Types
<1> QED BY <1>2, <1>3, <1>4, <1>5, ThreadMoves

-----------------------------------------------------------------------------
(* A job begins, and time passes.                                          *)

LEMMA QueuedIs ==
  /\ Queued \in [Targets -> Threads]
  /\ \A t \in Targets : Queued[t].pc = "queued" /\ Queued[t].age = 0
  BY Numbers DEF Queued, Threads

(* All are queued and no time has passed.                                  *)
LEMMA Fresh ==
  ASSUME thread = Queued, job.age = 0
  PROVE  InTime
<1>1. \A t \in Targets : thread[t].pc = "queued" /\ thread[t].age = 0
  BY QueuedIs
<1>2. StartedInOrder
  BY <1>1 DEF StartedInOrder
<1>3. \A t \in Targets : OnTime(t)
  BY <1>1, RoundNat DEF OnTime, Busy
<1>4. 0 <= Rounds * Budget
  <2>1. 1 \in Targets
    BY Numbers
  <2> QED BY <2>1, LastRound
<1>5. Punctual
  BY <1>3, <1>4 DEF Punctual
<1>6. OnlyWebuiOutlasts
  BY <1>1, Numbers DEF OnlyWebuiOutlasts, TargetInBudget
<1> QED BY <1>2, <1>5, <1>6 DEF InTime

LEMMA LaunchKeeps ==
  ASSUME WInv, Launch, C!CInv', N!TypeOK' PROVE WInv'
<1>1. /\ job.pc = "none" /\ pending' = FALSE /\ thread' = Queued
      /\ found' = [t \in Targets |-> None]
      /\ UNCHANGED <<env, result, queue, todo>>
  BY DEF Launch, notifyVars
<1>2. /\ job' \in Jobs /\ job'.age = 0
      /\ \/ env.valid /\ job'.pc = "recover"
         \/ ~env.valid /\ job'.pc = "none" /\ job'.exit = 2
  <2>1. CASE env.valid
    <3>1. job' = [pc |-> "recover", age |-> 0, exit |-> None, how |-> "returned"]
      BY <2>1 DEF Launch
    <3>2. 0 \in 0 .. JobLimit
      BY Numbers
    <3> QED BY <2>1, <3>1, <3>2 DEF Jobs
  <2>2. CASE ~env.valid
    <3>1. job' = [job EXCEPT !.pc = "none", !.exit = 2, !.how = "returned"]
      BY <2>2 DEF Launch, Ended
    <3>2. job.age = 0
      BY <2>2 DEF WInv, OnlyValidRuns
    <3>3. job' \in Jobs /\ job'.age = job.age /\ job'.pc = "none" /\ job'.exit = 2
      BY <3>1, Types DEF Jobs
    <3> QED BY <2>2, <3>2, <3>3
  <2> QED BY <2>1, <2>2
<1>3. thread' \in [Targets -> Threads] /\ found' \in [Targets -> N!Outcomes \cup {None}]
  BY <1>1, QueuedIs
<1>4. TypeOK'
  BY <1>1, <1>2, <1>3 DEF WInv, TypeOK
<1>5. OnlyValidRuns'
  BY <1>1, <1>2 DEF OnlyValidRuns
<1>6. ReportsFindings'
  BY <1>1, <1>2 DEF WInv, ReportsFindings
<1>7. (thread = Queued /\ job.age = 0 => InTime)'
  BY Fresh, PTL
<1>8. ExitHonest'
  BY <1>2 DEF ExitHonest
<1> QED BY <1>1, <1>2, <1>4, <1>5, <1>6, <1>7, <1>8 DEF InTime, WInv

(* Time passes between two jobs.                                           *)
LEMMA IdleTickKeeps ==
  ASSUME WInv, Tick, job.pc # "recover", C!CInv', N!TypeOK' PROVE WInv'
<1>1. /\ pending' = TRUE /\ job.pc = "none"
      /\ UNCHANGED <<env, job, found, marker, result, queue, todo>>
  BY DEF Tick, notifyVars
<1>2. thread' = thread
  <2>1. thread' = [t \in Targets |-> thread[t]]
    BY DEF Tick
  <2> QED BY <2>1, Types
<1>3. TypeOK'
  BY <1>1, <1>2 DEF WInv, TypeOK
<1>4. OnlyValidRuns' /\ ReportsFindings' /\ ExitHonest'
  BY <1>1 DEF WInv, OnlyValidRuns, ReportsFindings, ExitHonest
<1>5. StartedInOrder' /\ OnlyWebuiOutlasts'
  BY <1>1, <1>2 DEF WInv, StartedInOrder, OnlyWebuiOutlasts, TargetInBudget
<1>6. Punctual'
  BY <1>1, <1>2 DEF WInv, Punctual, TargetInBudget, OnTime, Busy
<1> QED BY <1>3, <1>4, <1>5, <1>6 DEF WInv

(* While targets are being recovered, whoever has to wait has a busy one a *)
(* pool of workers ahead of it.                                            *)
LEMMA WaitsForSomebody ==
  ASSUME WInv, NEW t \in Targets, thread[t].pc = "queued",
         \A u \in Targets : ~MayStart(u)
  PROVE  \E u \in Busy : u + Concurrency <= t
<1>1. PICK s \in Targets : /\ thread[s].pc = "queued"
                           /\ \A u \in Targets : u < s => thread[u].pc # "queued"
  <2> DEFINE Q == {n \in Targets : thread[n].pc = "queued"}
  <2>1. Q \subseteq Nat /\ t \in Q
    BY Numbers
  <2>2. PICK s \in Q : \A u \in Q : s <= u
    BY <2>1, FirstOfNaturals
  <2> QED BY <2>2, Numbers
<1>2. s <= t
  BY <1>1, Numbers
<1>3. ~(Cardinality(Busy) < Concurrency)
  BY <1>1 DEF MayStart
<1>4. Busy \subseteq 1 .. s - 1
  <2>1. \A u \in Busy : u \in Targets /\ thread[u].pc # "queued"
    BY DEF Busy
  <2>2. \A u \in Targets : s < u => thread[u].pc = "queued"
    BY <1>1 DEF WInv, StartedInOrder
  <2> QED BY <1>1, <2>1, <2>2, Numbers
<1>5. IsFiniteSet(1 .. s - 1)
  BY Numbers, FS_Interval
<1>6. Cardinality(Busy) \in Nat
  BY <1>4, <1>5, FS_Subset, FS_CardinalityType
<1>7. PICK u \in Busy : u + Concurrency <= s
  <2>1. Cardinality(Busy) >= Concurrency
    BY <1>3, <1>6, Numbers
  <2> QED BY <1>4, <2>1, Ahead
<1> QED BY <1>1, <1>2, <1>4, <1>7, Numbers

LEMMA BusyTickKeeps ==
  ASSUME WInv, Tick, job.pc = "recover", C!CInv', N!TypeOK' PROVE WInv'
<1>1. /\ job.age < JobLimit /\ ~AllDone /\ \A u \in Targets : ~MayStart(u)
      /\ \A t \in Targets : thread[t].pc = "working" => thread[t].age < Budget
      /\ job' = [job EXCEPT !.age = job.age + 1]
      /\ thread' = [t \in Targets |-> IF t \in Busy
                                      THEN [thread[t] EXCEPT !.age = thread[t].age + 1]
                                      ELSE thread[t]]
      /\ pending' = TRUE
      /\ UNCHANGED <<env, found, marker, result, queue, todo>>
  BY DEF Tick, WithinLimit, NobodyOutOfBudget, notifyVars
<1>2. /\ job' \in Jobs /\ job'.pc = "recover" /\ job'.age = job.age + 1
  <2>1. job.age + 1 \in 0 .. JobLimit
    BY <1>1, Types, Numbers
  <2> QED BY <1>1, <2>1, Types DEF Jobs
<1>3. ASSUME NEW t \in Targets
      PROVE  /\ thread'[t] \in Threads /\ thread'[t].pc = thread[t].pc
             /\ thread'[t].age = IF t \in Busy THEN thread[t].age + 1 ELSE thread[t].age
             /\ thread'[t].age <= job'.age
  <2>1. thread[t].age <= job.age /\ thread[t].age \in Nat /\ thread[t] \in Threads
    BY Types DEF WInv, StartedInOrder
  <2>2. thread[t].age + 1 \in 0 .. JobLimit
    BY <1>1, <2>1, Types, Numbers
  <2>3. CASE t \in Busy
    <3>1. thread'[t] = [thread[t] EXCEPT !.age = thread[t].age + 1]
      BY <1>1, <2>3
    <3> QED BY <1>2, <2>1, <2>2, <2>3, <3>1, Types DEF Threads
  <2>4. CASE t \notin Busy
    <3>1. thread'[t] = thread[t]
      BY <1>1, <2>4
    <3>2. thread[t].age <= job.age + 1
      BY <2>1, Types
    <3> QED BY <1>2, <2>1, <2>4, <3>1, <3>2
  <2> QED BY <2>3, <2>4
<1>4. Busy' = Busy
  BY <1>3 DEF Busy
<1>5. thread' \in [Targets -> Threads]
  BY <1>1, <1>3
<1>6. TypeOK'
  BY <1>1, <1>2, <1>5 DEF WInv, TypeOK
<1>7. OnlyValidRuns' /\ ReportsFindings' /\ ExitHonest'
  BY <1>1, <1>2 DEF WInv, OnlyValidRuns, ReportsFindings, ExitHonest
<1>8. StartedInOrder'
  <2>1. \A t \in Targets : thread[t].pc = "queued" => t \notin Busy
    BY DEF Busy
  <2> QED BY <1>3, <2>1 DEF WInv, StartedInOrder
<1>9. OnlyWebuiOutlasts'
  <2> SUFFICES ASSUME ~Webui, NEW t \in Targets
               PROVE  thread'[t].age <= Budget /\ thread'[t].pc # "webui"
    BY DEF OnlyWebuiOutlasts, TargetInBudget
  <2>1. thread[t].age <= Budget /\ thread[t].pc # "webui"
    BY DEF WInv, OnlyWebuiOutlasts, TargetInBudget
  <2>2. CASE t \in Busy
    <3>1. thread[t].pc = "working"
      BY <2>1, <2>2 DEF Busy
    <3>2. thread[t].age + 1 <= Budget
      BY <1>1, <3>1, Types, Numbers
    <3> QED BY <1>3, <2>1, <2>2, <3>2
  <2>3. CASE t \notin Busy
    BY <1>3, <2>1, <2>3
  <2> QED BY <2>2, <2>3
<1>10. Punctual'
  <2> SUFFICES ASSUME TargetInBudget'
               PROVE  /\ job.age + 1 <= Rounds * Budget
                      /\ \A t \in Targets : OnTime(t)'
    BY <1>2 DEF Punctual
  <2>1. TargetInBudget
    <3>1. \A t \in Targets : thread'[t].age <= Budget
      BY DEF TargetInBudget
    <3>2. \A t \in Targets : thread[t].age <= thread'[t].age
      BY <1>3, Types
    <3>3. \A t \in Targets : thread[t].age \in Nat /\ thread'[t].age \in Nat
      BY <1>3, Types
    <3> QED BY <3>1, <3>2, <3>3, Numbers DEF TargetInBudget
  <2>2. job.age <= Rounds * Budget /\ \A t \in Targets : OnTime(t)
    BY <2>1 DEF WInv, Punctual
  <2>3. ASSUME NEW u \in Busy
        PROVE  u \in Targets /\ job.age + 1 <= Round(u) * Budget + Budget
    <3>1. u \in Targets
      BY DEF Busy
    <3>2. job.age <= Round(u) * Budget + thread[u].age
      BY <2>2, <3>1 DEF OnTime
    <3>3. thread[u].age + 1 <= Budget
      BY <1>3, <3>1 DEF TargetInBudget
    <3> QED BY <3>1, <3>2, <3>3, RoundNat, Types, Numbers
  <2>4. ASSUME NEW t \in Targets, thread[t].pc = "queued"
        PROVE  job.age + 1 <= Round(t) * Budget
    <3>1. PICK u \in Busy : u + Concurrency <= t
      BY <1>1, <2>4, WaitsForSomebody
    <3>2. Round(u) * Budget + Budget <= Round(t) * Budget
      BY <2>3, <3>1, NextRound
    <3> QED BY <2>3, <3>2, RoundNat, Types, Numbers
  <2>5. \A t \in Targets : OnTime(t)'
    <3> SUFFICES ASSUME NEW t \in Targets PROVE OnTime(t)'
      OBVIOUS
    <3>1. thread'[t].pc = "queued" => job'.age <= Round(t) * Budget
      BY <1>2, <1>3, <2>4
    <3>2. ASSUME t \in Busy'
          PROVE  job'.age <= Round(t) * Budget + thread'[t].age
      <4>1. thread'[t].age = thread[t].age + 1 /\ t \in Busy
        BY <1>3, <1>4, <3>2
      <4>2. job.age <= Round(t) * Budget + thread[t].age
        BY <2>2, <4>1 DEF OnTime
      <4> QED BY <1>2, <4>1, <4>2, RoundNat, Types
    <3> QED BY <3>1, <3>2 DEF OnTime
  <2>6. \E u \in Targets : job.age + 1 <= Round(u) * Budget + Budget
    <3>1. PICK t \in Targets : thread[t].pc # "done"
      BY <1>1 DEF AllDone
    <3>2. thread[t].pc \in {"queued", "working", "webui", "done"}
      BY Types DEF Threads
    <3>3. CASE thread[t].pc = "queued"
      BY <2>4, <3>3, RoundNat, Types, Numbers
    <3>4. CASE thread[t].pc # "queued"
      <4>1. t \in Busy
        BY <3>1, <3>2, <3>4 DEF Busy
      <4> QED BY <2>3, <4>1
    <3> QED BY <3>3, <3>4
  <2>7. PICK u \in Targets : job.age + 1 <= Round(u) * Budget + Budget
    BY <2>6
  <2>8. Round(u) * Budget + Budget <= Rounds * Budget
    BY LastRound
  <2> QED BY <2>5, <2>7, <2>8, LastRound, RoundNat, Types, Numbers
<1> QED BY <1>6, <1>7, <1>8, <1>9, <1>10 DEF WInv

-----------------------------------------------------------------------------
(* The theorems.                                                           *)

LEMMA InitWInv ==
  ASSUME Init PROVE WInv
<1>1. /\ env \in Env /\ pending = TRUE /\ thread = Queued /\ N!Init
      /\ job = [pc |-> "none", age |-> 0, exit |-> None, how |-> "returned"]
      /\ found = [t \in Targets |-> None]
  BY DEF Init
<1>2. C!CInv /\ N!TypeOK
  <2>1. NP!CInv
    BY <1>1, InitIsInit, NotifierFacts, NP!InitConverges
  <2> QED BY <2>1, CInvIsCInv, TypeIsType DEF NP!CInv, NP!NInv
<1>3. job \in Jobs /\ job.age = 0 /\ job.pc = "none" /\ job.exit # 0
  <2>1. None # 0
    BY WatchdogAssumption
  <2>2. 0 \in 0 .. JobLimit
    BY Numbers
  <2> QED BY <1>1, <2>1, <2>2 DEF Jobs
<1>4. TypeOK
  BY <1>1, <1>2, <1>3, QueuedIs DEF TypeOK
<1>5. OnlyValidRuns /\ ExitHonest
  BY <1>3 DEF OnlyValidRuns, ExitHonest
<1>6. ReportsFindings
  BY <1>1, <1>3 DEF N!Init, ReportsFindings
<1>7. InTime
  BY <1>1, <1>3, Fresh
<1> QED BY <1>2, <1>4, <1>5, <1>6, <1>7 DEF InTime, WInv

LEMMA NextWInv ==
  ASSUME WInv, [Next]_vars PROVE WInv'
<1>1. C!CInv' /\ N!TypeOK'
  BY NotifierKeeps DEF WInv
<1>2. CASE Next
  BY <1>1, <1>2, LaunchKeeps, StartKeeps, FinishKeeps, ReportNobodyKeeps, HandOverKeeps,
     NotifyKeeps, ReturnKeeps, BusyTickKeeps, IdleTickKeeps, KillKeeps, MutateKeeps,
     CheckWebuiKeeps, CutShortKeeps
  DEF Next, Progress, Pool
<1>3. CASE UNCHANGED vars
  <2>1. UNCHANGED <<env, pending, job, thread, found, marker, result, queue, todo>>
    BY <1>3 DEF vars, notifyVars
  <2>2. TypeOK' /\ OnlyValidRuns' /\ ReportsFindings' /\ ExitHonest'
    BY <1>1, <2>1 DEF WInv, TypeOK, OnlyValidRuns, ReportsFindings, ExitHonest
  <2>3. StartedInOrder' /\ OnlyWebuiOutlasts'
    BY <2>1 DEF WInv, StartedInOrder, OnlyWebuiOutlasts, TargetInBudget
  <2>4. Punctual'
    BY <2>1 DEF WInv, Punctual, TargetInBudget, OnTime, Busy
  <2> QED BY <1>1, <2>2, <2>3, <2>4 DEF WInv
<1> QED BY <1>2, <1>3

(* The inductive invariant: what a run of the workflow has found, handed   *)
(* over and left behind, and how late it can be, in every state of the     *)
(* schedule, the job, its thread pool and its notifications.               *)
THEOREM Invariant == Spec => []WInv
  BY InitWInv, NextWInv, PTL DEF Spec

(* Every variable keeps its type: the job is cut off by timeout-minutes.   *)
THEOREM TypeCorrect == Spec => []TypeOK
<1>1. WInv => TypeOK
  BY DEF WInv
<1> QED BY <1>1, Invariant, PTL

(* main() exits with 0 only if every target is healthy or deferred and, if *)
(* it notifies, no marker of a healthy target is left, whatever runs were  *)
(* killed, cut short or failed to notify before.                           *)
THEOREM ExitsAreHonest == Spec => []ExitHonest
<1>1. WInv => ExitHonest
  BY DEF WInv
<1> QED BY <1>1, Invariant, PTL

(* Orchestrator.run takes no longer than ceil(targets / workers) budgets,  *)
(* unless a web UI check outlasts its target's.                            *)
THEOREM RunsAreBounded == Spec => []RunBounded
<1>1. WInv => RunBounded
  BY Numbers DEF WInv, Punctual, OnlyWebuiOutlasts, RunBounded
<1> QED BY <1>1, Invariant, PTL

(* Without a web UI to be checked no recovery outlasts its budget.         *)
THEOREM TargetsAreInBudget ==
  ASSUME ~Webui PROVE Spec => []TargetInBudget
<1>1. WInv => TargetInBudget
  BY DEF WInv, OnlyWebuiOutlasts
<1> QED BY <1>1, Invariant, PTL

(* The runs of the workflow are runs of the Notifier: what is proved of    *)
(* its steps holds of main()'s, whoever cuts them short.                   *)
THEOREM NotifierIsUsed == Spec => N!Init /\ [][N!Next]_(N!vars)
<1>1. Init => N!Init
  BY DEF Init
<1>2. [Next]_vars => [N!Next]_(N!vars)
  BY NotifierStep
<1> QED BY <1>1, <1>2, PTL DEF Spec
=============================================================================
