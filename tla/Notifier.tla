------------------------------ MODULE Notifier ------------------------------
(***************************************************************************)
(* Notifications and their deduplication over many runs: Notifier.process, *)
(* _process_host and AgentMailIncidentStore of src/watchdog/notify.py.     *)
(*                                                                         *)
(* The only state that outlives a run is the markers in the inbox.  What   *)
(* the code reads of them is the newest marker of a key, so a key's state  *)
(* is the fingerprint of that marker, None if it is RESOLVED or absent.    *)
(* Runs do not overlap (the workflow's concurrency group), so between two  *)
(* calls of one run no marker changes and a lookup belongs to the decision *)
(* that follows it.                                                        *)
(*                                                                         *)
(* Every call may fail (NotificationError), may fail although the server   *)
(* did what was asked, and the job may be killed at any point: each ends   *)
(* the run with the calls that were left undone.                           *)
(***************************************************************************)
EXTENDS Naturals, Sequences, FiniteSets

CONSTANTS
  None,        \* no marker, no condition, no run
  NumTargets,  \* the configured targets are 1 .. NumTargets, in order
  HOST_ALIAS,  \* the pseudo-alias of the host-down roll-up
  SelfHosted,  \* the mode of the configuration
  Conditions,  \* conditions a verdict may carry ("host_unreachable" is one)
  MaxFaults    \* bound: how many runs are cut short

ASSUME NotifierAssumption ==
  /\ NumTargets \in Nat \ {0}
  /\ HOST_ALIAS \notin 1 .. NumTargets
  /\ SelfHosted \in BOOLEAN
  /\ MaxFaults \in Nat
  /\ "host_unreachable" \in Conditions
  /\ None \notin Conditions \cup {"", "recovery", "resolved"}
  /\ {"", "recovery", "resolved"} \cap Conditions = {}

Targets == 1 .. NumTargets
Keys == Targets \cup {HOST_ALIAS}

(* condition_fingerprint: "" for no condition.                             *)
Fingerprint(condition) == IF condition = None THEN "" ELSE condition
Fingerprints == Conditions \cup {""}

(* What of a TargetOutcome the notifier looks at.  In Railway mode an      *)
(* outcome has no condition; in self-hosted mode it is never deferred, and *)
(* an exception leaves neither classification nor condition.               *)
Outcome(recovered, deferred, acted, condition) ==
  [recovered |-> recovered, deferred |-> deferred, acted |-> acted,
   condition |-> condition]

Outcomes ==
  {Outcome(TRUE, FALSE, acted, None) : acted \in BOOLEAN}
    \cup IF SelfHosted
         THEN {Outcome(FALSE, FALSE, FALSE, c) : c \in Conditions \cup {None}}
         ELSE {Outcome(FALSE, deferred, FALSE, None) : deferred \in BOOLEAN}

ASSUME NoneAssumption == \A S \in SUBSET Targets : None \notin [S -> Outcomes]

VARIABLES
  marker,   \* newest marker of each key: an active fingerprint, or None
  result,   \* the outcomes of the run being reported, None between runs
  queue,    \* the keys still to be looked at
  todo,     \* the calls still to be made for the key that was looked at
  faults,   \* how many runs were cut short
  told,     \* history: the last email about each key
  alerted   \* history: the incidents mailed since the last RESOLVED marker

vars == <<marker, result, queue, todo, faults, told, alerted>>

Mails == Fingerprints \cup {"recovery", "resolved"}

Calls ==
  [key : Keys, op : {"mail"}, what : Mails]
    \cup [key : Keys, op : {"marker"}, what : Fingerprints \cup {None}]

TypeOK ==
  /\ marker \in [Keys -> Fingerprints \cup {None}]
  /\ result = None \/ \E S \in SUBSET Targets : result \in [S -> Outcomes]
  /\ queue \in Seq(Keys)
  /\ todo \in Seq(Calls)
  /\ faults \in 0 .. MaxFaults
  /\ told \in [Keys -> Mails \cup {None}]
  /\ alerted \in [Keys -> SUBSET Fingerprints]

Init ==
  /\ marker = [k \in Keys |-> None]
  /\ result = None
  /\ queue = <<>>
  /\ todo = <<>>
  /\ faults = 0
  /\ told = [k \in Keys |-> None]
  /\ alerted = [k \in Keys |-> {}]

-----------------------------------------------------------------------------
(* A run's result.                                                         *)

Reporting == result # None
Selected == DOMAIN result

IsRecovery(o) == o.recovered /\ o.acted
IsFailure(o) == ~o.recovered /\ ~o.deferred
IsPassiveHealthy(o) == o.recovered /\ ~o.acted /\ ~o.deferred

Unreachable(o) == o.condition = "host_unreachable"

(* Mutant: one unreachable target is enough.                               *)
HostDownAny == \E t \in Selected : Unreachable(result[t])

(* RunResult.host_down: "every target (more than one) unreachable".        *)
HostDown ==
  /\ \E t, u \in Selected : t # u
  /\ \A t \in Selected : Unreachable(result[t])

(* A run selects every target, or one (--service).                         *)
Begin ==
  /\ ~Reporting
  /\ \E order \in {[i \in Targets |-> i]} \cup {<<t>> : t \in Targets} :
       /\ result' \in [{order[i] : i \in DOMAIN order} -> Outcomes]
       /\ queue' = IF SelfHosted THEN <<HOST_ALIAS>> \o order ELSE order
  /\ UNCHANGED <<marker, todo, faults, told, alerted>>

-----------------------------------------------------------------------------
(* What is done about a key, as the calls that follow its lookup.          *)

Mail(k, what) == [key |-> k, op |-> "mail", what |-> what]
Marker(k, what) == [key |-> k, op |-> "marker", what |-> what]

IsActive(k) == marker[k] # None

(* Mutant: the marker is written before the email is sent.                 *)
MarkFirst(k, fp) == <<Marker(k, fp), Mail(k, fp)>>

Incident(k, fp) == <<Mail(k, fp), Marker(k, fp)>>

(* Mutant: an active incident suppresses every condition.                  *)
AlertOnAnyMarker(k, fp) == IF IsActive(k) THEN <<>> ELSE Incident(k, fp)

(* Mutant: every failing run alerts.                                       *)
AlertAlways(k, fp) == Incident(k, fp)

Alert(k, fp) == IF marker[k] = fp THEN <<>> ELSE Incident(k, fp)

(* clear() writes a RESOLVED marker only over an active one.               *)
Recovery(k) ==
  IF IsActive(k) THEN <<Mail(k, "recovery"), Marker(k, None)>>
  ELSE <<Mail(k, "recovery")>>

(* Mutant: a lingering marker stays when the target is healthy again.      *)
KeepMarker(k) == IF IsActive(k) THEN <<Mail(k, "resolved")>> ELSE <<>>

Resolve(k) ==
  IF ~IsActive(k) THEN <<>>
  ELSE IF SelfHosted THEN <<Mail(k, "resolved"), Marker(k, None)>>
  ELSE <<Marker(k, None)>>

(* One pass of the loop in process().                                      *)
TakeTarget ==
  /\ todo = <<>> /\ queue # <<>>
  /\ LET t == Head(queue) IN
       /\ t \in Targets
       /\ LET o == result[t] IN
            todo' = IF IsRecovery(o) THEN Recovery(t)
                    ELSE IF IsFailure(o) THEN Alert(t, Fingerprint(o.condition))
                    ELSE IF IsPassiveHealthy(o) THEN Resolve(t)
                    ELSE <<>>
       /\ queue' = Tail(queue)
  /\ UNCHANGED <<marker, result, faults, told, alerted>>

(* _process_host, before that loop: the roll-up replaces it.               *)
TakeHost ==
  /\ todo = <<>> /\ queue # <<>>
  /\ Head(queue) = HOST_ALIAS
  /\ IF HostDown
       THEN /\ todo' = IF IsActive(HOST_ALIAS) THEN <<>> ELSE Incident(HOST_ALIAS, "")
            /\ queue' = <<>>
       ELSE /\ todo' = Resolve(HOST_ALIAS)
            /\ queue' = Tail(queue)
  /\ UNCHANGED <<marker, result, faults, told, alerted>>

-----------------------------------------------------------------------------
(* The calls.                                                              *)

Delivered(c) ==
  IF c.op = "mail"
  THEN /\ told' = [told EXCEPT ![c.key] = c.what]
       /\ alerted' = [alerted EXCEPT ![c.key] =
                        IF c.what \in Fingerprints THEN @ \cup {c.what} ELSE @]
       /\ UNCHANGED marker
  ELSE /\ marker' = [marker EXCEPT ![c.key] = c.what]
       /\ alerted' = [alerted EXCEPT ![c.key] = IF c.what = None THEN {} ELSE @]
       /\ UNCHANGED told

Call ==
  /\ todo # <<>>
  /\ Delivered(Head(todo))
  /\ todo' = Tail(todo)
  /\ UNCHANGED <<result, queue, faults>>

(* The run ends: what was still to be done is not done.                    *)
Stop ==
  /\ result' = None
  /\ queue' = <<>>
  /\ todo' = <<>>

Finished == Reporting /\ queue = <<>> /\ todo = <<>>

End == Finished /\ Stop /\ UNCHANGED <<marker, faults, told, alerted>>

(* A lookup or a call fails, or the job is killed between two calls.       *)
Abort ==
  /\ Reporting /\ ~Finished
  /\ faults < MaxFaults
  /\ faults' = faults + 1
  /\ Stop
  /\ UNCHANGED <<marker, told, alerted>>

(* A call is carried out, but the run ends before it knows.                *)
AbortInDoubt ==
  /\ todo # <<>>
  /\ faults < MaxFaults
  /\ faults' = faults + 1
  /\ Delivered(Head(todo))
  /\ Stop

Next ==
  Begin \/ TakeTarget \/ TakeHost \/ Call \/ End \/ Abort \/ AbortInDoubt

(* The schedule starts run after run, and each run's calls time out.       *)
Spec ==
  /\ Init
  /\ [][Next]_vars
  /\ WF_vars(Begin \/ TakeTarget \/ TakeHost \/ Call \/ End)

-----------------------------------------------------------------------------
(* Properties.                                                             *)

(* The whole host is unreachable, of more than one target.                 *)
RolledUp ==
  /\ SelfHosted
  /\ Cardinality(Selected) > 1
  /\ \A t \in Selected : result[t].condition = "host_unreachable"

(* An incident is suppressed only if the recipient was told: an active     *)
(* marker's condition was mailed since the last time the key was resolved, *)
(* whatever calls were lost and wherever runs were cut short.              *)
MarkerWasMailed ==
  \A k \in Keys : IsActive(k) => marker[k] \in alerted[k]

(* A run that reports to its end leaves the markers as its result says,    *)
(* whatever earlier runs left behind.                                      *)
MarkersConverge ==
  Finished =>
    IF RolledUp THEN IsActive(HOST_ALIAS)
    ELSE /\ ~IsActive(HOST_ALIAS)
         /\ \A t \in Selected :
              /\ IsFailure(result[t])
                   => marker[t] = Fingerprint(result[t].condition)
              /\ result[t].recovered => ~IsActive(t)

(* As long as no run was cut short, the recipient knows: of a target that  *)
(* failed, its condition; of one that recovered, in self-hosted mode, that *)
(* it no longer fails.                                                     *)
RecipientKnows ==
  Finished /\ faults = 0 =>
    IF RolledUp THEN told[HOST_ALIAS] = ""
    ELSE \A t \in Selected :
           /\ IsFailure(result[t])
                => told[t] = Fingerprint(result[t].condition)
           /\ SelfHosted /\ result[t].recovered => told[t] \notin Fingerprints

(* And is not told twice in a row: as long as a condition is the last that *)
(* was mailed about a key, it is not mailed again unless the key has been  *)
(* resolved.  One that comes back after another took its place is, as the  *)
(* code compares with the newest marker only.                              *)
NoRepeat ==
  [][\A k \in Keys, fp \in Fingerprints :
       todo # <<>> /\ Head(todo) = Mail(k, fp) /\ faults = 0 /\ faults' = 0
         => told[k] # fp \/ alerted[k] = {}]_vars

(* A marker does not outlive its incident: a target that every later run   *)
(* finds healthy ends up without one, "so a later outage alerts".          *)
HealthyWhenReported(t) ==
  Reporting => t \in Selected /\ result[t].recovered /\ ~RolledUp

LingeringMarkerCleared ==
  \A t \in Targets :
    <>[]HealthyWhenReported(t) => <>[](~IsActive(t))

(* NOT guaranteed.  "Silently clear a lingering incident marker so a later *)
(* outage alerts": a run that reports a failure to its end has told the    *)
(* recipient, also after runs that were cut short.                         *)
LaterOutageAlerts ==
  Finished /\ ~RolledUp =>
    \A t \in Selected : IsFailure(result[t]) => told[t] \in Fingerprints

(* NOT guaranteed.  "host is reachable again": that is mailed only if a    *)
(* target of the run was reached.                                          *)
HostReached ==
  todo # <<>> /\ Head(todo) = Mail(HOST_ALIAS, "resolved")
    => \E t \in Selected : ~Unreachable(result[t])
=============================================================================
