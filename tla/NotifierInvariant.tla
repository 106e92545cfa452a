-------------------------- MODULE NotifierInvariant --------------------------
(***************************************************************************)
(* The inductive invariants of Notifier: what TLC checks on an instance and*)
(* Notifier_proofs and NotifierConvergence_proofs prove in general.        *)
(***************************************************************************)
EXTENDS Notifier

(* The calls that may be left for a key when a run is about to make one:   *)
(* an incident's marker comes last, after its email.                       *)
Planned(k, calls) ==
  \/ \E fp \in Fingerprints :
       \/ calls = <<Mail(k, fp), Marker(k, fp)>>
       \/ fp \in alerted[k] /\ calls = <<Marker(k, fp)>>
  \/ \E what \in {"recovery", "resolved"} :
       calls \in {<<Mail(k, what)>>, <<Mail(k, what), Marker(k, None)>>}
  \/ calls = <<Marker(k, None)>>

(* Whoever is in the queue belongs to the run.                             *)
Enlisted ==
  \A i \in DOMAIN queue :
    Reporting /\ (queue[i] \in Targets => queue[i] \in Selected)

(* Every marker that exists or is about to be written was mailed.          *)
NInv ==
  /\ TypeOK
  /\ Enlisted
  /\ todo # <<>> => Reporting /\ \E k \in Keys : Planned(k, todo)
  /\ MarkerWasMailed
-----------------------------------------------------------------------------
(* What makes the markers converge and keeps the recipient up to date.     *)

(* The calls left for a key are those that bring its marker and its last   *)
(* email together.                                                         *)
Following(k, calls) ==
  \/ \E fp \in Fingerprints :
       \/ marker[k] # fp /\ calls = <<Mail(k, fp), Marker(k, fp)>>
       \/ told[k] = fp /\ calls = <<Marker(k, fp)>>
  \/ \E what \in {"recovery", "resolved"} :
       calls = <<Mail(k, what), Marker(k, None)>>
  \/ marker[k] = None /\ calls = <<Mail(k, "recovery")>>
  \/ /\ faults = 0 /\ SelfHosted => told[k] \notin Fingerprints
     /\ calls = <<Marker(k, None)>>

(* The marker a key will have once the calls that are left were made.      *)
After(calls, now, k) ==
  IF calls # <<>> /\ calls[Len(calls)].op = "marker" /\ calls[Len(calls)].key = k
  THEN calls[Len(calls)].what ELSE now

Outlook(k) == After(todo, marker[k], k)

Waiting(k) == \E i \in DOMAIN queue : queue[i] = k

(* The outcome of a target is what its marker will say.                    *)
Fits(t) ==
  /\ IsFailure(result[t]) => Outlook(t) = Fingerprint(result[t].condition)
  /\ result[t].recovered => Outlook(t) = None

(* A run has seen to every key that does not wait for it.                  *)
OnCourse ==
  Reporting =>
    IF RolledUp
    THEN Waiting(HOST_ALIAS) \/ (queue = <<>> /\ Outlook(HOST_ALIAS) # None)
    ELSE /\ Waiting(HOST_ALIAS) \/ Outlook(HOST_ALIAS) = None
         /\ \A t \in Selected : Waiting(t) \/ Fits(t)

(* The host's key comes first, in self-hosted mode only, and its incidents *)
(* have no condition.                                                      *)
HostKept ==
  /\ marker[HOST_ALIAS] \in {None, ""}
  /\ ~SelfHosted => marker[HOST_ALIAS] = None
  /\ \A i \in DOMAIN queue : queue[i] = HOST_ALIAS => i = 1 /\ SelfHosted
  /\ \A i \in DOMAIN todo : todo[i].key = HOST_ALIAS =>
       SelfHosted /\ (todo[i].op = "marker" => todo[i].what \in {None, ""})

(* A marker and the last email about its key agree.                        *)
Agreed(k) ==
  IF marker[k] = None
  THEN alerted[k] = {} /\ (SelfHosted => told[k] \notin Fingerprints)
  ELSE told[k] = marker[k]

(* The email was sent and its marker is still to be written.               *)
Owed(k) == todo # <<>> /\ todo[1].op = "marker" /\ todo[1].key = k

InStep == faults = 0 => \A k \in Keys : Owed(k) \/ Agreed(k)

CInv ==
  /\ NInv
  /\ todo # <<>> => \E k \in Keys : Following(k, todo)
  /\ HostKept
  /\ OnCourse
  /\ InStep
=============================================================================
