--------------------------- MODULE MarkerRegister ---------------------------
(***************************************************************************)
(* What AgentMailIncidentStore promises to the Notifier: one register for  *)
(* each key, holding the fingerprint of its active incident or None, and   *)
(* lookups that answer what the register holds.                            *)
(***************************************************************************)
CONSTANTS
  None,          \* no active incident, no lookup
  Keys,          \* the opaque keys
  Fingerprints   \* the conditions an incident can have

VARIABLES
  active,  \* the register of each key
  answer   \* the last lookup's answer, until the registers change

Answer(k, fp) == [key |-> k, fingerprint |-> fp]

Init ==
  /\ active = [k \in Keys |-> None]
  /\ answer = None

Lookup(k) ==
  /\ answer' = Answer(k, active[k])
  /\ UNCHANGED active

(* An incident is written over another condition only, a resolution over   *)
(* an incident only.                                                       *)
Write(k, fp) ==
  /\ active[k] # fp
  /\ active' = [active EXCEPT ![k] = fp]
  /\ answer' = None

(* The run ends, or a write is lost.                                       *)
Forget ==
  /\ answer' = None
  /\ UNCHANGED active

Next ==
  \/ \E k \in Keys : Lookup(k) \/ \E fp \in Fingerprints \cup {None} : Write(k, fp)
  \/ Forget

Spec == Init /\ [][Next]_<<active, answer>>
=============================================================================
