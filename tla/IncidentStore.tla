---------------------------- MODULE IncidentStore ---------------------------
(***************************************************************************)
(* AgentMailIncidentStore of src/watchdog/notify.py: incident markers as   *)
(* messages of an inbox that nothing is ever deleted from and that         *)
(* receives other mail too.                                                *)
(*                                                                         *)
(* The store is used as the Notifier uses it: an incident is marked after  *)
(* a lookup that did not answer its condition, by one run at a time.  A    *)
(* message that is sent may be lost, or delivered although the sender is   *)
(* told otherwise; either ends the run.                                    *)
(***************************************************************************)
EXTENDS Naturals, Sequences, FiniteSets, FiniteSetsExt

CONSTANTS
  None, Keys, Fingerprints,  \* of MarkerRegister
  Mention,      \* what a message says that is no marker
  LookupLimit,  \* _LOOKUP_LIMIT
  MaxInbox,     \* bound: messages in the inbox
  MaxMentions   \* bound: messages that contain a key and are no marker of it

Answers == [key : Keys, fingerprint : Fingerprints \cup {None}]

ASSUME IncidentStoreAssumption ==
  /\ LookupLimit \in Nat \ {0}
  /\ {MaxInbox, MaxMentions} \subseteq Nat
  /\ MaxMentions < LookupLimit
  /\ None \notin Keys \cup Fingerprints
  /\ Mention \notin Fingerprints \cup {None}
  /\ None \notin Answers

VARIABLES
  inbox,    \* the messages, the newest last
  answer,   \* the answer of the lookup the caller acts on
  clearing  \* the key whose clear() found an incident, or None

vars == <<inbox, answer, clearing>>

(* A subject contains a key or none, and says an incident's fingerprint,   *)
(* None for RESOLVED, or something else, as a reply to a marker does.      *)
Messages ==
  [key : Keys, says : Fingerprints \cup {None, Mention}]
    \cup [key : {None}, says : {Mention}]

Marker(k, fp) == [key |-> k, says |-> fp]

TypeOK ==
  /\ inbox \in Seq(Messages)
  /\ answer \in Answers \cup {None}
  /\ clearing \in Keys \cup {None}

Init == inbox = <<>> /\ answer = None /\ clearing = None

-----------------------------------------------------------------------------
(* The server's filter: the subject contains the key.                      *)
About(k) == {i \in DOMAIN inbox : inbox[i].key = k}

(* Mutant: the page begins with the oldest message.                        *)
OldestPage(k) ==
  {i \in About(k) : Cardinality({j \in About(k) : j < i}) < LookupLimit}

(* list_messages: the newest messages that contain the key.                *)
Page(k) ==
  {i \in About(k) : Cardinality({j \in About(k) : j > i}) < LookupLimit}

(* Mutant: whatever contains the key passes for a marker.                  *)
AnyMessage(k, listed) == {i \in listed : inbox[i].key = k}

(* The markers of k among the messages that were listed.                   *)
Markers(k, listed) == {i \in listed : inbox[i].key = k /\ inbox[i].says # Mention}

(* active_condition: the newest of them decides.                           *)
Decides(k, listed) ==
  IF Markers(k, listed) = {} THEN None ELSE inbox[Max(Markers(k, listed))].says

ActiveCondition(k) == Decides(k, Page(k))

Lookup(k) ==
  /\ clearing = None
  /\ answer' = [key |-> k, fingerprint |-> ActiveCondition(k)]
  /\ UNCHANGED <<inbox, clearing>>

-----------------------------------------------------------------------------
(* Mutant: whoever looked up marks, whatever the answer.                   *)
LookedUp(k, fp) == answer.key = k

(* The caller marks an incident whose condition was not alerted yet.       *)
Unmarked(k, fp) == answer.key = k /\ answer.fingerprint # fp

Forget == answer' = None /\ clearing' = None

Deliver(message) ==
  /\ Len(inbox) < MaxInbox
  /\ inbox' = Append(inbox, message)

(* mark_active                                                             *)
MarkActive(k, fp) ==
  /\ clearing = None /\ answer # None
  /\ Unmarked(k, fp)
  /\ Deliver(Marker(k, fp))
  /\ Forget

(* clear() looks the key up itself, and is done if there is no incident.   *)
BeginClear(k) ==
  /\ clearing = None
  /\ answer' = [key |-> k, fingerprint |-> ActiveCondition(k)]
  /\ clearing' = IF ActiveCondition(k) # None THEN k ELSE None
  /\ UNCHANGED inbox

EndClear ==
  /\ clearing # None
  /\ Deliver(Marker(clearing, None))
  /\ Forget

(* A call fails, or the run ends.  (A marker that is delivered in doubt is *)
(* MarkActive or EndClear: they leave nothing that the caller acts on.)    *)
Fail ==
  /\ answer # None
  /\ Forget
  /\ UNCHANGED inbox

(* Mail that is no marker.                                                 *)
Mentions(k) == {i \in About(k) : inbox[i].says = Mention}

OtherMail ==
  /\ \E k \in Keys \cup {None} :
       /\ k # None => Cardinality(Mentions(k)) < MaxMentions
       /\ Deliver([key |-> k, says |-> Mention])
  /\ UNCHANGED <<answer, clearing>>

Next ==
  \/ \E k \in Keys :
       \/ Lookup(k) \/ BeginClear(k)
       \/ \E fp \in Fingerprints : MarkActive(k, fp)
  \/ EndClear \/ Fail \/ OtherMail

Spec == Init /\ [][Next]_vars

-----------------------------------------------------------------------------
(* Properties.                                                             *)

(* The store implements a register for each key: whatever other mail there *)
(* is, a lookup answers the condition of the newest of all the key's       *)
(* markers, because fewer than LookupLimit messages can bury it.           *)
active == [k \in Keys |-> Decides(k, DOMAIN inbox)]

Register == INSTANCE MarkerRegister WITH active <- active

ImplementsRegister == Register!Spec

(* A key is never resolved twice in a row or before it had an incident,    *)
(* nor the same condition marked twice in a row: every marker in the inbox *)
(* says something new, which grows with the incidents, not with the runs.  *)
MarkersAlternate ==
  \A k \in Keys : LET markers == Markers(k, DOMAIN inbox) IN
    \A j \in markers :
      /\ \A i \in markers : i < j /\ inbox[i].says = inbox[j].says
           => \E m \in markers : i < m /\ m < j /\ inbox[m].says # inbox[j].says
      /\ inbox[j].says = None => \E i \in markers : i < j

(* NOT guaranteed.  "An incident is active while more INCIDENT markers     *)
(* than RESOLVED markers exist for its opaque key."                        *)
Incidents(k) == {i \in Markers(k, DOMAIN inbox) : inbox[i].says # None}
Resolved(k) == Markers(k, DOMAIN inbox) \ Incidents(k)

ActiveByCount ==
  answer # None =>
    (answer.fingerprint # None <=>
       Cardinality(Incidents(answer.key)) > Cardinality(Resolved(answer.key)))
=============================================================================
