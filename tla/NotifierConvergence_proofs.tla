---------------------- MODULE NotifierConvergence_proofs ---------------------
(***************************************************************************)
(* Theorems about what a run of Notifier leaves behind: that the markers   *)
(* converge and that the recipient is told, once, for every number of      *)
(* targets, every set of conditions and both modes.                        *)
(***************************************************************************)
EXTENDS Notifier_proofs, FiniteSetTheorems

-----------------------------------------------------------------------------
(* Calls and plans.                                                        *)

(* The head of a sequence is its first element, if it has one.             *)
LEMMA HeadIsFirst ==
  ASSUME NEW S, NEW s \in Seq(S), s # <<>>
  PROVE  1 \in DOMAIN s /\ s[1] = Head(s)
  OBVIOUS

(* The empty sequence has no elements.                                     *)
LEMMA EmptyDomain == DOMAIN <<>> = {}
  OBVIOUS

(* What an email and a marker say.                                         *)
LEMMA Said ==
  ASSUME NEW k, NEW w
  PROVE  /\ Mail(k, w).op = "mail" /\ Mail(k, w).key = k /\ Mail(k, w).what = w
         /\ Marker(k, w).op = "marker" /\ Marker(k, w).key = k
         /\ Marker(k, w).what = w
  BY DEF Mail, Marker

(* The values that are told apart.                                         *)
LEMMA Distinct ==
  /\ None \notin Fingerprints /\ "" \in Fingerprints
  /\ "recovery" \notin Fingerprints /\ "resolved" \notin Fingerprints
  /\ Fingerprints \subseteq Mails /\ {"recovery", "resolved"} \subseteq Mails
  /\ HOST_ALIAS \notin Targets /\ HOST_ALIAS \in Keys /\ Targets \subseteq Keys
  BY NotifierAssumption DEF Fingerprints, Mails, Targets, Keys

(* The last call of a plan decides.                                        *)
LEMMA LastDecides ==
  ASSUME NEW calls, NEW last, NEW now, NEW j,
         calls # <<>>, calls[Len(calls)] = last
  PROVE  After(calls, now, j)
           = IF last.op = "marker" /\ last.key = j THEN last.what ELSE now
  BY DEF After

(* Without a call left, a marker is what it is now.                        *)
LEMMA OutlookNothing ==
  ASSUME NEW now, NEW j
  PROVE  After(<<>>, now, j) = now
  BY DEF After

(* An email leaves it as it is.                                            *)
LEMMA OutlookMail ==
  ASSUME NEW k, NEW w, NEW now, NEW j
  PROVE  After(<<Mail(k, w)>>, now, j) = now
<1>1. Mail(k, w).op = "mail"
  BY Said
<1>2. \A c : <<c>> # <<>> /\ <<c>>[Len(<<c>>)] = c
  OBVIOUS
<1> QED BY <1>1, <1>2, LastDecides

(* A marker that is written is what remains.                               *)
LEMMA OutlookMarker ==
  ASSUME NEW k, NEW w, NEW now, NEW j
  PROVE  After(<<Marker(k, w)>>, now, j) = IF j = k THEN w ELSE now
<1>1. Marker(k, w).op = "marker" /\ Marker(k, w).key = k /\ Marker(k, w).what = w
  BY Said
<1>2. \A c : <<c>> # <<>> /\ <<c>>[Len(<<c>>)] = c
  OBVIOUS
<1> QED BY <1>1, <1>2, LastDecides

(* So is one that is written after an email.                               *)
LEMMA OutlookBoth ==
  ASSUME NEW k, NEW v, NEW w, NEW now, NEW j
  PROVE  After(<<Mail(k, v), Marker(k, w)>>, now, j) = IF j = k THEN w ELSE now
<1>1. Marker(k, w).op = "marker" /\ Marker(k, w).key = k /\ Marker(k, w).what = w
  BY Said
<1>2. \A b, c : <<b, c>> # <<>> /\ <<b, c>>[Len(<<b, c>>)] = c
  OBVIOUS
<1> QED BY <1>1, <1>2, LastDecides

(* What an email changes.                                                  *)
LEMMA MailDone ==
  ASSUME TypeOK, NEW k \in Keys, NEW w \in Mails, Delivered(Mail(k, w))
  PROVE  /\ marker' = marker
         /\ told'[k] = w
         /\ w \notin Fingerprints => alerted' = alerted
         /\ \A j \in Keys \ {k} : told'[j] = told[j] /\ alerted'[j] = alerted[j]
<1>1. /\ marker' = marker
      /\ told' = [told EXCEPT ![k] = w]
      /\ alerted' = [alerted EXCEPT ![k] =
                       IF w \in Fingerprints THEN alerted[k] \cup {w} ELSE alerted[k]]
  BY DEF Delivered, Mail, TypeOK
<1> QED BY <1>1 DEF TypeOK

(* What a marker changes.                                                  *)
LEMMA MarkerDone ==
  ASSUME TypeOK, NEW k \in Keys, NEW w, Delivered(Marker(k, w))
  PROVE  /\ told' = told
         /\ marker'[k] = w
         /\ w = None => alerted'[k] = {}
         /\ \A j \in Keys \ {k} : marker'[j] = marker[j] /\ alerted'[j] = alerted[j]
<1>1. /\ told' = told
      /\ marker' = [marker EXCEPT ![k] = w]
      /\ alerted' = [alerted EXCEPT ![k] = IF w = None THEN {} ELSE alerted[k]]
  BY DEF Delivered, Marker, TypeOK
<1> QED BY <1>1 DEF TypeOK

-----------------------------------------------------------------------------
(* A call.                                                                 *)

(* What a call leaves: the plan's outlook, and keys in step.               *)
Advanced ==
  /\ Tail(todo) # <<>> => \E k \in Keys :
       \/ \E fp \in Fingerprints : told'[k] = fp /\ Tail(todo) = <<Marker(k, fp)>>
       \/ told'[k] \notin Fingerprints /\ Tail(todo) = <<Marker(k, None)>>
  /\ \A j \in Keys : After(Tail(todo), marker'[j], j) = Outlook(j)
  /\ faults = 0 => \A j \in Keys :
       \/ Tail(todo) # <<>> /\ Tail(todo)[1].op = "marker" /\ Tail(todo)[1].key = j
       \/ Agreed(j)'

(* A key nothing happened to is as much in step as it was.                 *)
LEMMA Steady ==
  ASSUME NEW j, Agreed(j), marker'[j] = marker[j], told'[j] = told[j],
         alerted'[j] = alerted[j]
  PROVE  Agreed(j)'
  BY DEF Agreed

(* An email that a marker follows.                                         *)
LEMMA MailAdvances ==
  ASSUME TypeOK, InStep, NEW k \in Keys, NEW v \in Mails,
         NEW w \in Fingerprints \cup {None},
         IF w = None THEN v \notin Fingerprints ELSE v = w,
         todo = <<Mail(k, v), Marker(k, w)>>, Delivered(Head(todo))
  PROVE  Advanced
<1>1. /\ Head(todo) = Mail(k, v) /\ Tail(todo) = <<Marker(k, w)>>
      /\ todo # <<>> /\ todo[1] = Mail(k, v)
  OBVIOUS
<1>2. /\ marker' = marker /\ told'[k] = v
      /\ \A j \in Keys \ {k} : told'[j] = told[j] /\ alerted'[j] = alerted[j]
  BY <1>1, MailDone
<1>3. \A j \in Keys : After(Tail(todo), marker'[j], j) = Outlook(j)
  <2> TAKE j \in Keys
  <2>1. After(<<Marker(k, w)>>, marker[j], j) = IF j = k THEN w ELSE marker[j]
    BY OutlookMarker
  <2>2. Outlook(j) = IF j = k THEN w ELSE marker[j]
    BY OutlookBoth DEF Outlook
  <2> QED BY <1>1, <1>2, <2>1, <2>2
<1>4. Tail(todo)[1].op = "marker" /\ Tail(todo)[1].key = k /\ Tail(todo) # <<>>
  <2>1. Tail(todo)[1] = Marker(k, w) /\ Tail(todo) # <<>>
    BY <1>1
  <2> QED BY <2>1, Said
<1>5. \A j : ~Owed(j)
  <2>1. todo[1].op = "mail"
    BY <1>1, Said
  <2> QED BY <2>1 DEF Owed
<1>6. ASSUME faults = 0, NEW j \in Keys, j # k
      PROVE  Agreed(j)'
  BY <1>2, <1>5, <1>6, Steady DEF InStep
<1>7. \/ \E fp \in Fingerprints : told'[k] = fp /\ Tail(todo) = <<Marker(k, fp)>>
      \/ told'[k] \notin Fingerprints /\ Tail(todo) = <<Marker(k, None)>>
  <2>1. CASE w = None
    BY <1>1, <1>2, <2>1
  <2>2. CASE w # None
    BY <1>1, <1>2, <2>2
  <2> QED BY <2>1, <2>2
<1> QED BY <1>3, <1>4, <1>6, <1>7 DEF Advanced

(* An email that stands alone is that of a recovery without a marker.      *)
LEMMA LoneMailAdvances ==
  ASSUME TypeOK, InStep, NEW k \in Keys, marker[k] = None,
         todo = <<Mail(k, "recovery")>>, Delivered(Head(todo))
  PROVE  Advanced
<1>1. /\ Head(todo) = Mail(k, "recovery") /\ Tail(todo) = <<>>
      /\ todo # <<>> /\ todo[1] = Mail(k, "recovery")
  OBVIOUS
<1>2. /\ marker' = marker /\ told'[k] = "recovery" /\ alerted' = alerted
      /\ \A j \in Keys \ {k} : told'[j] = told[j]
  <2>1. "recovery" \in Mails /\ "recovery" \notin Fingerprints
    BY Distinct
  <2> QED BY <1>1, <2>1, MailDone
<1>3. \A j \in Keys : After(Tail(todo), marker'[j], j) = Outlook(j)
  <2> TAKE j \in Keys
  <2>1. After(<<>>, marker[j], j) = marker[j]
    BY OutlookNothing
  <2>2. Outlook(j) = marker[j]
    BY OutlookMail DEF Outlook
  <2> QED BY <1>1, <1>2, <2>1, <2>2
<1>4. \A j : ~Owed(j)
  <2>1. todo[1].op = "mail"
    BY <1>1, Said
  <2> QED BY <2>1 DEF Owed
<1>5. ASSUME faults = 0, NEW j \in Keys
      PROVE  Agreed(j)'
  <2>1. Agreed(j)
    BY <1>4, <1>5 DEF InStep
  <2>2. CASE j = k
    BY <1>2, <2>1, <2>2, Distinct DEF Agreed
  <2>3. CASE j # k
    BY <1>2, <2>1, <2>3, Steady
  <2> QED BY <2>2, <2>3
<1> QED BY <1>1, <1>3, <1>5 DEF Advanced

(* A marker completes its plan.                                            *)
LEMMA MarkerAdvances ==
  ASSUME TypeOK, InStep, NEW k \in Keys, NEW w \in Fingerprints \cup {None},
         w # None => told[k] = w,
         w = None /\ faults = 0 /\ SelfHosted => told[k] \notin Fingerprints,
         todo = <<Marker(k, w)>>, Delivered(Head(todo))
  PROVE  Advanced
<1>1. /\ Head(todo) = Marker(k, w) /\ Tail(todo) = <<>>
      /\ todo # <<>> /\ todo[1] = Marker(k, w)
  OBVIOUS
<1>2. /\ told' = told /\ marker'[k] = w
      /\ w = None => alerted'[k] = {}
      /\ \A j \in Keys \ {k} : marker'[j] = marker[j] /\ alerted'[j] = alerted[j]
  BY <1>1, MarkerDone
<1>3. \A j \in Keys : After(Tail(todo), marker'[j], j) = Outlook(j)
  <2> TAKE j \in Keys
  <2>1. After(<<>>, marker'[j], j) = marker'[j]
    BY OutlookNothing
  <2>2. Outlook(j) = IF j = k THEN w ELSE marker[j]
    BY OutlookMarker DEF Outlook
  <2> QED BY <1>1, <1>2, <2>1, <2>2
<1>4. \A j : Owed(j) => j = k
  <2>1. todo[1].key = k
    BY <1>1, Said
  <2> QED BY <2>1 DEF Owed
<1>5. ASSUME faults = 0, NEW j \in Keys
      PROVE  Agreed(j)'
  <2>1. CASE j = k
    <3>1. CASE w = None
      BY <1>2, <1>5, <2>1, <3>1 DEF Agreed
    <3>2. CASE w # None
      BY <1>2, <2>1, <3>2 DEF Agreed
    <3> QED BY <3>1, <3>2
  <2>2. CASE j # k
    BY <1>2, <1>4, <1>5, <2>2, Steady DEF InStep
  <2> QED BY <2>1, <2>2
<1> QED BY <1>1, <1>3, <1>5 DEF Advanced

(* Whatever call a plan is at, it advances the plan.                       *)
LEMMA CallAdvances ==
  ASSUME CInv, todo # <<>>, Delivered(Head(todo))
  PROVE  Advanced
<1>1. PICK k \in Keys : Following(k, todo)
  BY DEF CInv
<1>2. TypeOK /\ InStep
  BY DEF CInv, NInv
<1>3. ASSUME NEW fp \in Fingerprints, todo = <<Mail(k, fp), Marker(k, fp)>>
      PROVE  Advanced
  BY <1>2, <1>3, MailAdvances, Distinct
<1>4. ASSUME NEW fp \in Fingerprints, told[k] = fp, todo = <<Marker(k, fp)>>
      PROVE  Advanced
  BY <1>2, <1>4, MarkerAdvances, Distinct
<1>5. ASSUME NEW what \in {"recovery", "resolved"},
             todo = <<Mail(k, what), Marker(k, None)>>
      PROVE  Advanced
  <2>1. what \in Mails /\ what \notin Fingerprints /\ None \in Fingerprints \cup {None}
    BY Distinct
  <2> QED BY <1>2, <1>5, <2>1, MailAdvances
<1>6. ASSUME marker[k] = None, todo = <<Mail(k, "recovery")>>
      PROVE  Advanced
  BY <1>2, <1>6, LoneMailAdvances
<1>7. ASSUME faults = 0 /\ SelfHosted => told[k] \notin Fingerprints,
             todo = <<Marker(k, None)>>
      PROVE  Advanced
  BY <1>2, <1>7, MarkerAdvances
<1> QED BY <1>1, <1>3, <1>4, <1>5, <1>6, <1>7 DEF Following

-----------------------------------------------------------------------------
(* A plan.                                                                 *)

(* A plan is about one key, and the host's is an incident without a        *)
(* condition or the end of one.                                            *)
LEMMA PlanKey ==
  ASSUME NEW k, NEW calls, Following(k, calls)
  PROVE  \A i \in DOMAIN calls : calls[i].key = k
<1>1. \A w : Mail(k, w).key = k /\ Marker(k, w).key = k
  BY Said
<1>2. \A c : (c.key = k => \A i \in DOMAIN <<c>> : <<c>>[i].key = k)
  OBVIOUS
<1>3. \A b, c : (b.key = k /\ c.key = k => \A i \in DOMAIN <<b, c>> : <<b, c>>[i].key = k)
  OBVIOUS
<1> QED BY <1>1, <1>2, <1>3 DEF Following

(* What a plan made for a key has to be: followed, about that key, and     *)
(* leading to the marker it is made for.                                   *)
MadeFor(k, calls, goal) ==
  /\ calls = <<>> \/ Following(k, calls)
  /\ \A i \in DOMAIN calls :
       /\ calls[i].key = k
       /\ calls[i].op = "marker" => calls[i].what = goal
  /\ \A j \in Keys :
       After(calls, marker[j], j) = IF j = k THEN goal ELSE marker[j]

(* The empty plan leads nowhere.                                           *)
LEMMA NothingMade ==
  ASSUME NEW k
  PROVE  MadeFor(k, <<>>, marker[k])
<1>1. \A j : After(<<>>, marker[j], j) = marker[j]
  BY OutlookNothing
<1> QED BY <1>1 DEF MadeFor

(* An incident leads to its marker.                                        *)
LEMMA IncidentMade ==
  ASSUME NEW k \in Keys, NEW fp \in Fingerprints, marker[k] # fp
  PROVE  MadeFor(k, Incident(k, fp), fp)
<1>1. Following(k, Incident(k, fp))
  BY DEF Following, Incident
<1>2. \A j : After(Incident(k, fp), marker[j], j) = IF j = k THEN fp ELSE marker[j]
  <2> TAKE j
  <2> QED BY OutlookBoth DEF Incident
<1>3. \A i \in DOMAIN Incident(k, fp) :
        Incident(k, fp)[i].op = "marker" => Incident(k, fp)[i].what = fp
  <2>1. Mail(k, fp).op = "mail" /\ Marker(k, fp).what = fp
    BY Said
  <2> QED BY <2>1 DEF Incident
<1> QED BY <1>1, <1>2, <1>3, PlanKey DEF MadeFor

(* A resolution leads to no marker.                                        *)
LEMMA ResolveMade ==
  ASSUME NEW k \in Keys
  PROVE  MadeFor(k, Resolve(k), None)
<1>1. CASE ~IsActive(k)
  BY <1>1, NothingMade DEF Resolve, IsActive
<1>2. CASE IsActive(k) /\ SelfHosted
  <2> DEFINE calls == <<Mail(k, "resolved"), Marker(k, None)>>
  <2>1. Resolve(k) = calls
    BY <1>2 DEF Resolve
  <2>2. Following(k, calls)
    BY DEF Following
  <2>3. \A j : After(calls, marker[j], j) = IF j = k THEN None ELSE marker[j]
    <3> TAKE j
    <3> QED BY OutlookBoth
  <2>4. \A i \in DOMAIN calls : calls[i].op = "marker" => calls[i].what = None
    <3>1. Mail(k, "resolved").op = "mail" /\ Marker(k, None).what = None
      BY Said
    <3> QED BY <3>1
  <2> QED BY <2>1, <2>2, <2>3, <2>4, PlanKey DEF MadeFor
<1>3. CASE IsActive(k) /\ ~SelfHosted
  <2> DEFINE calls == <<Marker(k, None)>>
  <2>1. Resolve(k) = calls
    BY <1>3 DEF Resolve
  <2>2. Following(k, calls)
    BY <1>3 DEF Following
  <2>3. \A j : After(calls, marker[j], j) = IF j = k THEN None ELSE marker[j]
    <3> TAKE j
    <3> QED BY OutlookMarker
  <2>4. \A i \in DOMAIN calls : calls[i].op = "marker" => calls[i].what = None
    <3>1. Marker(k, None).what = None
      BY Said
    <3> QED BY <3>1
  <2> QED BY <2>1, <2>2, <2>3, <2>4, PlanKey DEF MadeFor
<1> QED BY <1>1, <1>2, <1>3

(* A recovery does, too.                                                   *)
LEMMA RecoveryMade ==
  ASSUME NEW k \in Keys
  PROVE  MadeFor(k, Recovery(k), None)
<1>1. CASE IsActive(k)
  <2> DEFINE calls == <<Mail(k, "recovery"), Marker(k, None)>>
  <2>1. Recovery(k) = calls
    BY <1>1 DEF Recovery
  <2>2. Following(k, calls)
    BY DEF Following
  <2>3. \A j : After(calls, marker[j], j) = IF j = k THEN None ELSE marker[j]
    <3> TAKE j
    <3> QED BY OutlookBoth
  <2>4. \A i \in DOMAIN calls : calls[i].op = "marker" => calls[i].what = None
    <3>1. Mail(k, "recovery").op = "mail" /\ Marker(k, None).what = None
      BY Said
    <3> QED BY <3>1
  <2> QED BY <2>1, <2>2, <2>3, <2>4, PlanKey DEF MadeFor
<1>2. CASE ~IsActive(k)
  <2> DEFINE calls == <<Mail(k, "recovery")>>
  <2>1. Recovery(k) = calls /\ marker[k] = None
    BY <1>2 DEF Recovery, IsActive
  <2>2. Following(k, calls)
    BY <2>1 DEF Following
  <2>3. \A j : After(calls, marker[j], j) = IF j = k THEN None ELSE marker[j]
    <3> TAKE j
    <3>1. After(calls, marker[j], j) = marker[j]
      BY OutlookMail
    <3> QED BY <2>1, <3>1
  <2>4. \A i \in DOMAIN calls : calls[i].op # "marker"
    <3>1. Mail(k, "recovery").op = "mail"
      BY Said
    <3> QED BY <3>1
  <2> QED BY <2>1, <2>2, <2>3, <2>4, PlanKey DEF MadeFor
<1> QED BY <1>1, <1>2

(* An alert leads to the marker of its condition, sent or not.             *)
LEMMA AlertMade ==
  ASSUME NEW k \in Keys, NEW fp \in Fingerprints
  PROVE  MadeFor(k, Alert(k, fp), fp)
<1>1. CASE marker[k] = fp
  BY <1>1, NothingMade DEF Alert
<1>2. CASE marker[k] # fp
  BY <1>2, IncidentMade DEF Alert
<1> QED BY <1>1, <1>2

-----------------------------------------------------------------------------
(* The result of a run.                                                    *)

(* What a result consists of.                                              *)
LEMMA ResultType ==
  ASSUME TypeOK, Reporting
  PROVE  /\ Selected \subseteq Targets
         /\ IsFiniteSet(Selected)
         /\ \A t \in Selected : result[t] \in Outcomes
<1>1. PICK S \in SUBSET Targets : result \in [S -> Outcomes]
  BY DEF TypeOK, Reporting
<1>2. Selected = S
  BY <1>1 DEF Selected
<1>3. IsFiniteSet(Targets)
  <2>1. NumTargets \in Nat
    BY NotifierAssumption
  <2> QED BY <2>1, FS_Interval DEF Targets
<1> QED BY <1>1, <1>2, <1>3, FS_Subset

(* Two elements, or more.                                                  *)
LEMMA MoreThanOne ==
  ASSUME NEW S, IsFiniteSet(S)
  PROVE  Cardinality(S) > 1 <=> \E t, u \in S : t # u
<1>1. Cardinality(S) \in Nat
  BY FS_CardinalityType
<1>2. ASSUME NEW t \in S, NEW u \in S, t # u
      PROVE  Cardinality(S) > 1
  <2>1. Cardinality(S) # 0
    BY <1>2, FS_EmptySet
  <2>2. Cardinality(S) # 1
    BY <1>2, FS_Singleton
  <2> QED BY <1>1, <2>1, <2>2
<1>3. ASSUME Cardinality(S) > 1
      PROVE  \E t, u \in S : t # u
  <2>1. S # {}
    BY <1>3, FS_EmptySet
  <2>2. PICK t \in S : TRUE
    BY <2>1
  <2>3. S # {t}
    <3>1. Cardinality({t}) = 1
      BY FS_Singleton
    <3> QED BY <1>3, <3>1
  <2> QED BY <2>2, <2>3
<1> QED BY <1>2, <1>3

(* The roll-up that is expected is the one the code takes.                 *)
LEMMA RollUp ==
  ASSUME TypeOK, Reporting
  PROVE  RolledUp <=> SelfHosted /\ HostDown
<1>1. IsFiniteSet(Selected)
  BY ResultType
<1>2. Cardinality(Selected) > 1 <=> \E t, u \in Selected : t # u
  BY <1>1, MoreThanOne
<1> QED BY <1>2 DEF RolledUp, HostDown, Unreachable

(* An outcome is a recovery, a failure, passively healthy or deferred; a   *)
(* recovered one is no failure.                                            *)
LEMMA OutcomeKinds ==
  ASSUME NEW o \in Outcomes
  PROVE  /\ o.recovered => ~IsFailure(o) /\ (IsRecovery(o) \/ IsPassiveHealthy(o))
         /\ Fingerprint(o.condition) \in Fingerprints
<1>1. PICK r, d, a, c :
        /\ o = Outcome(r, d, a, c)
        /\ c \in Conditions \cup {None}
        /\ r \in BOOLEAN /\ a \in BOOLEAN
        /\ r => ~d
  BY DEF Outcomes
<1>2. o.recovered = r /\ o.deferred = d /\ o.acted = a /\ o.condition = c
  BY <1>1 DEF Outcome
<1>3. Fingerprint(o.condition) \in Fingerprints
  BY <1>1, <1>2 DEF Fingerprint, Fingerprints
<1> QED BY <1>1, <1>2, <1>3 DEF IsFailure, IsRecovery, IsPassiveHealthy

-----------------------------------------------------------------------------
(* The steps.                                                              *)

(* The queue of a run: the host first if there is one, then its targets.   *)
LEMMA BeginQueue ==
  ASSUME NInv, Begin
  PROVE  /\ \A t \in Selected' : \E i \in DOMAIN queue' : queue'[i] = t
         /\ SelfHosted => 1 \in DOMAIN queue' /\ queue'[1] = HOST_ALIAS
         /\ \A i \in DOMAIN queue' : queue'[i] = HOST_ALIAS => i = 1 /\ SelfHosted
<1>1. PICK order \in {[i \in Targets |-> i]} \cup {<<t>> : t \in Targets} :
        /\ result' \in [{order[i] : i \in DOMAIN order} -> Outcomes]
        /\ queue' = IF SelfHosted THEN <<HOST_ALIAS>> \o order ELSE order
  BY DEF Begin
<1>2. order \in Seq(Targets)
  <2>1. CASE order = [i \in Targets |-> i]
    <3>1. order \in [1 .. NumTargets -> Targets] /\ NumTargets \in Nat
      BY <2>1, NotifierAssumption DEF Targets
    <3> QED BY <3>1, SeqDef
  <2>2. ASSUME NEW t \in Targets, order = <<t>>
        PROVE  order \in Seq(Targets)
    BY <2>2
  <2> QED BY <2>1, <2>2
<1>3. \A t \in Selected' : \E i \in DOMAIN order : order[i] = t
  BY <1>1 DEF Selected
<1>4. /\ HOST_ALIAS \notin Targets
      /\ DOMAIN order = 1 .. Len(order) /\ Len(order) \in Nat
      /\ \A i \in DOMAIN order : order[i] \in Targets
  BY <1>2, Distinct, LenProperties
<1>5. CASE SelfHosted
  <2> DEFINE first == <<HOST_ALIAS>>
  <2>1. queue' = first \o order
    BY <1>1, <1>5
  <2>2. first \in Seq(Keys) /\ Len(first) = 1 /\ first[1] = HOST_ALIAS
    <3>1. HOST_ALIAS \in Keys
      BY Distinct
    <3> QED BY <3>1
  <2> HIDE DEF first
  <2>3. order \in Seq(Keys)
    BY <1>2, Distinct, SeqMonotonic
  <2>4. /\ DOMAIN queue' = 1 .. 1 + Len(order)
        /\ \A i \in 1 .. 1 + Len(order) :
             queue'[i] = IF i <= 1 THEN first[i] ELSE order[i - 1]
    <3>1. /\ first \o order \in Seq(Keys)
          /\ Len(first \o order) = Len(first) + Len(order)
          /\ \A i \in 1 .. Len(first) + Len(order) : (first \o order)[i] =
               IF i <= Len(first) THEN first[i] ELSE order[i - Len(first)]
      BY <2>2, <2>3, ConcatProperties
    <3>2. DOMAIN queue' = 1 .. Len(queue')
      BY <3>1, <2>1, LenProperties
    <3> QED BY <3>1, <3>2, <2>1, <2>2
  <2>5. \A i \in DOMAIN order : i + 1 \in DOMAIN queue' /\ queue'[i + 1] = order[i]
    BY <1>4, <2>4
  <2>6. 1 \in DOMAIN queue' /\ queue'[1] = HOST_ALIAS
    BY <1>4, <2>2, <2>4
  <2>7. ASSUME NEW i \in DOMAIN queue', i # 1
        PROVE  queue'[i] # HOST_ALIAS
    <3>1. i - 1 \in DOMAIN order /\ queue'[i] = order[i - 1]
      BY <1>4, <2>4, <2>7
    <3> QED BY <1>4, <3>1
  <2> QED BY <1>3, <1>5, <2>5, <2>6, <2>7
<1>6. CASE ~SelfHosted
  BY <1>1, <1>3, <1>4, <1>6
<1> QED BY <1>5, <1>6

(* The parts of CInv that are about a run's course.                        *)
Course ==
  /\ todo # <<>> => \E k \in Keys : Following(k, todo)
  /\ HostKept /\ OnCourse /\ InStep

(* A run begins with every key waiting.                                    *)
LEMMA BeginConverges == ASSUME CInv, Begin PROVE Course'
<1> USE DEF CInv
<1>1. /\ todo = <<>> /\ todo' = <<>>
      /\ UNCHANGED <<marker, faults, told, alerted>>
  BY DEF Begin, NInv
<1>2. HostKept'
  BY <1>1, BeginQueue DEF HostKept
<1>3. \A t \in Selected' : Waiting(t)'
  BY BeginQueue DEF Waiting
<1>4. SelfHosted => Waiting(HOST_ALIAS)'
  BY BeginQueue DEF Waiting
<1>5. ~SelfHosted => (Outlook(HOST_ALIAS) = None)'
  BY <1>1, OutlookNothing DEF HostKept, Outlook
<1>6. OnCourse'
  BY <1>3, <1>4, <1>5 DEF OnCourse, RolledUp
<1>7. InStep'
  <2> SUFFICES ASSUME faults = 0, NEW j \in Keys PROVE Agreed(j)'
    BY <1>1 DEF InStep
  <2>1. Agreed(j)
    BY <1>1 DEF InStep, Owed
  <2> QED BY <1>1, <2>1, Steady
<1> QED BY <1>1, <1>2, <1>6, <1>7 DEF Course

(* A step that plans for the key at the head of the queue.                 *)
LEMMA PlanConverges ==
  ASSUME CInv, todo = <<>>, NEW k \in Keys, NEW goal, MadeFor(k, todo', goal),
         UNCHANGED <<marker, result, faults, told, alerted>>,
         k = HOST_ALIAS => SelfHosted /\ goal \in {None, ""}
  PROVE  /\ todo' # <<>> => \E j \in Keys : Following(j, todo)'
         /\ \A j \in Keys : Outlook(j)' = IF j = k THEN goal ELSE Outlook(j)
         /\ \A i \in DOMAIN todo' : todo'[i].key = HOST_ALIAS =>
              SelfHosted /\ (todo'[i].op = "marker" => todo'[i].what \in {None, ""})
         /\ InStep'
<1>1. Following(k, todo') => Following(k, todo)'
  BY DEF Following
<1>2. \A j \in Keys : Outlook(j)' = IF j = k THEN goal ELSE Outlook(j)
  <2> TAKE j \in Keys
  <2>1. Outlook(j) = marker[j]
    BY OutlookNothing DEF Outlook
  <2>2. Outlook(j)' = After(todo', marker[j], j)
    BY DEF Outlook
  <2>3. After(todo', marker[j], j) = IF j = k THEN goal ELSE marker[j]
    BY DEF MadeFor
  <2> QED BY <2>1, <2>2, <2>3
<1>3. InStep'
  <2> SUFFICES ASSUME faults = 0, NEW j \in Keys PROVE Agreed(j)'
    BY DEF InStep
  <2>1. Agreed(j)
    BY DEF CInv, InStep, Owed
  <2> QED BY <2>1, Steady
<1> QED BY <1>1, <1>2, <1>3 DEF MadeFor

(* What is left of a queue whose head was taken.                           *)
LEMMA TakenQueue ==
  ASSUME NInv, queue # <<>>, queue' = Tail(queue)
  PROVE  /\ \A i \in DOMAIN queue' :
              i \in Nat \ {0} /\ i + 1 \in DOMAIN queue /\ queue'[i] = queue[i + 1]
         /\ \A i \in DOMAIN queue :
              i # 1 => i - 1 \in DOMAIN queue' /\ queue'[i - 1] = queue[i]
         /\ 1 \in DOMAIN queue /\ queue[1] = Head(queue)
<1>1. queue \in Seq(Keys)
  BY DEF NInv, TypeOK
<1> QED BY <1>1

(* A target is seen to.                                                    *)
LEMMA TakeTargetConverges == ASSUME CInv, TakeTarget PROVE Course'
<1> DEFINE t == Head(queue)
           o == result[t]
           fp == Fingerprint(o.condition)
<1>1. /\ todo = <<>> /\ queue # <<>> /\ t \in Targets
      /\ todo' = IF IsRecovery(o) THEN Recovery(t)
                 ELSE IF IsFailure(o) THEN Alert(t, fp)
                 ELSE IF IsPassiveHealthy(o) THEN Resolve(t)
                 ELSE <<>>
      /\ queue' = Tail(queue)
      /\ UNCHANGED <<marker, result, faults, told, alerted>>
  BY DEF TakeTarget
<1>2. NInv /\ TypeOK /\ HostKept /\ OnCourse
  BY DEF CInv, NInv
<1>3. /\ \A i \in DOMAIN queue' :
           i \in Nat \ {0} /\ i + 1 \in DOMAIN queue /\ queue'[i] = queue[i + 1]
      /\ \A i \in DOMAIN queue :
           i # 1 => i - 1 \in DOMAIN queue' /\ queue'[i - 1] = queue[i]
      /\ 1 \in DOMAIN queue /\ queue[1] = t
  BY <1>1, <1>2, TakenQueue
<1>4. Reporting /\ t \in Selected
  BY <1>1, <1>2, <1>3 DEF NInv, Enlisted
<1>5. o \in Outcomes
  BY <1>2, <1>4, ResultType
<1>6. t \in Keys /\ t # HOST_ALIAS
  BY <1>1, Distinct
<1>7. fp \in Fingerprints /\ (o.recovered => ~IsFailure(o) /\ (IsRecovery(o) \/ IsPassiveHealthy(o)))
  BY <1>5, OutcomeKinds
<1> HIDE DEF t
<1>8. ~Waiting(HOST_ALIAS) /\ ~RolledUp /\ Outlook(HOST_ALIAS) = None
  <2>1. ~Waiting(HOST_ALIAS)
    BY <1>2, <1>3, <1>6 DEF Waiting, HostKept
  <2> QED BY <1>1, <1>2, <1>4, <2>1 DEF OnCourse
<1> DEFINE goal == IF o.recovered THEN None
                   ELSE IF IsFailure(o) THEN fp ELSE marker[t]
<1>9. MadeFor(t, todo', goal)
  <2>1. CASE IsRecovery(o)
    <3>1. todo' = Recovery(t) /\ goal = None
      BY <1>1, <2>1 DEF IsRecovery
    <3> QED BY <1>6, <3>1, RecoveryMade
  <2>2. CASE IsFailure(o)
    <3>1. todo' = Alert(t, fp) /\ goal = fp
      BY <1>1, <2>2 DEF IsRecovery, IsFailure
    <3> HIDE DEF fp
    <3> QED BY <1>6, <1>7, <3>1, AlertMade
  <2>3. CASE IsPassiveHealthy(o)
    <3>1. todo' = Resolve(t) /\ goal = None
      BY <1>1, <2>3 DEF IsPassiveHealthy, IsRecovery, IsFailure
    <3> QED BY <1>6, <3>1, ResolveMade
  <2>4. CASE ~IsRecovery(o) /\ ~IsFailure(o) /\ ~IsPassiveHealthy(o)
    <3>1. todo' = <<>> /\ goal = marker[t]
      BY <1>1, <1>7, <2>4
    <3> QED BY <3>1, NothingMade
  <2> QED BY <2>1, <2>2, <2>3, <2>4
<1>10. /\ o.recovered => goal = None
       /\ IsFailure(o) => goal = fp
  BY <1>7
<1> HIDE DEF goal
<1>11. /\ todo' # <<>> => \E j \in Keys : Following(j, todo)'
       /\ \A j \in Keys : Outlook(j)' = IF j = t THEN goal ELSE Outlook(j)
       /\ \A i \in DOMAIN todo' : todo'[i].key = HOST_ALIAS =>
            SelfHosted /\ (todo'[i].op = "marker" => todo'[i].what \in {None, ""})
       /\ InStep'
  BY <1>1, <1>6, <1>9, PlanConverges
<1>12. HostKept'
  <2>1. ASSUME NEW i \in DOMAIN queue'
        PROVE  queue'[i] # HOST_ALIAS
    <3>1. i \in Nat \ {0} /\ i + 1 \in DOMAIN queue /\ queue'[i] = queue[i + 1]
      BY <1>3
    <3>2. i + 1 # 1
      BY <3>1
    <3> QED BY <1>2, <3>1, <3>2 DEF HostKept
  <2> QED BY <1>1, <1>2, <1>11, <2>1 DEF HostKept
<1>13. OnCourse'
  <2>1. RolledUp' = RolledUp /\ Selected' = Selected
    BY <1>1 DEF RolledUp, Selected
  <2>2. Outlook(HOST_ALIAS)' = None
    BY <1>6, <1>8, <1>11, Distinct
  <2>3. ASSUME NEW s \in Selected
        PROVE  Waiting(s)' \/ Fits(s)'
    <3>1. Waiting(s) \/ Fits(s)
      BY <1>2, <1>4, <1>8 DEF OnCourse
    <3>2. CASE s = t
      <4>1. Outlook(s)' = goal
        BY <1>6, <1>11, <3>2
      <4> QED BY <1>1, <1>10, <3>2, <4>1 DEF Fits
    <3>3. CASE s # t /\ Waiting(s)
      <4>1. PICK i \in DOMAIN queue : queue[i] = s
        BY <3>3 DEF Waiting
      <4>2. i - 1 \in DOMAIN queue' /\ queue'[i - 1] = s
        BY <1>3, <3>3, <4>1
      <4> QED BY <4>2 DEF Waiting
    <3>4. CASE s # t /\ Fits(s)
      <4>1. s \in Keys
        BY <1>2, <1>4, ResultType, Distinct
      <4>2. Outlook(s)' = Outlook(s)
        BY <1>11, <3>4, <4>1
      <4> QED BY <1>1, <3>4, <4>2 DEF Fits
    <3> QED BY <3>1, <3>2, <3>3, <3>4
  <2> QED BY <1>8, <2>1, <2>2, <2>3 DEF OnCourse
<1> QED BY <1>11, <1>12, <1>13 DEF Course

(* The host is seen to: its roll-up replaces the targets, or it has none.  *)
LEMMA TakeHostConverges == ASSUME CInv, TakeHost PROVE Course'
<1> DEFINE h == HOST_ALIAS
<1>1. /\ todo = <<>> /\ queue # <<>> /\ Head(queue) = h
      /\ IF HostDown
           THEN /\ todo' = IF IsActive(h) THEN <<>> ELSE Incident(h, "")
                /\ queue' = <<>>
           ELSE /\ todo' = Resolve(h)
                /\ queue' = Tail(queue)
      /\ UNCHANGED <<marker, result, faults, told, alerted>>
  BY DEF TakeHost
<1>2. NInv /\ TypeOK /\ HostKept /\ OnCourse
  BY DEF CInv, NInv
<1>3. 1 \in DOMAIN queue /\ queue[1] = h
  <2>1. queue \in Seq(Keys) /\ queue # <<>> /\ Head(queue) = h
    BY <1>1, <1>2 DEF TypeOK
  <2> QED BY <2>1, HeadIsFirst
<1>4. Reporting /\ SelfHosted
  BY <1>2, <1>3 DEF NInv, Enlisted, HostKept
<1>5. RolledUp <=> HostDown
  BY <1>2, <1>4, RollUp
<1>6. RolledUp' = RolledUp /\ Selected' = Selected
  BY <1>1 DEF RolledUp, Selected
<1>7. h \in Keys /\ "" \in Fingerprints /\ None # ""
  BY Distinct
<1>8. CASE HostDown
  <2>1. MadeFor(h, todo', "")
    <3>1. CASE IsActive(h)
      <4>1. marker[h] = "" /\ todo' = <<>>
        BY <1>1, <1>2, <1>8, <3>1 DEF HostKept, IsActive
      <4> QED BY <4>1, NothingMade
    <3>2. CASE ~IsActive(h)
      <4>1. marker[h] # "" /\ todo' = Incident(h, "")
        BY <1>1, <1>7, <1>8, <3>2 DEF IsActive
      <4> QED BY <1>7, <4>1, IncidentMade
    <3> QED BY <3>1, <3>2
  <2>2. /\ todo' # <<>> => \E j \in Keys : Following(j, todo)'
        /\ \A j \in Keys : Outlook(j)' = IF j = h THEN "" ELSE Outlook(j)
        /\ \A i \in DOMAIN todo' : todo'[i].key = h =>
             SelfHosted /\ (todo'[i].op = "marker" => todo'[i].what \in {None, ""})
        /\ InStep'
    BY <1>1, <1>4, <1>7, <2>1, PlanConverges
  <2>3. HostKept'
    <3>1. DOMAIN queue' = {}
      BY <1>1, <1>8, EmptyDomain
    <3> QED BY <1>1, <1>2, <2>2, <3>1 DEF HostKept
  <2>4. OnCourse'
    <3>1. queue' = <<>> /\ (Outlook(h)' # None)
      BY <1>1, <1>7, <1>8, <2>2
    <3> QED BY <1>5, <1>6, <1>8, <3>1 DEF OnCourse
  <2> QED BY <2>2, <2>3, <2>4 DEF Course
<1>9. CASE ~HostDown
  <2>1. MadeFor(h, todo', None)
    BY <1>1, <1>7, <1>9, ResolveMade
  <2>2. /\ todo' # <<>> => \E j \in Keys : Following(j, todo)'
        /\ \A j \in Keys : Outlook(j)' = IF j = h THEN None ELSE Outlook(j)
        /\ \A i \in DOMAIN todo' : todo'[i].key = h =>
             SelfHosted /\ (todo'[i].op = "marker" => todo'[i].what \in {None, ""})
        /\ InStep'
    BY <1>1, <1>4, <1>7, <2>1, PlanConverges
  <2>3. /\ \A i \in DOMAIN queue' :
             i \in Nat \ {0} /\ i + 1 \in DOMAIN queue /\ queue'[i] = queue[i + 1]
        /\ \A i \in DOMAIN queue :
             i # 1 => i - 1 \in DOMAIN queue' /\ queue'[i - 1] = queue[i]
    BY <1>1, <1>2, <1>9, TakenQueue
  <2>4. HostKept'
    <3>1. ASSUME NEW i \in DOMAIN queue'
          PROVE  queue'[i] # h
      <4>1. i \in Nat \ {0} /\ i + 1 \in DOMAIN queue /\ queue'[i] = queue[i + 1]
        BY <2>3
      <4>2. i + 1 # 1
        BY <4>1
      <4> QED BY <1>2, <4>1, <4>2 DEF HostKept
    <3> QED BY <1>1, <1>2, <2>2, <3>1 DEF HostKept
  <2>5. OnCourse'
    <3>1. ASSUME NEW s \in Selected
          PROVE  Waiting(s)' \/ Fits(s)'
      <4>1. Waiting(s) \/ Fits(s)
        BY <1>2, <1>4, <1>5, <1>9 DEF OnCourse
      <4>2. s \in Keys /\ s # h
        BY <1>2, <1>4, ResultType, Distinct
      <4>3. CASE Waiting(s)
        <5>1. PICK i \in DOMAIN queue : queue[i] = s
          BY <4>3 DEF Waiting
        <5>2. i - 1 \in DOMAIN queue' /\ queue'[i - 1] = s
          BY <1>3, <2>3, <4>2, <5>1
        <5> QED BY <5>2 DEF Waiting
      <4>4. CASE Fits(s)
        <5>1. Outlook(s)' = Outlook(s)
          BY <2>2, <4>2
        <5> QED BY <1>1, <4>4, <5>1 DEF Fits
      <4> QED BY <4>1, <4>3, <4>4
    <3>2. Outlook(h)' = None
      BY <1>7, <2>2
    <3> QED BY <1>5, <1>6, <1>9, <3>1, <3>2 DEF OnCourse
  <2> QED BY <2>2, <2>4, <2>5 DEF Course
<1> QED BY <1>8, <1>9

(* A call leaves the host's key as it should be.                           *)
LEMMA HostCall ==
  ASSUME CInv, todo # <<>>, Delivered(Head(todo))
  PROVE  /\ marker'[HOST_ALIAS] \in {None, ""}
         /\ ~SelfHosted => marker'[HOST_ALIAS] = None
         /\ \A i \in DOMAIN Tail(todo) : Tail(todo)[i].key = HOST_ALIAS =>
              /\ SelfHosted
              /\ Tail(todo)[i].op = "marker" => Tail(todo)[i].what \in {None, ""}
<1>1. TypeOK /\ HostKept
  BY DEF CInv, NInv
<1> DEFINE c == Head(todo)
<1>2. /\ todo \in Seq(Calls) /\ todo # <<>>
      /\ 1 \in DOMAIN todo /\ todo[1] = c
      /\ \A i \in DOMAIN Tail(todo) : i + 1 \in DOMAIN todo /\ Tail(todo)[i] = todo[i + 1]
  <2>1. todo \in Seq(Calls) /\ todo # <<>>
    BY <1>1 DEF TypeOK
  <2> QED BY <2>1
<1>3. \/ marker' = marker
      \/ c.op = "marker" /\ marker' = [marker EXCEPT ![c.key] = c.what]
  <2>1. c \in Calls
    BY <1>2
  <2>2. c.op \in {"mail", "marker"}
    BY <2>1 DEF Calls
  <2> QED BY <2>2 DEF Delivered
<1> HIDE DEF c
<1>4. \/ marker'[HOST_ALIAS] = marker[HOST_ALIAS]
      \/ c.op = "marker" /\ c.key = HOST_ALIAS /\ marker'[HOST_ALIAS] = c.what
  BY <1>1, <1>3, Distinct DEF TypeOK
<1>5. c.key = HOST_ALIAS => SelfHosted /\ (c.op = "marker" => c.what \in {None, ""})
  BY <1>1, <1>2 DEF HostKept
<1>6. \A i \in DOMAIN Tail(todo) : Tail(todo)[i].key = HOST_ALIAS =>
        /\ SelfHosted
        /\ Tail(todo)[i].op = "marker" => Tail(todo)[i].what \in {None, ""}
  BY <1>1, <1>2 DEF HostKept
<1> QED BY <1>1, <1>4, <1>5, <1>6 DEF HostKept

(* A call is made.                                                         *)
LEMMA CallConverges == ASSUME CInv, Call PROVE Course'
<1>1. /\ todo # <<>> /\ Delivered(Head(todo)) /\ todo' = Tail(todo)
      /\ UNCHANGED <<result, queue, faults>>
  BY DEF Call
<1>2. Advanced
  BY <1>1, CallAdvances
<1>3. NInv /\ TypeOK /\ HostKept /\ OnCourse
  BY DEF CInv, NInv
<1>4. todo' # <<>> => \E k \in Keys : Following(k, todo)'
  BY <1>1, <1>2 DEF Advanced, Following
<1>5. HostKept'
  BY <1>1, <1>3, HostCall DEF HostKept
<1>6. \A j \in Keys : Outlook(j)' = Outlook(j)
  BY <1>1, <1>2 DEF Advanced, Outlook
<1>7. OnCourse'
  <2> SUFFICES ASSUME Reporting PROVE OnCourse'
    BY <1>1 DEF OnCourse, Reporting
  <2>1. /\ RolledUp' = RolledUp /\ Selected' = Selected
        /\ \A k : Waiting(k)' = Waiting(k)
    BY <1>1 DEF RolledUp, Selected, Waiting
  <2>2. Outlook(HOST_ALIAS)' = Outlook(HOST_ALIAS)
    BY <1>6, Distinct
  <2>3. ASSUME NEW s \in Selected
        PROVE  Fits(s)' = Fits(s)
    <3>1. Outlook(s)' = Outlook(s)
      BY <1>3, <1>6, ResultType, Distinct
    <3> QED BY <1>1, <3>1 DEF Fits
  <2> QED BY <1>1, <1>3, <2>1, <2>2, <2>3 DEF OnCourse
<1>8. InStep'
  BY <1>1, <1>2 DEF Advanced, InStep, Owed
<1> QED BY <1>4, <1>5, <1>7, <1>8 DEF Course

(* A run that ends leaves no course to keep.                               *)
LEMMA StopConverges ==
  ASSUME CInv, Stop,
         marker'[HOST_ALIAS] \in {None, ""},
         ~SelfHosted => marker'[HOST_ALIAS] = None,
         faults' # 0 \/ (todo = <<>> /\ UNCHANGED <<marker, faults, told, alerted>>)
  PROVE  Course'
<1>1. result' = None /\ queue' = <<>> /\ todo' = <<>>
  BY DEF Stop
<1>2. DOMAIN queue' = {} /\ DOMAIN todo' = {}
  BY <1>1, EmptyDomain
<1>3. HostKept'
  BY <1>2 DEF HostKept
<1>4. OnCourse'
  BY <1>1 DEF OnCourse, Reporting
<1>5. InStep'
  <2> SUFFICES ASSUME faults' = 0, NEW j \in Keys PROVE Agreed(j)'
    BY DEF InStep
  <2>1. Agreed(j)
    BY DEF CInv, InStep, Owed
  <2> QED BY <2>1, Steady
<1> QED BY <1>1, <1>3, <1>4, <1>5 DEF Course

(* Nothing is marked, mailed or planned at first.                          *)
LEMMA InitConverges == Init => CInv
<1> SUFFICES ASSUME Init PROVE CInv
  OBVIOUS
<1>1. NInv
  BY InvInit
<1>2. DOMAIN queue = {} /\ DOMAIN todo = {} /\ todo = <<>> /\ ~Reporting
  BY DEF Init, Reporting
<1>3. HostKept
  BY <1>2, Distinct DEF Init, HostKept
<1>4. OnCourse
  BY <1>2 DEF OnCourse
<1>5. InStep
  <2> SUFFICES ASSUME NEW j \in Keys PROVE Agreed(j)
    BY DEF InStep
  <2> QED BY Distinct DEF Init, Agreed
<1> QED BY <1>1, <1>2, <1>3, <1>4, <1>5 DEF CInv

(* Where nothing happens, nothing leaves its course.                       *)
LEMMA NothingDiverges == ASSUME CInv, UNCHANGED vars PROVE Course'
<1>1. UNCHANGED <<marker, result, queue, todo, faults, told, alerted>>
  BY DEF vars
<1>2. \A k : Following(k, todo)' = Following(k, todo)
  BY <1>1 DEF Following
<1>3. HostKept'
  BY <1>1 DEF CInv, HostKept
<1>4. /\ \A k : Outlook(k)' = Outlook(k) /\ Waiting(k)' = Waiting(k)
      /\ RolledUp' = RolledUp /\ Selected' = Selected
  BY <1>1 DEF Outlook, Waiting, RolledUp, Selected
<1>5. \A t : Fits(t)' = Fits(t)
  BY <1>1, <1>4 DEF Fits
<1>6. OnCourse'
  BY <1>1, <1>4, <1>5 DEF CInv, OnCourse, Reporting
<1>7. \A k : Agreed(k)' = Agreed(k) /\ Owed(k)' = Owed(k)
  BY <1>1 DEF Agreed, Owed
<1>8. InStep'
  BY <1>1, <1>7 DEF CInv, InStep
<1> QED BY <1>1, <1>2, <1>3, <1>6, <1>8 DEF CInv, Course

(* The invariant is inductive.                                             *)
LEMMA StepConverges == CInv /\ [Next]_vars => CInv'
<1> SUFFICES ASSUME CInv, [Next]_vars PROVE CInv'
  OBVIOUS
<1>1. NInv'
  BY InvStep DEF CInv
<1>2. HostKept /\ faults \in Nat
  BY FaultsBound DEF CInv, NInv, TypeOK
<1>3. Course'
  <2>1. CASE Begin
    BY <2>1, BeginConverges
  <2>2. CASE TakeTarget
    BY <2>2, TakeTargetConverges
  <2>3. CASE TakeHost
    BY <2>3, TakeHostConverges
  <2>4. CASE Call
    BY <2>4, CallConverges
  <2>5. CASE End
    BY <1>2, <2>5, StopConverges DEF End, Finished, HostKept
  <2>6. CASE Abort
    <3>1. faults' # 0
      BY <1>2, <2>6 DEF Abort
    <3> QED BY <1>2, <2>6, <3>1, StopConverges DEF Abort, HostKept
  <2>7. CASE AbortInDoubt
    <3>1. faults' # 0
      BY <1>2, <2>7 DEF AbortInDoubt
    <3>2. todo # <<>> /\ Delivered(Head(todo)) /\ Stop
      BY <2>7 DEF AbortInDoubt
    <3> QED BY <3>1, <3>2, HostCall, StopConverges
  <2>8. CASE UNCHANGED vars
    BY <2>8, NothingDiverges
  <2> QED BY <2>1, <2>2, <2>3, <2>4, <2>5, <2>6, <2>7, <2>8 DEF Next
<1> QED BY <1>1, <1>3 DEF CInv, Course

-----------------------------------------------------------------------------
(* Theorems.                                                               *)

(* The inductive invariant holds.                                          *)
THEOREM Convergence == Spec => []CInv
  BY InitConverges, StepConverges, PTL DEF Spec

(* What is left of a run that has finished is what its result says.        *)
LEMMA CInvConverges == CInv => MarkersConverge
<1> SUFFICES ASSUME CInv, Finished PROVE MarkersConverge
  BY DEF MarkersConverge
<1>1. Reporting /\ OnCourse /\ queue = <<>> /\ todo = <<>>
  BY DEF CInv, Finished
<1>2. \A k : ~Waiting(k)
  <2>1. DOMAIN queue = {}
    BY <1>1
  <2> QED BY <2>1 DEF Waiting
<1>3. \A k : Outlook(k) = marker[k]
  BY <1>1, OutlookNothing DEF Outlook
<1> QED BY <1>1, <1>2, <1>3 DEF OnCourse, Fits, MarkersConverge, IsActive

(* A run that reports to its end leaves the markers as its result says, in *)
(* both modes and whatever earlier runs left behind.                       *)
THEOREM MarkersDoConverge == Spec => []MarkersConverge
  BY CInvConverges, Convergence, PTL

(* As long as no run was cut short, the last email about a target says     *)
(* what the last run found, in both modes.                                 *)
THEOREM RecipientDoesKnow == Spec => []RecipientKnows
<1>1. CInv => RecipientKnows
  <2> SUFFICES ASSUME CInv, Finished, faults = 0 PROVE RecipientKnows
    BY DEF RecipientKnows
  <2>1. /\ Reporting /\ OnCourse /\ InStep /\ HostKept /\ TypeOK
        /\ queue = <<>> /\ todo = <<>>
    BY DEF CInv, NInv, Finished
  <2>2. \A k : ~Waiting(k)
    <3>1. DOMAIN queue = {}
      BY <2>1
    <3> QED BY <3>1 DEF Waiting
  <2>3. \A k : Outlook(k) = marker[k]
    BY <2>1, OutlookNothing DEF Outlook
  <2>4. \A k \in Keys : Agreed(k)
    BY <2>1 DEF InStep, Owed
  <2>5. CASE RolledUp
    <3>1. marker[HOST_ALIAS] # None
      BY <2>1, <2>2, <2>3, <2>5 DEF OnCourse
    <3>2. told[HOST_ALIAS] = ""
      BY <2>1, <2>4, <3>1, Distinct DEF Agreed, HostKept
    <3> QED BY <2>5, <3>2 DEF RecipientKnows
  <2>6. CASE ~RolledUp
    <3> SUFFICES ASSUME NEW t \in Selected
                 PROVE  /\ IsFailure(result[t])
                             => told[t] = Fingerprint(result[t].condition)
                        /\ SelfHosted /\ result[t].recovered
                             => told[t] \notin Fingerprints
      BY <2>6 DEF RecipientKnows
    <3>1. Fits(t)
      BY <2>1, <2>2, <2>6 DEF OnCourse
    <3>2. t \in Keys /\ result[t] \in Outcomes
      BY <2>1, ResultType, Distinct
    <3>3. Agreed(t)
      BY <2>4, <3>2
    <3>4. Fingerprint(result[t].condition) \in Fingerprints
      BY <3>2, OutcomeKinds
    <3>5. IsFailure(result[t]) => told[t] = Fingerprint(result[t].condition)
      BY <2>3, <3>1, <3>3, <3>4, Distinct DEF Fits, Agreed
    <3>6. SelfHosted /\ result[t].recovered => told[t] \notin Fingerprints
      BY <2>3, <3>1, <3>3 DEF Fits, Agreed
    <3> QED BY <3>5, <3>6
  <2> QED BY <2>5, <2>6
<1> QED BY <1>1, Convergence, PTL

(* As long as no run was cut short, the condition that was mailed last     *)
(* about a key is not mailed again unless the key has been resolved.  A    *)
(* condition that comes back after another may be mailed again.            *)
THEOREM NothingIsRepeated == Spec => NoRepeat
<1>1. ASSUME CInv, NEW k \in Keys, NEW fp \in Fingerprints,
             todo # <<>>, Head(todo) = Mail(k, fp), faults = 0
      PROVE  told[k] # fp \/ alerted[k] = {}
  <2>1. PICK l \in Keys : Following(l, todo)
    BY <1>1 DEF CInv
  <2>2. /\ Head(todo).op = "mail" /\ Head(todo).key = k /\ Head(todo).what = fp
        /\ fp \notin {"recovery", "resolved"}
    <3>1. Mail(k, fp).op = "mail" /\ Mail(k, fp).key = k /\ Mail(k, fp).what = fp
      BY Said
    <3>2. fp \notin {"recovery", "resolved"}
      BY Distinct
    <3>3. Head(todo) = Mail(k, fp)
      BY <1>1
    <3> QED BY <3>1, <3>2, <3>3
  <2>3. \A w, c : Head(<<Mail(l, w), c>>) = Mail(l, w) /\ Head(<<Mail(l, w)>>) = Mail(l, w)
    OBVIOUS
  <2>4. \A w : Head(<<Marker(l, w)>>).op = "marker"
    <3>1. \A c : Head(<<c>>) = c
      OBVIOUS
    <3> QED BY <3>1, Said
  <2>5. \A w : Mail(l, w).what = w /\ Mail(l, w).key = l
    BY Said
  <2>6. marker[k] # fp
    BY <2>1, <2>2, <2>3, <2>4, <2>5 DEF Following
  <2>7. Agreed(k)
    <3>1. todo[1].op = "mail"
      <4>1. todo \in Seq(Calls)
        BY <1>1 DEF CInv, NInv, TypeOK
      <4>2. todo[1] = Head(todo)
        BY <1>1, <4>1
      <4> QED BY <2>2, <4>2
    <3> QED BY <1>1, <3>1 DEF CInv, InStep, Owed
  <2> QED BY <2>6, <2>7 DEF Agreed
<1>2. CInv /\ [Next]_vars =>
        [\A k \in Keys, fp \in Fingerprints :
           todo # <<>> /\ Head(todo) = Mail(k, fp) /\ faults = 0 /\ faults' = 0
             => told[k] # fp \/ alerted[k] = {}]_vars
  BY <1>1
<1> QED BY <1>2, Convergence, PTL DEF Spec, NoRepeat
=============================================================================
