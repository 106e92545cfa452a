--------------------------- MODULE Notifier_proofs ---------------------------
(***************************************************************************)
(* Theorems about Notifier, for every number of targets, every set of      *)
(* conditions, both modes, and any number of runs that are cut short.      *)
(***************************************************************************)
EXTENDS NotifierInvariant, SequenceTheorems, TLAPS

(* The bound on the runs that are cut short is a number.                   *)
LEMMA FaultsBound == MaxFaults \in Nat /\ 0 \in 0 .. MaxFaults
<1>1. MaxFaults \in Nat
  BY NotifierAssumption
<1> QED
  BY <1>1

-----------------------------------------------------------------------------
(* What a call does.                                                       *)

(* The calls of a plan are calls, and an email is no marker.               *)
LEMMA CallType ==
  ASSUME NEW k \in Keys
  PROVE  /\ \A w \in Mails : Mail(k, w) \in Calls
         /\ \A fp \in Fingerprints \cup {None} : Marker(k, fp) \in Calls
  BY DEF Mail, Marker, Calls

(* An email about an incident is on record, and no record is lost.         *)
LEMMA MailEffect ==
  ASSUME TypeOK, MarkerWasMailed,
         NEW k \in Keys, NEW w \in Mails, Delivered(Mail(k, w))
  PROVE  /\ marker' = marker
         /\ told' \in [Keys -> Mails \cup {None}]
         /\ alerted' \in [Keys -> SUBSET Fingerprints]
         /\ w \in Fingerprints => w \in alerted'[k]
         /\ MarkerWasMailed'
<1>1. /\ marker' = marker
      /\ told' = [told EXCEPT ![k] = w]
      /\ alerted' = [alerted EXCEPT ![k] =
                       IF w \in Fingerprints THEN alerted[k] \cup {w} ELSE alerted[k]]
  BY DEF Delivered, Mail, TypeOK
<1>2. alerted' \in [Keys -> SUBSET Fingerprints]
  BY <1>1 DEF TypeOK
<1>3. \A j \in Keys : alerted[j] \subseteq alerted'[j]
  BY <1>1 DEF TypeOK
<1>4. w \in Fingerprints => w \in alerted'[k]
  BY <1>1 DEF TypeOK
<1>5. MarkerWasMailed'
  BY <1>1, <1>3 DEF MarkerWasMailed, IsActive
<1> QED
  BY <1>1, <1>2, <1>4, <1>5 DEF TypeOK

(* An incident's marker is written once its email is on record.            *)
LEMMA MarkerEffect ==
  ASSUME TypeOK, MarkerWasMailed,
         NEW k \in Keys, NEW fp \in Fingerprints, fp \in alerted[k],
         Delivered(Marker(k, fp))
  PROVE  /\ told' = told
         /\ marker' \in [Keys -> Fingerprints \cup {None}]
         /\ alerted' \in [Keys -> SUBSET Fingerprints]
         /\ MarkerWasMailed'
<1>1. fp # None
  BY NotifierAssumption DEF Fingerprints
<1>2. /\ told' = told
      /\ marker' = [marker EXCEPT ![k] = fp]
      /\ alerted' = [alerted EXCEPT ![k] = IF fp = None THEN {} ELSE alerted[k]]
  BY DEF Delivered, Marker, TypeOK
<1>3. alerted' = alerted
  BY <1>1, <1>2 DEF TypeOK
<1> QED
  BY <1>2, <1>3 DEF MarkerWasMailed, IsActive, TypeOK

(* A RESOLVED marker closes the record.                                    *)
LEMMA ClearEffect ==
  ASSUME TypeOK, MarkerWasMailed, NEW k \in Keys, Delivered(Marker(k, None))
  PROVE  /\ told' = told
         /\ marker' \in [Keys -> Fingerprints \cup {None}]
         /\ alerted' \in [Keys -> SUBSET Fingerprints]
         /\ MarkerWasMailed'
<1>1. /\ told' = told
      /\ marker' = [marker EXCEPT ![k] = None]
      /\ alerted' = [alerted EXCEPT ![k] = {}]
  BY DEF Delivered, Marker, TypeOK
<1> QED
  BY <1>1 DEF MarkerWasMailed, IsActive, TypeOK

(* After a call: everything is as before but for the plan, which is         *)
(* shorter.                                                                *)
Continued ==
  /\ told' \in [Keys -> Mails \cup {None}]
  /\ marker' \in [Keys -> Fingerprints \cup {None}]
  /\ alerted' \in [Keys -> SUBSET Fingerprints]
  /\ MarkerWasMailed'
  /\ Tail(todo) \in Seq(Calls)
  /\ Tail(todo) # <<>> =>
       \E k \in Keys : \/ \E fp \in alerted'[k] : Tail(todo) = <<Marker(k, fp)>>
                       \/ Tail(todo) = <<Marker(k, None)>>

(* The first call of a plan leaves a plan, and every marker mailed.        *)
LEMMA FirstCall ==
  ASSUME NInv, todo # <<>>, Delivered(Head(todo))
  PROVE  Continued
<1> USE DEF NInv, Continued
<1>0. PICK k \in Keys : Planned(k, todo)
  OBVIOUS
<1>1. Tail(todo) \in Seq(Calls)
  BY DEF TypeOK
<1>2. ASSUME NEW fp \in Fingerprints, todo = <<Mail(k, fp), Marker(k, fp)>>
      PROVE  Continued
  <2>1. Head(todo) = Mail(k, fp) /\ Tail(todo) = <<Marker(k, fp)>>
    BY <1>2
  <2>2. fp \in Mails
    BY DEF Mails
  <2> QED
    BY <2>1, <2>2, <1>1, MailEffect DEF TypeOK
<1>3. ASSUME NEW fp \in Fingerprints, fp \in alerted[k], todo = <<Marker(k, fp)>>
      PROVE  Continued
  <2>1. Head(todo) = Marker(k, fp) /\ Tail(todo) = <<>>
    BY <1>3
  <2> QED
    BY <2>1, <1>1, <1>3, MarkerEffect DEF TypeOK
<1>4. ASSUME NEW w \in {"recovery", "resolved"}, todo = <<Mail(k, w)>>
      PROVE  Continued
  <2>1. Head(todo) = Mail(k, w) /\ Tail(todo) = <<>>
    BY <1>4
  <2>2. w \in Mails
    BY DEF Mails
  <2> QED
    BY <2>1, <2>2, <1>1, MailEffect DEF TypeOK
<1>5. ASSUME NEW w \in {"recovery", "resolved"},
             todo = <<Mail(k, w), Marker(k, None)>>
      PROVE  Continued
  <2>1. Head(todo) = Mail(k, w) /\ Tail(todo) = <<Marker(k, None)>>
    BY <1>5
  <2>2. w \in Mails
    BY DEF Mails
  <2> QED
    BY <2>1, <2>2, <1>1, MailEffect DEF TypeOK
<1>6. ASSUME todo = <<Marker(k, None)>>
      PROVE  Continued
  <2>1. Head(todo) = Marker(k, None) /\ Tail(todo) = <<>>
    BY <1>6
  <2> QED
    BY <2>1, <1>1, ClearEffect DEF TypeOK
<1> QED
  BY <1>0, <1>2, <1>3, <1>4, <1>5, <1>6 DEF Planned

-----------------------------------------------------------------------------
(* What is planned for a key.                                              *)

(* Whatever is planned for a key is a plan.                                *)
LEMMA PlanType ==
  ASSUME NEW k \in Keys, NEW calls, calls = <<>> \/ Planned(k, calls), TypeOK
  PROVE  calls \in Seq(Calls)
<1>1. /\ \A w \in Mails : Mail(k, w) \in Calls
      /\ \A fp \in Fingerprints \cup {None} : Marker(k, fp) \in Calls
  BY CallType
<1>2. Fingerprints \cup {"recovery", "resolved"} \subseteq Mails
  BY DEF Mails
<1>3. CASE calls = <<>>
  BY <1>3
<1>4. ASSUME NEW fp \in Fingerprints, calls = <<Mail(k, fp), Marker(k, fp)>>
      PROVE  calls \in Seq(Calls)
  <2>1. Mail(k, fp) \in Calls /\ Marker(k, fp) \in Calls
    BY <1>1, <1>2
  <2> QED
    BY <1>4, <2>1
<1>5. ASSUME NEW fp \in Fingerprints, calls = <<Marker(k, fp)>>
      PROVE  calls \in Seq(Calls)
  <2>1. Marker(k, fp) \in Calls
    BY <1>1
  <2> QED
    BY <1>5, <2>1
<1>6. ASSUME NEW w \in {"recovery", "resolved"},
             calls \in {<<Mail(k, w)>>, <<Mail(k, w), Marker(k, None)>>}
      PROVE  calls \in Seq(Calls)
  <2>1. Mail(k, w) \in Calls /\ Marker(k, None) \in Calls
    BY <1>1, <1>2
  <2>2. CASE calls = <<Mail(k, w)>>
    BY <2>1, <2>2
  <2>3. CASE calls = <<Mail(k, w), Marker(k, None)>>
    BY <2>1, <2>3
  <2> QED
    BY <1>6, <2>2, <2>3
<1>7. CASE calls = <<Marker(k, None)>>
  <2>1. Marker(k, None) \in Calls
    BY <1>1
  <2> QED
    BY <1>7, <2>1
<1> QED
  BY <1>3, <1>4, <1>5, <1>6, <1>7 DEF Planned

(* An alert, a recovery and a resolution are plans or nothing.             *)
LEMMA Plans ==
  ASSUME NEW k \in Keys
  PROVE  /\ \A fp \in Fingerprints : Planned(k, Incident(k, fp))
         /\ \A fp \in Fingerprints :
              Alert(k, fp) = <<>> \/ Planned(k, Alert(k, fp))
         /\ Planned(k, Recovery(k))
         /\ Resolve(k) = <<>> \/ Planned(k, Resolve(k))
<1>1. \A fp \in Fingerprints : Planned(k, Incident(k, fp))
  BY DEF Planned, Incident
<1>2. \A fp \in Fingerprints :
        Alert(k, fp) = <<>> \/ Planned(k, Alert(k, fp))
  BY <1>1 DEF Alert
<1>5. Planned(k, Recovery(k))
  BY DEF Recovery, Planned
<1>6. Resolve(k) = <<>> \/ Planned(k, Resolve(k))
  BY DEF Resolve, Planned
<1> QED
  BY <1>1, <1>2, <1>5, <1>6

-----------------------------------------------------------------------------
(* The inductive invariant.                                                *)

(* Nothing is marked, mailed or under way at first.                        *)
LEMMA InvInit == Init => NInv
<1> SUFFICES ASSUME Init PROVE NInv
  OBVIOUS
<1>1. marker \in [Keys -> Fingerprints \cup {None}]
  BY DEF Init
<1>2. told \in [Keys -> Mails \cup {None}]
  BY DEF Init
<1>3. alerted \in [Keys -> SUBSET Fingerprints]
  BY DEF Init
<1>4. queue \in Seq(Keys) /\ todo \in Seq(Calls)
  BY EmptySeq DEF Init
<1>5. faults \in 0 .. MaxFaults /\ result = None
  BY FaultsBound DEF Init
<1>6. TypeOK
  BY <1>1, <1>2, <1>3, <1>4, <1>5 DEF TypeOK
<1>7. Enlisted /\ MarkerWasMailed
  BY DEF Init, Enlisted, MarkerWasMailed, IsActive
<1> QED
  BY <1>6, <1>7 DEF Init, NInv

(* A run is enlisted as it begins.                                         *)
LEMMA BeginKeeps == ASSUME NInv, Begin PROVE NInv'
<1> USE DEF NInv
<1>1. PICK order \in {[i \in Targets |-> i]} \cup {<<t>> : t \in Targets} :
        /\ result' \in [{order[i] : i \in DOMAIN order} -> Outcomes]
        /\ queue' = IF SelfHosted THEN <<HOST_ALIAS>> \o order ELSE order
  BY DEF Begin
<1>2. order \in Seq(Targets)
  <2>1. CASE order = [i \in Targets |-> i]
    <3>1. order \in [1 .. NumTargets -> Targets] /\ NumTargets \in Nat
      BY <2>1, NotifierAssumption DEF Targets
    <3> QED
      BY <3>1, SeqDef
  <2>2. ASSUME NEW t \in Targets, order = <<t>>
        PROVE  order \in Seq(Targets)
    BY <2>2
  <2> QED
    BY <2>1, <2>2
<1> DEFINE S == {order[i] : i \in DOMAIN order}
<1>3. S \subseteq Targets
  BY <1>2
<1>4. DOMAIN result' = S /\ result' \in [S -> Outcomes]
  BY <1>1
<1>5. result' # None
  BY <1>3, <1>4, NoneAssumption
<1>6. \A i \in DOMAIN order : order[i] \in S
  OBVIOUS
<1> HIDE DEF S
<1>7. HOST_ALIAS \in Keys /\ HOST_ALIAS \notin Targets /\ order \in Seq(Keys)
  <2>1. Targets \subseteq Keys
    BY DEF Keys
  <2>2. order \in Seq(Keys)
    BY <1>2, <2>1, SeqMonotonic
  <2> QED
    BY <2>2, NotifierAssumption DEF Keys, Targets
<1>8. queue' \in Seq(Keys) /\ \A i \in DOMAIN queue' : queue'[i] \in Targets => queue'[i] \in S
  <2>1. CASE SelfHosted
    <3> DEFINE first == <<HOST_ALIAS>>
    <3>1. queue' = first \o order
      BY <1>1, <2>1
    <3>2. first \in Seq(Keys) /\ Len(first) = 1 /\ first[1] = HOST_ALIAS
      BY <1>7
    <3> HIDE DEF first
    <3>3. /\ queue' \in Seq(Keys)
          /\ DOMAIN queue' = 1 .. 1 + Len(order)
          /\ \A i \in 1 .. 1 + Len(order) :
               queue'[i] = IF i <= 1 THEN first[i] ELSE order[i - 1]
      <4>1. /\ first \o order \in Seq(Keys)
            /\ Len(first \o order) = Len(first) + Len(order)
            /\ \A i \in 1 .. Len(first) + Len(order) : (first \o order)[i] =
                 IF i <= Len(first) THEN first[i] ELSE order[i - Len(first)]
        BY <3>2, <1>7, ConcatProperties
      <4>2. DOMAIN queue' = 1 .. Len(queue')
        BY <4>1, <3>1, LenProperties
      <4> QED
        BY <4>1, <4>2, <3>1, <3>2
    <3> SUFFICES ASSUME NEW i \in DOMAIN queue', queue'[i] \in Targets
                 PROVE  queue'[i] \in S
      BY <3>3
    <3>4. /\ i \in 1 .. 1 + Len(order)
          /\ Len(order) \in Nat
          /\ DOMAIN order = 1 .. Len(order)
      BY <3>3, <1>7, LenProperties
    <3>5. i # 1
      BY <3>2, <3>3, <3>4, <1>7
    <3>6. i - 1 \in DOMAIN order /\ queue'[i] = order[i - 1]
      BY <3>3, <3>4, <3>5, <1>7
    <3> QED
      BY <3>6, <1>6
  <2>2. CASE ~SelfHosted
    BY <1>1, <1>6, <1>7, <2>2
  <2> QED
    BY <2>1, <2>2
<1>9. TypeOK'
  BY <1>3, <1>4, <1>8 DEF TypeOK, Begin
<1>10. Enlisted'
  BY <1>4, <1>5, <1>8 DEF Enlisted, Reporting, Selected
<1>11. (todo # <<>> => Reporting /\ \E k \in Keys : Planned(k, todo))'
  BY DEF Begin
<1>12. MarkerWasMailed'
  BY DEF Begin, MarkerWasMailed, IsActive
<1> QED
  BY <1>9, <1>10, <1>11, <1>12

(* The target at the head of the queue is looked up, and planned for.      *)
LEMMA TakeTargetKeeps == ASSUME NInv, TakeTarget PROVE NInv'
<1> USE DEF NInv
<1> DEFINE t == Head(queue)
           o == result[t]
<1>1. /\ queue # <<>> /\ t \in Targets
      /\ todo' = IF IsRecovery(o) THEN Recovery(t)
                 ELSE IF IsFailure(o) THEN Alert(t, Fingerprint(o.condition))
                 ELSE IF IsPassiveHealthy(o) THEN Resolve(t)
                 ELSE <<>>
      /\ queue' = Tail(queue)
      /\ UNCHANGED <<marker, result, faults, told, alerted>>
  BY DEF TakeTarget
<1>2. queue \in Seq(Keys) /\ 1 \in DOMAIN queue /\ queue[1] = t
  BY <1>1 DEF TypeOK
<1>3. Reporting /\ t \in Selected
  BY <1>1, <1>2 DEF Enlisted
<1>4. o \in Outcomes
  BY <1>3 DEF TypeOK, Reporting, Selected
<1>5. o.condition \in Conditions \cup {None}
  <2>1. \A r, d, a, c : Outcome(r, d, a, c).condition = c
    BY DEF Outcome
  <2>2. PICK r, d, a, c : o = Outcome(r, d, a, c) /\ c \in Conditions \cup {None}
    BY <1>4 DEF Outcomes
  <2> QED
    BY <2>1, <2>2
<1>6. Fingerprint(o.condition) \in Fingerprints
  BY <1>5 DEF Fingerprint, Fingerprints
<1>7. t \in Keys
  BY <1>1 DEF Keys
<1> HIDE DEF o
<1>8. todo' = <<>> \/ Planned(t, todo')
  BY <1>1, <1>6, <1>7, Plans
<1>9. todo' \in Seq(Calls)
  BY <1>7, <1>8, PlanType
<1>10. queue' \in Seq(Keys) /\ \A i \in DOMAIN queue' : i + 1 \in DOMAIN queue /\ queue'[i] = queue[i + 1]
  BY <1>1, <1>2
<1>11. TypeOK'
  BY <1>1, <1>9, <1>10 DEF TypeOK
<1>12. Enlisted'
  BY <1>1, <1>10 DEF Enlisted, Reporting, Selected
<1>13. (todo # <<>> => Reporting /\ \E k \in Keys : Planned(k, todo))'
  BY <1>1, <1>3, <1>7, <1>8 DEF Reporting, Planned
<1>14. MarkerWasMailed'
  BY <1>1 DEF MarkerWasMailed, IsActive
<1> QED
  BY <1>11, <1>12, <1>13, <1>14

(* The host's roll-up is planned for, with the targets after it or without.*)
LEMMA TakeHostKeeps == ASSUME NInv, TakeHost PROVE NInv'
<1> USE DEF NInv
<1> DEFINE h == HOST_ALIAS
<1>1. /\ queue # <<>> /\ Head(queue) = h
      /\ UNCHANGED <<marker, result, faults, told, alerted>>
      /\ \/ todo' = <<>> \/ todo' = Incident(h, "")
         \/ todo' = Resolve(h)
      /\ queue' = <<>> \/ queue' = Tail(queue)
  BY DEF TakeHost
<1>2. /\ queue \in Seq(Keys) /\ 1 \in DOMAIN queue
      /\ \A i \in DOMAIN Tail(queue) : /\ i + 1 \in DOMAIN queue
                                       /\ Tail(queue)[i] = queue[i + 1]
      /\ Tail(queue) \in Seq(Keys)
  <2>1. queue \in Seq(Keys) /\ queue # <<>>
    BY <1>1 DEF TypeOK
  <2> QED
    BY <2>1
<1>3. Reporting
  BY <1>2 DEF Enlisted
<1>4. h \in Keys /\ "" \in Fingerprints
  BY DEF Keys, Fingerprints
<1>5. todo' = <<>> \/ Planned(h, todo')
  BY <1>1, <1>4, Plans
<1>6. todo' \in Seq(Calls)
  BY <1>4, <1>5, PlanType
<1>7. queue' \in Seq(Keys) /\ \A i \in DOMAIN queue' : i + 1 \in DOMAIN queue /\ queue'[i] = queue[i + 1]
  <2>1. CASE queue' = <<>>
    <3>1. queue' \in Seq(Keys) /\ DOMAIN queue' = {}
      BY <2>1
    <3> QED
      BY <3>1
  <2>2. CASE queue' = Tail(queue)
    BY <1>2, <2>2
  <2> QED
    BY <1>1, <2>1, <2>2
<1>8. TypeOK'
  BY <1>1, <1>6, <1>7 DEF TypeOK
<1>9. Enlisted'
  BY <1>1, <1>7 DEF Enlisted, Reporting, Selected
<1>10. (todo # <<>> => Reporting /\ \E k \in Keys : Planned(k, todo))'
  BY <1>1, <1>3, <1>4, <1>5 DEF Reporting, Planned
<1>11. MarkerWasMailed'
  BY <1>1 DEF MarkerWasMailed, IsActive
<1> QED
  BY <1>8, <1>9, <1>10, <1>11

(* A call is made, and the rest of the plan stays one.                     *)
LEMMA CallKeeps == ASSUME NInv, Call PROVE NInv'
<1> USE DEF NInv
<1>1. /\ todo # <<>> /\ Delivered(Head(todo))
      /\ todo' = Tail(todo)
      /\ UNCHANGED <<result, queue, faults>>
  BY DEF Call
<1>2. Continued
  BY <1>1, FirstCall
<1>3. TypeOK'
  BY <1>1, <1>2 DEF TypeOK, Continued
<1>4. Enlisted'
  BY <1>1 DEF Enlisted, Reporting, Selected
<1>5. ASSUME todo' # <<>> PROVE \E k \in Keys : Planned(k, todo)'
  <2>1. PICK k \in Keys : \/ \E fp \in alerted'[k] : todo' = <<Marker(k, fp)>>
                         \/ todo' = <<Marker(k, None)>>
    BY <1>1, <1>2, <1>5 DEF Continued
  <2>2. alerted'[k] \subseteq Fingerprints
    BY <1>2 DEF Continued
  <2>3. Planned(k, todo)'
    BY <2>1, <2>2 DEF Planned, Marker
  <2> QED
    BY <2>3
<1>6. Reporting'
  BY <1>1 DEF Reporting
<1>7. MarkerWasMailed'
  BY <1>2 DEF Continued
<1> QED
  BY <1>3, <1>4, <1>5, <1>6, <1>7

(* However a run ends, nothing is left to be done.                         *)
LEMMA StopKeeps ==
  ASSUME NInv, Stop, faults' \in 0 .. MaxFaults,
         \/ UNCHANGED <<marker, told, alerted>>
         \/ Continued
  PROVE  NInv'
<1> USE DEF NInv
<1>1. result' = None /\ queue' = <<>> /\ todo' = <<>>
  BY DEF Stop
<1>2. /\ marker' \in [Keys -> Fingerprints \cup {None}]
      /\ told' \in [Keys -> Mails \cup {None}]
      /\ alerted' \in [Keys -> SUBSET Fingerprints]
      /\ MarkerWasMailed'
  BY DEF TypeOK, Continued, MarkerWasMailed, IsActive
<1>3. queue' \in Seq(Keys) /\ todo' \in Seq(Calls)
  BY <1>1, EmptySeq
<1>4. TypeOK'
  BY <1>1, <1>2, <1>3 DEF TypeOK
<1>5. Enlisted'
  BY <1>1 DEF Enlisted
<1> QED
  BY <1>1, <1>2, <1>4, <1>5

(* The invariant is inductive.                                             *)
LEMMA InvStep == NInv /\ [Next]_vars => NInv'
<1> SUFFICES ASSUME NInv, [Next]_vars PROVE NInv'
  OBVIOUS
<1>1. CASE Begin
  BY <1>1, BeginKeeps
<1>2. CASE TakeTarget
  BY <1>2, TakeTargetKeeps
<1>3. CASE TakeHost
  BY <1>3, TakeHostKeeps
<1>4. CASE Call
  BY <1>4, CallKeeps
<1>5. CASE End
  BY <1>5, StopKeeps DEF End, NInv, TypeOK
<1>6. CASE Abort
  <2>1. faults' \in 0 .. MaxFaults
    <3>1. faults \in 0 .. MaxFaults
      BY DEF NInv, TypeOK
    <3>2. faults < MaxFaults /\ faults' = faults + 1
      BY <1>6 DEF Abort
    <3> QED
      BY <3>1, <3>2, FaultsBound
  <2> QED
    BY <1>6, <2>1, StopKeeps DEF Abort
<1>7. CASE AbortInDoubt
  <2>1. faults' \in 0 .. MaxFaults
    <3>1. faults \in 0 .. MaxFaults
      BY DEF NInv, TypeOK
    <3>2. faults < MaxFaults /\ faults' = faults + 1
      BY <1>7 DEF AbortInDoubt
    <3> QED
      BY <3>1, <3>2, FaultsBound
  <2>2. Continued
    BY <1>7, FirstCall DEF AbortInDoubt
  <2> QED
    BY <1>7, <2>1, <2>2, StopKeeps DEF AbortInDoubt
<1>8. CASE UNCHANGED vars
  BY <1>8 DEF vars, NInv, TypeOK, Enlisted, Reporting, Selected, Planned,
              MarkerWasMailed, IsActive
<1> QED
  BY <1>1, <1>2, <1>3, <1>4, <1>5, <1>6, <1>7, <1>8 DEF Next

-----------------------------------------------------------------------------
(* Theorems.                                                               *)

(* The inductive invariant holds.                                          *)
THEOREM Invariant == Spec => []NInv
  BY InvInit, InvStep, PTL DEF Spec

(* The variables of the notifier keep their types.                         *)
THEOREM TypeCorrect == Spec => []TypeOK
<1>1. NInv => TypeOK
  BY DEF NInv
<1> QED
  BY <1>1, Invariant, PTL

(* An incident is suppressed only if the recipient was told of it: every   *)
(* active marker was mailed since its key was last resolved, however many  *)
(* runs were cut short and wherever.                                       *)
THEOREM SuppressedWasMailed == Spec => []MarkerWasMailed
<1>1. NInv => MarkerWasMailed
  BY DEF NInv
<1> QED
  BY <1>1, Invariant, PTL
=============================================================================
