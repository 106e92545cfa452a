------------------------ MODULE IncidentStore_proofs ------------------------
(***************************************************************************)
(* The incident store is a register for each key, for every set of keys    *)
(* and conditions, every inbox and every page that is longer than the      *)
(* messages that mention a key without being a marker of it.               *)
(***************************************************************************)
EXTENDS IncidentStore, FiniteSetTheorems, SequenceTheorems, TLAPS

All(k) == Markers(k, DOMAIN inbox)

IsNewest(m, S) == m \in S /\ \A j \in S : j <= m

(* A key without markers, or one that has a newest one.                    *)
HasNewest == \A k \in Keys : All(k) = {} \/ \E m \in All(k) : IsNewest(m, All(k))

FewMentions == \A k \in Keys : Cardinality(Mentions(k)) <= MaxMentions

(* What the caller acts on is what the register holds.                     *)
AnswerFits == answer # None => answer.fingerprint = Decides(answer.key, DOMAIN inbox)

ClearFits ==
  clearing # None =>
    /\ answer # None /\ answer.key = clearing
    /\ answer.fingerprint # None

StoreInv == TypeOK /\ HasNewest /\ FewMentions /\ AnswerFits /\ ClearFits

-----------------------------------------------------------------------------
(* The inbox: how Append changes what is derived from it.                  *)

LEMMA InboxFinite ==
  ASSUME TypeOK, NEW S \in SUBSET DOMAIN inbox
  PROVE  /\ IsFiniteSet(S) /\ Cardinality(S) \in Nat
         /\ S \subseteq Nat
<1>1. DOMAIN inbox = 1 .. Len(inbox) /\ Len(inbox) \in Nat
  BY DEF TypeOK
<1>2. IsFiniteSet(1 .. Len(inbox))
  BY <1>1, FS_Interval
<1> QED BY <1>1, <1>2, FS_Subset, FS_CardinalityType

LEMMA NewestIsMax ==
  ASSUME NEW S \in SUBSET Nat, NEW m, IsNewest(m, S)
  PROVE  S # {} /\ Max(S) = m
<1>1. m \in S /\ \A y \in S : m >= y
  BY DEF IsNewest
<1> DEFINE x == Max(S)
<1>2. x \in S /\ \A y \in S : x >= y
  BY <1>1 DEF Max
<1> HIDE DEF x
<1>3. x \in Nat /\ m \in Nat /\ x >= m /\ m >= x
  BY <1>1, <1>2
<1>4. x = m
  BY <1>3
<1> QED BY <1>1, <1>4 DEF x

(* A page holds the newest marker of its key.                              *)
LEMMA PageEnough ==
  ASSUME StoreInv, NEW k \in Keys
  PROVE  ActiveCondition(k) = Decides(k, DOMAIN inbox)
<1> DEFINE listed == Markers(k, Page(k))
<1>1. Page(k) \subseteq DOMAIN inbox /\ listed \subseteq All(k)
  BY DEF Page, About, Markers, All
<1>2. CASE All(k) = {}
  BY <1>1, <1>2 DEF ActiveCondition, Decides, All
<1>3. CASE All(k) # {}
  <2>1. PICK m \in All(k) : IsNewest(m, All(k))
    BY <1>3 DEF StoreInv, HasNewest
  <2> DEFINE newer == {j \in About(k) : j > m}
  <2>2. newer \subseteq Mentions(k)
    <3> SUFFICES ASSUME NEW j \in newer PROVE j \in Mentions(k)
      OBVIOUS
    <3>1. j \in Nat /\ m \in Nat
      BY InboxFinite DEF StoreInv, About, All, Markers
    <3>2. j \notin All(k)
      BY <2>1, <3>1 DEF IsNewest
    <3> QED BY <3>2 DEF All, Markers, Mentions, About
  <2>3. Mentions(k) \in SUBSET DOMAIN inbox
    BY DEF Mentions, About
  <2>4. IsFiniteSet(Mentions(k)) /\ Cardinality(Mentions(k)) \in Nat
    BY <2>3, InboxFinite DEF StoreInv
  <2>5. Cardinality(newer) <= Cardinality(Mentions(k)) /\ Cardinality(newer) \in Nat
    BY <2>2, <2>4, FS_Subset, FS_CardinalityType
  <2>6. Cardinality(newer) < LookupLimit
    BY <2>4, <2>5, IncidentStoreAssumption DEF StoreInv, FewMentions
  <2>7. m \in listed
    BY <2>6 DEF Page, About, All, Markers
  <2>8. IsNewest(m, listed)
    BY <2>1, <2>7, <1>1 DEF IsNewest
  <2>9. All(k) \in SUBSET Nat /\ listed \in SUBSET Nat
    BY <1>1, InboxFinite DEF StoreInv, All, Markers
  <2>10. listed # {} /\ Max(listed) = m /\ Max(All(k)) = m
    BY <2>1, <2>8, <2>9, NewestIsMax
  <2> QED BY <2>10, <1>3 DEF ActiveCondition, Decides, All
<1> QED BY <1>2, <1>3

(* A message at the end of the inbox: what is new about it.                *)
LEMMA DeliverChanges ==
  ASSUME TypeOK, HasNewest, NEW message \in Messages, Deliver(message)
  PROVE  /\ inbox' \in Seq(Messages)
         /\ HasNewest'
         /\ \A k \in Keys : Decides(k, DOMAIN inbox)' =
              IF message.key = k /\ message.says # Mention
              THEN message.says ELSE Decides(k, DOMAIN inbox)
         /\ \A k \in Keys : Mentions(k)' =
              Mentions(k) \cup IF message.key = k /\ message.says = Mention
                               THEN {Len(inbox) + 1} ELSE {}
<1> DEFINE n == Len(inbox) + 1
<1>1. /\ inbox' \in Seq(Messages)
      /\ DOMAIN inbox' = DOMAIN inbox \cup {n}
      /\ \A i \in DOMAIN inbox : inbox'[i] = inbox[i]
      /\ inbox'[n] = message
      /\ n \in Nat /\ \A i \in DOMAIN inbox : i \in Nat /\ i < n
  <2>1. inbox' = Append(inbox, message) /\ inbox \in Seq(Messages)
    BY DEF Deliver, TypeOK
  <2>2. /\ inbox' \in Seq(Messages) /\ Len(inbox') = n
        /\ \A i \in 1 .. Len(inbox) : inbox'[i] = inbox[i]
        /\ inbox'[n] = message
    BY <2>1, AppendProperties
  <2>3. /\ DOMAIN inbox = 1 .. Len(inbox) /\ Len(inbox) \in Nat
        /\ DOMAIN inbox' = 1 .. n
    BY <2>1, <2>2
  <2> QED BY <2>2, <2>3
<1> HIDE DEF n
<1>2. ASSUME NEW k \in Keys
      PROVE  All(k)' = All(k) \cup IF message.key = k /\ message.says # Mention
                                   THEN {n} ELSE {}
  BY <1>1 DEF All, Markers
<1>3. ASSUME NEW k \in Keys
      PROVE  Mentions(k)' = Mentions(k) \cup IF message.key = k /\ message.says = Mention
                                             THEN {n} ELSE {}
  BY <1>1 DEF Mentions, About
<1>4. ASSUME NEW k \in Keys
      PROVE  All(k) \subseteq DOMAIN inbox /\ All(k) \subseteq Nat /\ All(k)' \subseteq Nat
  BY <1>1, <1>2 DEF All, Markers
<1>5. ASSUME NEW k \in Keys
      PROVE  /\ All(k)' = {} \/ \E m \in All(k)' : IsNewest(m, All(k)')
             /\ Decides(k, DOMAIN inbox)' =
                  IF message.key = k /\ message.says # Mention
                  THEN message.says ELSE Decides(k, DOMAIN inbox)
  <2>1. CASE message.key = k /\ message.says # Mention
    <3>1. IsNewest(n, All(k)')
      BY <2>1, <1>1, <1>2, <1>4 DEF IsNewest
    <3>2. All(k)' # {} /\ Max(All(k)') = n
      BY <3>1, <1>4, NewestIsMax
    <3>3. Decides(k, DOMAIN inbox)' = message.says
      BY <3>2, <1>1 DEF Decides, All
    <3> QED BY <2>1, <3>1, <3>3 DEF IsNewest
  <2>2. CASE ~(message.key = k /\ message.says # Mention)
    <3>1. All(k)' = All(k)
      BY <2>2, <1>2
    <3>2. CASE All(k) = {}
      BY <3>1, <3>2, <2>2 DEF Decides, All
    <3>3. CASE All(k) # {}
      <4>1. PICK m \in All(k) : IsNewest(m, All(k))
        BY <3>3 DEF HasNewest
      <4>2. Max(All(k)) = m /\ m \in DOMAIN inbox
        BY <4>1, <1>4, NewestIsMax
      <4>3. inbox'[Max(All(k))] = inbox[Max(All(k))]
        BY <4>2, <1>1
      <4>4. Decides(k, DOMAIN inbox)' = Decides(k, DOMAIN inbox)
        BY <4>3, <3>1, <3>3 DEF Decides, All
      <4> QED BY <4>1, <4>4, <3>1, <2>2
    <3> QED BY <3>2, <3>3
  <2> QED BY <2>1, <2>2
<1> QED BY <1>1, <1>3, <1>5 DEF HasNewest, n
-----------------------------------------------------------------------------
(* The steps.                                                              *)

LEMMA InitStore == Init => StoreInv
<1> SUFFICES ASSUME Init PROVE StoreInv
  OBVIOUS
<1>1. TypeOK
  BY DEF Init, TypeOK
<1>2. \A k \in Keys : All(k) = {} /\ Mentions(k) = {}
  BY DEF Init, All, Markers, Mentions, About
<1>3. FewMentions
  BY <1>2, FS_EmptySet, IncidentStoreAssumption DEF FewMentions
<1> QED BY <1>1, <1>2, <1>3 DEF Init, StoreInv, HasNewest, AnswerFits, ClearFits

(* A step that leaves the inbox alone.                                     *)
LEMMA LookupKeeps ==
  ASSUME StoreInv, NEW k \in Keys, Lookup(k) \/ BeginClear(k)
  PROVE  StoreInv' /\ Register!Lookup(k)
<1>1. inbox' = inbox /\ answer' = [key |-> k, fingerprint |-> Decides(k, DOMAIN inbox)]
  BY PageEnough DEF Lookup, BeginClear
<1>2. Decides(k, DOMAIN inbox) \in Fingerprints \cup {None}
  <2>1. CASE All(k) = {}
    BY <2>1 DEF Decides, All
  <2>2. CASE All(k) # {}
    <3>1. PICK m \in All(k) : IsNewest(m, All(k))
      BY <2>2 DEF StoreInv, HasNewest
    <3>2. Max(All(k)) = m
      BY <3>1, InboxFinite, NewestIsMax DEF StoreInv, All, Markers
    <3>3. m \in DOMAIN inbox /\ inbox[m].key = k /\ inbox[m].says # Mention
      BY DEF All, Markers
    <3>4. inbox[m] \in Messages
      BY <3>3 DEF StoreInv, TypeOK, Answers
    <3> QED BY <2>2, <3>2, <3>3, <3>4, IncidentStoreAssumption DEF Decides, All, Messages
  <2> QED BY <2>1, <2>2
<1>3. clearing' \in Keys \cup {None}
      /\ (clearing' # None => clearing' = k /\ Decides(k, DOMAIN inbox) # None)
  BY PageEnough DEF Lookup, BeginClear
<1>4. TypeOK'
  BY <1>1, <1>2, <1>3 DEF StoreInv, TypeOK, Answers
<1>5. HasNewest' /\ FewMentions'
  BY <1>1 DEF StoreInv, HasNewest, FewMentions, All, Markers, Mentions, About
<1>6. AnswerFits' /\ ClearFits'
  <2>1. Decides(k, DOMAIN inbox)' = Decides(k, DOMAIN inbox)
    BY <1>1 DEF Decides, Markers
  <2>2. answer'.key = k /\ answer'.fingerprint = Decides(k, DOMAIN inbox)
    BY <1>1
  <2>3. AnswerFits'
    BY <2>1, <2>2, <1>1 DEF AnswerFits, Decides, Markers
  <2>4. answer' # None
    BY <1>1, <1>2, IncidentStoreAssumption DEF Answers
  <2> QED BY <2>2, <2>3, <2>4, <1>3 DEF ClearFits
<1>7. Register!Lookup(k)
  BY <1>1 DEF Register!Lookup, Register!Answer, active, Decides, Markers
<1> QED BY <1>4, <1>5, <1>6, <1>7 DEF StoreInv

(* A marker that is delivered is a write to its key's register.            *)
LEMMA WriteKeeps ==
  ASSUME StoreInv, NEW k \in Keys, NEW fp \in Fingerprints \cup {None},
         Deliver(Marker(k, fp)), Forget, Decides(k, DOMAIN inbox) # fp
  PROVE  StoreInv' /\ Register!Write(k, fp)
<1> DEFINE message == Marker(k, fp)
<1>1. message \in Messages /\ message.key = k /\ message.says = fp /\ fp # Mention
  BY IncidentStoreAssumption DEF Marker, Messages
<1> HIDE DEF message
<1>2. /\ inbox' \in Seq(Messages) /\ HasNewest'
      /\ \A q \in Keys : Decides(q, DOMAIN inbox)' =
           IF q = k THEN fp ELSE Decides(q, DOMAIN inbox)
      /\ \A q \in Keys : Mentions(q)' = Mentions(q)
  BY <1>1, DeliverChanges DEF StoreInv, message
<1>3. TypeOK' /\ AnswerFits' /\ ClearFits'
  BY <1>2 DEF TypeOK, Forget, AnswerFits, ClearFits
<1>4. FewMentions'
  BY <1>2 DEF StoreInv, FewMentions
<1>5. active' = [active EXCEPT ![k] = fp] /\ active[k] # fp
  BY <1>2 DEF active
<1>6. Register!Write(k, fp)
  BY <1>5 DEF Register!Write, Forget
<1> QED BY <1>2, <1>3, <1>4, <1>6 DEF StoreInv

LEMMA OtherMailKeeps ==
  ASSUME StoreInv, OtherMail
  PROVE  StoreInv' /\ UNCHANGED <<active, answer>>
<1>1. PICK k \in Keys \cup {None} :
        /\ k # None => Cardinality(Mentions(k)) < MaxMentions
        /\ Deliver([key |-> k, says |-> Mention])
  BY DEF OtherMail
<1> DEFINE message == [key |-> k, says |-> Mention]
<1>2. message \in Messages /\ message.key = k /\ message.says = Mention
  BY DEF Messages
<1> HIDE DEF message
<1>3. /\ inbox' \in Seq(Messages) /\ HasNewest'
      /\ \A q \in Keys : Decides(q, DOMAIN inbox)' = Decides(q, DOMAIN inbox)
      /\ \A q \in Keys : Mentions(q)' =
           Mentions(q) \cup IF q = k THEN {Len(inbox) + 1} ELSE {}
  BY <1>1, <1>2, DeliverChanges DEF StoreInv, message
<1>4. TypeOK'
  BY <1>3 DEF StoreInv, TypeOK, OtherMail
<1>5. ASSUME NEW q \in Keys
      PROVE  Cardinality(Mentions(q))' <= MaxMentions
  <2>1. IsFiniteSet(Mentions(q)) /\ Cardinality(Mentions(q)) \in Nat
    BY InboxFinite DEF StoreInv, Mentions, About
  <2>2. CASE q # k
    BY <2>2, <1>3 DEF StoreInv, FewMentions
  <2>3. CASE q = k
    <3>1. Cardinality(Mentions(q)) < MaxMentions
      BY <2>3, <1>1, IncidentStoreAssumption
    <3>2. Mentions(q)' = Mentions(q) \cup {Len(inbox) + 1}
      BY <2>3, <1>3
    <3>3. Cardinality(Mentions(q)') <= Cardinality(Mentions(q)) + 1
          /\ Cardinality(Mentions(q)') \in Nat
      <4>1. ASSUME NEW S, NEW x, IsFiniteSet(S), Cardinality(S) \in Nat
            PROVE  /\ Cardinality(S \cup {x}) <= Cardinality(S) + 1
                   /\ Cardinality(S \cup {x}) \in Nat
        BY <4>1, FS_AddElement
      <4> QED BY <4>1, <3>2, <2>1
    <3> QED BY <3>1, <3>3, <2>1, IncidentStoreAssumption
  <2> QED BY <2>2, <2>3
<1>6. active' = active
  BY <1>3 DEF active
<1>7. AnswerFits' /\ ClearFits'
  BY <1>3 DEF StoreInv, AnswerFits, ClearFits, OtherMail, TypeOK, Answers
<1> QED BY <1>3, <1>4, <1>5, <1>6, <1>7 DEF StoreInv, FewMentions, OtherMail

LEMMA NextStore ==
  ASSUME StoreInv, [Next]_vars
  PROVE  StoreInv' /\ [Register!Next]_<<active, answer>>
<1>1. CASE UNCHANGED vars
  BY <1>1 DEF vars, StoreInv, TypeOK, HasNewest, FewMentions, AnswerFits, ClearFits,
              All, Markers, Mentions, About, Decides, active
<1>2. ASSUME NEW k \in Keys, Lookup(k) \/ BeginClear(k)
      PROVE  StoreInv' /\ Register!Next
  BY <1>2, LookupKeeps DEF Register!Next
<1>3. ASSUME NEW k \in Keys, NEW fp \in Fingerprints, MarkActive(k, fp)
      PROVE  StoreInv' /\ Register!Next
  <2>1. Decides(k, DOMAIN inbox) # fp
    BY <1>3 DEF MarkActive, Unmarked, StoreInv, AnswerFits
  <2>2. StoreInv' /\ Register!Write(k, fp)
    BY <2>1, <1>3, WriteKeeps DEF MarkActive
  <2> QED BY <2>2 DEF Register!Next
<1>4. CASE EndClear
  <2>1. clearing \in Keys /\ Decides(clearing, DOMAIN inbox) # None
    BY <1>4 DEF EndClear, StoreInv, TypeOK, AnswerFits, ClearFits
  <2>2. StoreInv' /\ Register!Write(clearing, None)
    BY <2>1, <1>4, WriteKeeps DEF EndClear
  <2> QED BY <2>1, <2>2 DEF Register!Next
<1>5. CASE Fail
  <2>1. StoreInv'
    BY <1>5 DEF Fail, Forget, StoreInv, TypeOK, HasNewest, FewMentions, AnswerFits,
                ClearFits, All, Markers, Mentions, About
  <2>2. Register!Forget
    BY <1>5 DEF Fail, Forget, Register!Forget, active, Decides, Markers
  <2> QED BY <2>1, <2>2 DEF Register!Next
<1>6. CASE OtherMail
  BY <1>6, OtherMailKeeps
<1> QED BY <1>1, <1>2, <1>3, <1>4, <1>5, <1>6 DEF Next

-----------------------------------------------------------------------------
(* The markers of a key alternate as long as a marker that is written says *)
(* something else than the register.                                       *)

LEMMA DeliverAlternates ==
  ASSUME StoreInv, MarkersAlternate, NEW message \in Messages, Deliver(message),
         message.key \in Keys /\ message.says # Mention
           => Decides(message.key, DOMAIN inbox) # message.says
  PROVE  MarkersAlternate'
<1> DEFINE n == Len(inbox) + 1
<1>1. /\ DOMAIN inbox' = DOMAIN inbox \cup {n}
      /\ \A i \in DOMAIN inbox : inbox'[i] = inbox[i]
      /\ inbox'[n] = message
      /\ n \in Nat /\ \A i \in DOMAIN inbox : i \in Nat /\ i < n
  <2>1. inbox' = Append(inbox, message) /\ inbox \in Seq(Messages)
    BY DEF Deliver, StoreInv, TypeOK
  <2>2. /\ inbox' \in Seq(Messages) /\ Len(inbox') = n
        /\ \A i \in 1 .. Len(inbox) : inbox'[i] = inbox[i]
        /\ inbox'[n] = message
    BY <2>1, AppendProperties
  <2>3. /\ DOMAIN inbox = 1 .. Len(inbox) /\ Len(inbox) \in Nat
        /\ DOMAIN inbox' = 1 .. n
    BY <2>1, <2>2
  <2> QED BY <2>2, <2>3
<1> HIDE DEF n
<1> SUFFICES ASSUME NEW k \in Keys, NEW j \in All(k)'
             PROVE  /\ \A i \in All(k)' : i < j /\ inbox'[i].says = inbox'[j].says
                         => \E m \in All(k)' :
                              i < m /\ m < j /\ inbox'[m].says # inbox'[j].says
                    /\ inbox'[j].says = None => \E i \in All(k)' : i < j
  BY DEF MarkersAlternate, All
<1>2. /\ All(k) \subseteq All(k)' /\ All(k)' \subseteq All(k) \cup {n}
      /\ All(k) \subseteq DOMAIN inbox
  BY <1>1 DEF All, Markers
<1>3. CASE j \in All(k)
  <2>1. \A i \in All(k)' : i < j => i \in All(k)
    BY <1>1, <1>2, <1>3
  <2>2. /\ \A i \in All(k) : i < j /\ inbox[i].says = inbox[j].says
             => \E m \in All(k) : i < m /\ m < j /\ inbox[m].says # inbox[j].says
        /\ inbox[j].says = None => \E i \in All(k) : i < j
    BY <1>3 DEF MarkersAlternate, All
  <2>3. \A i \in All(k) : inbox'[i] = inbox[i]
    BY <1>1, <1>2
  <2> QED BY <1>2, <1>3, <2>1, <2>2, <2>3
<1>4. CASE j \notin All(k)
  <2>1. j = n /\ message.key = k /\ message.says # Mention
    BY <1>1, <1>2, <1>4 DEF All, Markers
  <2>2. Decides(k, DOMAIN inbox) # message.says
    BY <2>1
  <2>3. CASE All(k) = {}
    <3>1. message.says # None
      BY <2>2, <2>3 DEF Decides, All
    <3> QED BY <3>1, <2>1, <2>3, <1>1, <1>2
  <2>4. CASE All(k) # {}
    <3>1. PICK m \in All(k) : IsNewest(m, All(k))
      BY <2>4 DEF StoreInv, HasNewest
    <3>2. Max(All(k)) = m
      BY <3>1, <1>1, <1>2, NewestIsMax
    <3>3. inbox[m].says # message.says
      BY <2>2, <2>4, <3>2 DEF Decides, All
    <3>4. m \in Nat /\ m < n /\ inbox'[m] = inbox[m] /\ inbox'[n] = message
      BY <1>1, <1>2
    <3>5. ASSUME NEW i \in All(k)', i < n, inbox'[i].says = message.says
          PROVE  i < m
      <4>1. i \in All(k) /\ i \in Nat
        BY <1>1, <1>2, <3>5
      <4>2. i <= m /\ inbox'[i] = inbox[i]
        BY <4>1, <3>1, <1>1, <1>2 DEF IsNewest
      <4>3. i # m
        BY <4>2, <3>3, <3>5
      <4> QED BY <4>1, <4>2, <4>3, <3>4
    <3> QED BY <1>2, <2>1, <3>3, <3>4, <3>5
  <2> QED BY <2>3, <2>4
<1> QED BY <1>3, <1>4

LEMMA NextAlternates ==
  ASSUME StoreInv, MarkersAlternate, [Next]_vars
  PROVE  MarkersAlternate'
<1>1. CASE inbox' = inbox
  BY <1>1 DEF MarkersAlternate, Markers
<1>2. ASSUME NEW k \in Keys, NEW fp \in Fingerprints \cup {None},
             Deliver(Marker(k, fp)), Decides(k, DOMAIN inbox) # fp
      PROVE  MarkersAlternate'
  <2> DEFINE message == Marker(k, fp)
  <2>1. message \in Messages /\ message.key = k /\ message.says = fp
    BY DEF Marker, Messages
  <2> HIDE DEF message
  <2>2. Deliver(message)
    BY <1>2 DEF message
  <2> QED BY <2>1, <2>2, <1>2, DeliverAlternates
<1>3. ASSUME NEW k \in Keys, NEW fp \in Fingerprints, MarkActive(k, fp)
      PROVE  MarkersAlternate'
  <2>1. Decides(k, DOMAIN inbox) # fp
    BY <1>3 DEF MarkActive, Unmarked, StoreInv, AnswerFits
  <2> QED BY <2>1, <1>2, <1>3 DEF MarkActive
<1>4. CASE EndClear
  <2>1. clearing \in Keys /\ Decides(clearing, DOMAIN inbox) # None
    BY <1>4 DEF EndClear, StoreInv, TypeOK, AnswerFits, ClearFits
  <2> QED BY <2>1, <1>2, <1>4 DEF EndClear
<1>5. CASE OtherMail
  <2>1. PICK k \in Keys \cup {None} : Deliver([key |-> k, says |-> Mention])
    BY <1>5 DEF OtherMail
  <2> DEFINE message == [key |-> k, says |-> Mention]
  <2>2. message \in Messages /\ message.says = Mention
    BY DEF Messages
  <2> HIDE DEF message
  <2>3. Deliver(message)
    BY <2>1 DEF message
  <2> QED BY <2>2, <2>3, DeliverAlternates
<1> QED BY <1>1, <1>3, <1>4, <1>5 DEF Next, vars, Lookup, BeginClear, Fail

-----------------------------------------------------------------------------
(* The invariant: the newest marker of a key is never buried, and what the *)
(* caller acts on is what that marker says.                                *)
THEOREM Invariant == Spec => []StoreInv
<1>1. Init => StoreInv
  BY InitStore
<1>2. StoreInv /\ [Next]_vars => StoreInv'
  BY NextStore
<1> QED BY <1>1, <1>2, PTL DEF Spec

(* The inbox, the answer and a clear() in progress keep their types.       *)
THEOREM TypeCorrect == Spec => []TypeOK
BY Invariant, PTL DEF StoreInv

(* Every marker says something else than the one before it.                *)
THEOREM MarkersDoAlternate == Spec => []MarkersAlternate
<1>1. Init => MarkersAlternate
  BY DEF Init, MarkersAlternate, Markers
<1>2. StoreInv /\ MarkersAlternate /\ [Next]_vars => MarkersAlternate'
  BY NextAlternates
<1> QED BY <1>1, <1>2, Invariant, PTL DEF Spec

(* The store implements a register for each key.                           *)
THEOREM StoreIsRegister == Spec => ImplementsRegister
<1>1. Init => Register!Init
  <2> SUFFICES ASSUME Init PROVE Register!Init
    OBVIOUS
  <2>1. \A k \in Keys : Decides(k, DOMAIN inbox) = None
    BY DEF Init, Decides, Markers
  <2> QED BY <2>1 DEF Init, Register!Init, active
<1>2. StoreInv /\ [Next]_vars => [Register!Next]_<<active, answer>>
  BY NextStore
<1> QED BY <1>1, <1>2, Invariant, PTL DEF Spec, ImplementsRegister, Register!Spec
=============================================================================
