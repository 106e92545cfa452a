------------------------- MODULE CommandLine_proofs -------------------------
(***************************************************************************)
(* Theorems about CommandLine: for every environment, every argument and   *)
(* every number of targets, what a run is that main() lets begin; and for  *)
(* every name and every set of secrets, what its summary shows.            *)
(*                                                                         *)
(* A text is scanned from the left by a recursive function.  What such a   *)
(* scan computes is proved from its end to its beginning, by an induction  *)
(* over sets of positions (Upward, Downward): the lemmas state it of any   *)
(* function that satisfies the scan's equations, and ScannedIs that the    *)
(* scan is one.                                                            *)
(***************************************************************************)
EXTENDS CommandLine, SequenceTheorems, WellFoundedInduction, TLAPS

-----------------------------------------------------------------------------
(* What load_config makes of a document.                                   *)

LEMMA DocType ==
  ASSUME NEW d \in Environments
  PROVE  /\ d \in Documents
         /\ d.targets \in Seq(Described)
         /\ \A i \in DOMAIN d.targets : d.targets[i] \in Described
<1>1. d \in Documents
  BY ConfigAssumption
<1>2. d.targets \in Seq(Described)
  BY <1>1 DEF Documents
<1> QED BY <1>1, <1>2

(* Targets only reads.                                                     *)
LEMMA TargetsRead ==
  ASSUME NEW d \in Environments
  PROVE  /\ DOMAIN Targets(d) = 1 .. Len(d.targets)
         /\ Len(Targets(d)) = Len(d.targets)
         /\ \A i \in DOMAIN d.targets : Targets(d)[i] = Read(d.targets[i], d.mode)
<1>1. Len(d.targets) \in Nat /\ DOMAIN d.targets = 1 .. Len(d.targets)
  BY DocType
<1> QED BY <1>1 DEF Targets

LEMMA ReadKeeps ==
  ASSUME NEW t \in Described, NEW mode
  PROVE  /\ Read(t, mode).alias = t.alias
         /\ mode # "selfhosted" => Read(t, mode).service_id = t.service_id
BY DEF Read, Described

(* No two of the targets that are accepted share what a thread owns.       *)
LEMMA AcceptedTargets ==
  ASSUME NEW d \in Environments, Accepted(d)
  PROVE  /\ d.mode \in {"railway", "selfhosted"}
         /\ DOMAIN Targets(d) = 1 .. EXPECTED_TARGET_COUNT
         /\ DOMAIN d.targets = 1 .. EXPECTED_TARGET_COUNT
         /\ Len(Targets(d)) = EXPECTED_TARGET_COUNT
         /\ \A i, j \in 1 .. EXPECTED_TARGET_COUNT :
              i # j => Targets(d)[i].alias # Targets(d)[j].alias
         /\ d.mode = "railway" =>
              \A i \in 1 .. EXPECTED_TARGET_COUNT :
                /\ d.targets[i].service_id # d.excluded
                /\ \A j \in 1 .. EXPECTED_TARGET_COUNT :
                     i # j => d.targets[i].service_id # d.targets[j].service_id
<1> DEFINE ts == Targets(d)
           Slots == 1 .. EXPECTED_TARGET_COUNT
<1>1. d.mode \in {"railway", "selfhosted"} /\ ValidTargets(ts)
  BY DEF Accepted
<1>2. Len(ts) = EXPECTED_TARGET_COUNT /\ IsInjective(Aliases(ts))
  BY <1>1 DEF ValidTargets
<1>3. DOMAIN ts = Slots /\ DOMAIN d.targets = Slots
  BY <1>2, TargetsRead, DocType
<1>4. \A i, j \in Slots : i # j => ts[i].alias # ts[j].alias
  BY <1>2, <1>3 DEF IsInjective, Aliases
<1>5. ASSUME d.mode = "railway"
      PROVE  \A i \in Slots :
               /\ d.targets[i].service_id # d.excluded
               /\ \A j \in Slots : i # j => d.targets[i].service_id # d.targets[j].service_id
  <2>1. ValidServices(d)
    BY <1>5 DEF Accepted
  <2>2. \A i \in Slots : ts[i].service_id = d.targets[i].service_id
    <3> TAKE i \in Slots
    <3>1. d.targets[i] \in Described
      BY <1>3, DocType
    <3>2. ts[i] = Read(d.targets[i], d.mode)
      BY <1>3, TargetsRead
    <3> QED BY <3>1, <3>2, <1>5, ReadKeeps
  <2>3. \A i, j \in Slots : i # j => ts[i].service_id # ts[j].service_id
    BY <2>1, <1>3 DEF ValidServices, IsInjective, ServiceIds
  <2>4. \A i \in Slots : ts[i].service_id # d.excluded
    BY <2>1, <1>3 DEF ValidServices, ServiceIds, Range
  <2> QED BY <2>2, <2>3, <2>4
<1> QED BY <1>1, <1>2, <1>3, <1>4, <1>5

(* What the other mode reads does not matter.                              *)
LEMMA ForeignIsIgnored ==
  ASSUME NEW d \in Environments
  PROVE  Loaded(d) = Loaded(Foreign(d))
<1> DEFINE f == Foreign(d)
<1>1. d \in Documents
  BY DocType
<1>2. /\ f.json = d.json /\ f.listed = d.listed /\ f.mode = d.mode
      /\ d.mode # "selfhosted" => /\ f.project = d.project
                                  /\ f.environment = d.environment
                                  /\ f.excluded = d.excluded
  BY <1>1 DEF Foreign, Documents
<1>3. /\ DOMAIN f.targets = DOMAIN d.targets
      /\ \A i \in DOMAIN d.targets :
           f.targets[i] = IF d.mode = "selfhosted"
                          THEN [d.targets[i] EXCEPT !.service_id = Blank]
                          ELSE [d.targets[i] EXCEPT !.webui_url = "http",
                                                    !.ignore_platforms = FALSE]
  BY <1>1 DEF Foreign, Documents
<1>4. \A i \in DOMAIN d.targets : Read(f.targets[i], d.mode) = Read(d.targets[i], d.mode)
  <2> TAKE i \in DOMAIN d.targets
  <2>1. d.targets[i] \in Described
    BY DocType
  <2> QED BY <2>1, <1>3 DEF Read, Described
<1>5. Targets(f) = Targets(d)
  BY <1>2, <1>3, <1>4 DEF Targets
<1>6. d.mode # "selfhosted" => (HasIds(f) <=> HasIds(d)) /\ (ValidServices(f) <=> ValidServices(d))
  BY <1>2, <1>5 DEF HasIds, ValidServices
<1>7. Accepted(f) <=> Accepted(d)
  BY <1>2, <1>5, <1>6 DEF Accepted
<1> QED BY <1>2, <1>5, <1>7 DEF Loaded

-----------------------------------------------------------------------------
(* The inductive invariant: what main() holds is what load_config and      *)
(* _select have made of the environment and the arguments.                 *)

ConfigInv ==
  /\ doc \in Environments
  /\ phase \in {"load", "select", "runtime", "run", "exit"}
  /\ phase = "load" => config = None
  /\ phase \in {"select", "runtime", "run"} => Accepted(doc) /\ config = Loaded(doc)
  /\ phase \in {"load", "select"} => selected = {}
  /\ phase \in {"runtime", "run"} => selected = Chosen
  /\ phase = "exit" =>
       \/ config = None /\ selected = {}
       \/ Accepted(doc) /\ config = Loaded(doc) /\ selected = Chosen

LEMMA InitConfigInv == Init => ConfigInv
BY DEF Init, ConfigInit, ConfigInv

LEMMA NextConfigInv == ConfigInv /\ [Next]_vars => ConfigInv'
<1> SUFFICES ASSUME ConfigInv, [Next]_vars PROVE ConfigInv'
  OBVIOUS
<1>1. CASE Load
  <2>1. ~Accepted(doc) => Loaded(doc) = None
    BY DEF Loaded
  <2>2. doc' = doc
    BY <1>1 DEF Load
  <2> QED BY <1>1, <2>1, <2>2 DEF Load, ConfigInv
<1>2. CASE Select
  <2>1. Chosen' = Chosen
    BY <1>2 DEF Select, Chosen
  <2> QED BY <1>2, <2>1 DEF Select, ConfigInv
<1>3. CASE BuildRuntime
  <2>1. Chosen' = Chosen
    BY <1>3 DEF BuildRuntime, Chosen
  <2> QED BY <1>3, <2>1 DEF BuildRuntime, ConfigInv
<1>4. CASE UNCHANGED configVars
  BY <1>4 DEF configVars, ConfigInv, Chosen
<1> QED BY <1>1, <1>2, <1>3, <1>4 DEF Next, ConfigStep, vars

LEMMA LoadedType ==
  ASSUME NEW d \in Environments, Accepted(d)
  PROVE  /\ Loaded(d).targets = Targets(d)
         /\ Loaded(d).mode = d.mode
         /\ {Loaded(d).project, Loaded(d).environment, Loaded(d).excluded}
              \subseteq IF d.mode = "railway" THEN Ids ELSE {Ignored}
<1>1. d \in Documents
  BY DocType
<1>2. d.mode = "railway" => {d.project, d.environment, d.excluded} \subseteq Ids
  BY <1>1 DEF Accepted, HasIds, Documents
<1>3. d.mode \in {"railway", "selfhosted"}
  BY DEF Accepted
<1> QED BY <1>2, <1>3 DEF Loaded

-----------------------------------------------------------------------------
(* Theorems.                                                               *)

(* main() holds what load_config and _select have made of the environment  *)
(* and the arguments, and nothing it has not accepted.                     *)
THEOREM Invariant == Spec => []ConfigInv
  BY InitConfigInv, NextConfigInv, PTL DEF Spec

(* Every variable of the configuration keeps its type: the ids of a config *)
(* in Railway mode are ids, and no target is selected that it has not.     *)
THEOREM TypeCorrect == Spec => []ConfigTypeOK
<1>1. ConfigInv => ConfigTypeOK
  <2> SUFFICES ASSUME ConfigInv PROVE ConfigTypeOK
    OBVIOUS
  <2>1. \/ config = None /\ selected = {}
        \/ Accepted(doc) /\ config = Loaded(doc) /\ selected \in {{}, Chosen}
    BY DEF ConfigInv
  <2>2. CASE config = None /\ selected = {}
    BY <2>2 DEF ConfigInv, ConfigTypeOK
  <2>3. CASE Accepted(doc) /\ config = Loaded(doc) /\ selected \in {{}, Chosen}
    <3>1. /\ config.mode \in {"railway", "selfhosted"}
          /\ {config.project, config.environment, config.excluded}
               \subseteq IF config.mode = "railway" THEN Ids ELSE {Ignored}
          /\ Len(config.targets) = EXPECTED_TARGET_COUNT
          /\ DOMAIN config.targets = 1 .. EXPECTED_TARGET_COUNT
      BY <2>3, AcceptedTargets, LoadedType DEF ConfigInv
    <3>2. selected \subseteq 1 .. EXPECTED_TARGET_COUNT
      BY <2>3, <3>1 DEF Chosen
    <3> QED BY <3>1, <3>2 DEF ConfigInv, ConfigTypeOK
  <2> QED BY <2>1, <2>2, <2>3
<1> QED BY <1>1, Invariant, PTL

(* In a run that begins no two threads own the same service or alias,      *)
(* none owns the excluded service, and --service runs one target at most.  *)
THEOREM ServicesAreOwn == Spec => []OwnServices
<1>1. ConfigInv => OwnServices
  <2> SUFFICES ASSUME ConfigInv, phase = "run", NEW i \in selected
               PROVE  /\ \A j \in (1 .. EXPECTED_TARGET_COUNT) \ {i} :
                           /\ config.targets[i].alias # config.targets[j].alias
                           /\ config.mode = "railway"
                                => doc.targets[i].service_id # doc.targets[j].service_id
                      /\ config.mode = "railway" => doc.targets[i].service_id # doc.excluded
                      /\ service # None => selected = {i}
    BY DEF OwnServices
  <2>1. doc \in Environments /\ Accepted(doc) /\ config = Loaded(doc) /\ selected = Chosen
    BY DEF ConfigInv
  <2>2. config.targets = Targets(doc) /\ config.mode = doc.mode
    BY <2>1, LoadedType
  <2>3. DOMAIN config.targets = 1 .. EXPECTED_TARGET_COUNT
    BY <2>1, <2>2, AcceptedTargets
  <2>4. i \in 1 .. EXPECTED_TARGET_COUNT
    BY <2>1, <2>3 DEF Chosen
  <2>5. service # None => selected = {i}
    BY <2>1, <2>2, <2>3, <2>4, AcceptedTargets DEF Chosen
  <2> QED BY <2>1, <2>2, <2>4, <2>5, AcceptedTargets
<1> QED BY <1>1, Invariant, PTL

(* A document means the same whatever it says for the other mode.          *)
THEOREM ModesAreSeparate == Spec => []ModesSeparate
<1>1. ConfigInv => ModesSeparate
  BY ForeignIsIgnored DEF ConfigInv, ModesSeparate
<1> QED BY <1>1, Invariant, PTL

-----------------------------------------------------------------------------
(* Induction over the natural numbers, with a set for the predicate.       *)
LEMMA Upward ==
  ASSUME NEW S \in SUBSET Nat, 0 \in S, \A n \in S : n + 1 \in S
  PROVE  S = Nat
<1> SUFFICES ASSUME Nat \ S # {} PROVE FALSE
  OBVIOUS
<1>1. PICK m \in Nat \ S : \A n \in Nat \ S : <<n, m>> \notin OpToRel(<, Nat)
  BY NatLessThanWellFounded, WFMin
<1>2. \A n \in Nat \ S : ~(n < m)
  BY <1>1 DEF OpToRel
<1>3. m - 1 \in Nat /\ m - 1 < m
  OBVIOUS
<1>4. m - 1 \in S
  BY <1>2, <1>3
<1> QED BY <1>3, <1>4

(* What a scan makes of a text from position i on.                         *)
ScanAt(f, piece, width, i) ==
  f[i] = IF i \in DOMAIN piece THEN piece[i] \o f[i + width[i]] ELSE <<>>

LEMMA Onward ==
  ASSUME NEW n \in Nat, NEW width \in [1 .. n -> Nat \ {0}], NEW i \in 1 .. n
  PROVE  i \in Nat \ {0} /\ i + width[i] \in Nat /\ i < i + width[i]
<1>1. width[i] \in Nat \ {0} /\ i \in Nat \ {0}
  OBVIOUS
<1> QED BY <1>1

LEMMA ScanStep ==
  ASSUME NEW S, NEW n \in Nat, NEW piece \in [1 .. n -> Seq(S)],
         NEW width \in [1 .. n -> Nat \ {0}], NEW f \in [Nat -> Seq(S)], NEW m \in 1 .. n,
         \A i \in Nat : i = 0 \/ i > m => ScanAt(f, piece, width, i)
  PROVE  \E g \in [Nat -> Seq(S)] :
           \A i \in Nat : i = 0 \/ i >= m => ScanAt(g, piece, width, i)
<1> DEFINE new == piece[m] \o f[m + width[m]]
           g == [f EXCEPT ![m] = new]
<1>0. m \in Nat /\ m # 0
  OBVIOUS
<1>1. ASSUME NEW i \in 1 .. n PROVE i + width[i] \in Nat /\ i < i + width[i]
  BY Onward
<1>2. piece[m] \in Seq(S) /\ f[m + width[m]] \in Seq(S)
  BY <1>1
<1>3. new \in Seq(S)
  BY <1>2, ConcatProperties
<1> HIDE DEF new
<1>4. g \in [Nat -> Seq(S)] /\ g[m] = new /\ \A i \in Nat : i # m => g[i] = f[i]
  BY <1>0, <1>3
<1> HIDE DEF g
<1>5. ASSUME NEW i \in Nat, i = 0 \/ i >= m PROVE ScanAt(g, piece, width, i)
  <2>1. ASSUME i \in 1 .. n PROVE g[i + width[i]] = f[i + width[i]]
    <3> DEFINE j == i + width[i]
    <3>1. j \in Nat /\ i < j
      BY <1>1, <2>1
    <3>2. i >= m
      BY <1>5, <2>1
    <3> HIDE DEF j
    <3>3. j # m
      BY <1>0, <3>1, <3>2
    <3>4. g[j] = f[j]
      BY <1>4, <3>1, <3>3
    <3> QED BY <3>4 DEF j
  <2>2. CASE i = m
    BY <1>4, <2>1, <2>2 DEF new, ScanAt
  <2>3. CASE i # m
    <3>1. ScanAt(f, piece, width, i)
      BY <1>0, <1>5, <2>3
    <3> QED BY <1>4, <2>1, <2>3, <3>1 DEF ScanAt
  <2> QED BY <2>2, <2>3
<1> QED BY <1>4, <1>5

(* A scan, as an equation for each position.                               *)
IsScan(f, piece, width) == \A i \in Nat : ScanAt(f, piece, width, i)

LEMMA ScanExists ==
  ASSUME NEW S, NEW n \in Nat, NEW piece \in [1 .. n -> Seq(S)],
         NEW width \in [1 .. n -> Nat \ {0}]
  PROVE  \E f \in [Nat -> Seq(S)] : IsScan(f, piece, width)
<1> DEFINE Done(k) == \E f \in [Nat -> Seq(S)] :
                        \A i \in Nat : i = 0 \/ i + k > n => ScanAt(f, piece, width, i)
           Good == {k \in Nat : Done(k)}
<1> HIDE DEF Done
<1>1. Done(0)
  <2> DEFINE f == [i \in Nat |-> <<>>]
  <2>1. f \in [Nat -> Seq(S)]
    BY EmptySeq
  <2>2. \A i \in Nat : i = 0 \/ i + 0 > n => ScanAt(f, piece, width, i)
    BY DEF ScanAt
  <2> QED BY <2>1, <2>2 DEF Done
<1>2. ASSUME NEW k \in Nat, Done(k) PROVE Done(k + 1)
  <2>1. PICK f \in [Nat -> Seq(S)] :
          \A i \in Nat : i = 0 \/ i + k > n => ScanAt(f, piece, width, i)
    BY <1>2 DEF Done
  <2>2. CASE n <= k
    <3>1. \A i \in Nat : i = 0 \/ i + (k + 1) > n => ScanAt(f, piece, width, i)
      BY <2>1, <2>2
    <3> QED BY <3>1 DEF Done
  <2>3. CASE k < n
    <3>1. n - k \in 1 .. n
      BY <2>3
    <3>2. \A i \in Nat : i = 0 \/ i > n - k => ScanAt(f, piece, width, i)
      BY <2>1
    <3>3. PICK g \in [Nat -> Seq(S)] :
            \A i \in Nat : i = 0 \/ i >= n - k => ScanAt(g, piece, width, i)
      BY <3>1, <3>2, ScanStep
    <3>4. \A i \in Nat : i = 0 \/ i + (k + 1) > n => ScanAt(g, piece, width, i)
      BY <3>3
    <3> QED BY <3>4 DEF Done
  <2> QED BY <2>2, <2>3
<1>3. Good = Nat
  <2>1. 0 \in Good /\ Good \in SUBSET Nat
    BY <1>1
  <2>2. \A k \in Good : k + 1 \in Good
    BY <1>2
  <2> QED BY <2>1, <2>2, Upward
<1>4. Done(n)
  BY <1>3
<1>5. PICK f \in [Nat -> Seq(S)] :
        \A i \in Nat : i = 0 \/ i + n > n => ScanAt(f, piece, width, i)
  BY <1>4 DEF Done
<1>6. \A i \in Nat : ScanAt(f, piece, width, i)
  BY <1>5
<1> QED BY <1>6 DEF IsScan

(* Its values are texts.                                                   *)
LEMMA ScanTyped ==
  ASSUME NEW S, NEW n \in Nat, NEW piece \in [1 .. n -> Seq(S)],
         NEW width \in [1 .. n -> Nat \ {0}], NEW f, IsScan(f, piece, width)
  PROVE  \A i \in Nat : f[i] \in Seq(S)
<1> DEFINE Good == {k \in Nat : \A i \in Nat : i = 0 \/ i + k > n => f[i] \in Seq(S)}
<1>1. 0 \in Good
  <2> SUFFICES ASSUME NEW i \in Nat, i = 0 \/ i + 0 > n PROVE f[i] \in Seq(S)
    OBVIOUS
  <2>1. f[i] = <<>>
    BY DEF IsScan, ScanAt
  <2> QED BY <2>1, EmptySeq
<1>2. ASSUME NEW k \in Good PROVE k + 1 \in Good
  <2> SUFFICES ASSUME NEW i \in Nat, i + k = n, i # 0 PROVE f[i] \in Seq(S)
    OBVIOUS
  <2>1. i \in 1 .. n /\ width[i] \in Nat \ {0}
    OBVIOUS
  <2>2. i + width[i] \in Nat /\ i + width[i] + k > n
    BY <2>1
  <2>3. f[i + width[i]] \in Seq(S) /\ piece[i] \in Seq(S)
    BY <2>1, <2>2
  <2>4. f[i] = piece[i] \o f[i + width[i]]
    BY <2>1 DEF IsScan, ScanAt
  <2> QED BY <2>3, <2>4, ConcatProperties
<1>3. n \in Good
  BY <1>1, <1>2, Upward
<1> QED BY <1>3

(* Scanned is such a scan, from the first position.                        *)
LEMMA ScannedIs ==
  ASSUME NEW S, NEW n \in Nat, NEW piece \in [1 .. n -> Seq(S)],
         NEW width \in [1 .. n -> Nat \ {0}]
  PROVE  \E f \in [Nat -> Seq(S)] : Scanned(piece, width) = f[1] /\ IsScan(f, piece, width)
<1> DEFINE Is(g) == g = [i \in Nat |-> IF i \in DOMAIN piece
                                       THEN piece[i] \o g[i + width[i]] ELSE <<>>]
           from == CHOOSE g : Is(g)
<1>1. PICK f \in [Nat -> Seq(S)] : IsScan(f, piece, width)
  BY ScanExists
<1>2. Is(f)
  BY <1>1 DEF IsScan, ScanAt
<1>3. Is(from)
  BY <1>2
<1>4. Scanned(piece, width) = from[1]
  BY DEF Scanned
<1> HIDE DEF from
<1>5. IsScan(from, piece, width)
  BY <1>3 DEF IsScan, ScanAt
<1>6. \A i \in Nat : from[i] \in Seq(S)
  BY <1>5, ScanTyped
<1>7. from \in [Nat -> Seq(S)]
  BY <1>3, <1>6
<1> QED BY <1>4, <1>5, <1>7

-----------------------------------------------------------------------------
(* Where a string occurs, character by character.                          *)
StandsAt(u, t, i) == /\ i \in Nat \ {0} /\ i + Len(u) - 1 <= Len(t)
                    /\ \A j \in 1 .. Len(u) : t[i + j - 1] = u[j]

LEMMA OccursStands ==
  ASSUME NEW S, NEW u \in Seq(S), u # <<>>, NEW t \in Seq(S), NEW i \in 1 .. Len(t)
  PROVE  OccursAt(u, t, i) <=> StandsAt(u, t, i)
<1> DEFINE m == i + Len(u) - 1
<1>1. Len(u) \in Nat \ {0} /\ Len(t) \in Nat /\ i \in Nat \ {0}
  BY EmptySeq
<1>2. ASSUME m <= Len(t)
      PROVE  SubSeq(t, i, m) = u <=> \A j \in 1 .. Len(u) : t[i + j - 1] = u[j]
  <2>1. \A j \in i .. m : t[j] \in S
    BY <1>1, <1>2, ElementOfSeq
  <2>2. /\ SubSeq(t, i, m) \in Seq(S) /\ Len(SubSeq(t, i, m)) = Len(u)
        /\ \A j \in 1 .. Len(u) : SubSeq(t, i, m)[j] = t[i + j - 1]
    <3>1. m \in Int /\ i \in Int /\ m - i + 1 = Len(u) /\ i <= m
      BY <1>1
    <3> QED BY <2>1, <3>1, SubSeqProperties
  <2>3. ASSUME \A j \in 1 .. Len(u) : t[i + j - 1] = u[j] PROVE SubSeq(t, i, m) = u
    <3> DEFINE part == SubSeq(t, i, m)
    <3>1. part \in Seq(S) /\ Len(part) = Len(u) /\ \A j \in 1 .. Len(part) : part[j] = u[j]
      BY <2>2, <2>3
    <3> HIDE DEF part
    <3>2. part = u
      BY <3>1, SeqEqual
    <3> QED BY <3>2 DEF part
  <2> QED BY <2>2, <2>3
<1>3. CASE m <= Len(t)
  BY <1>1, <1>2, <1>3 DEF OccursAt, StandsAt
<1>4. CASE ~(m <= Len(t))
  BY <1>4 DEF OccursAt, StandsAt
<1> QED BY <1>3, <1>4

(* An occurrence behind a first part is one in the rest.                   *)
LEMMA StandsBehind ==
  ASSUME NEW S, NEW u \in Seq(S), NEW s \in Seq(S), NEW t \in Seq(S),
         NEW i \in Nat \ {0}, i > Len(s)
  PROVE  StandsAt(u, s \o t, i) <=> StandsAt(u, t, i - Len(s))
<1>1. Len(u) \in Nat /\ Len(s) \in Nat /\ Len(t) \in Nat
  OBVIOUS
<1>2. /\ Len(s \o t) = Len(s) + Len(t)
      /\ \A j \in 1 .. Len(s) + Len(t) :
           (s \o t)[j] = IF j <= Len(s) THEN s[j] ELSE t[j - Len(s)]
  BY ConcatProperties
<1>3. i + Len(u) - 1 <= Len(s) + Len(t)
        => \A j \in 1 .. Len(u) : (s \o t)[i + j - 1] = t[i - Len(s) + j - 1]
  BY <1>1, <1>2
<1>4. /\ i - Len(s) \in Nat \ {0}
      /\ i + Len(u) - 1 <= Len(s) + Len(t) <=> i - Len(s) + Len(u) - 1 <= Len(t)
  BY <1>1
<1>5. CASE i + Len(u) - 1 <= Len(s) + Len(t)
  BY <1>2, <1>3, <1>4, <1>5 DEF StandsAt
<1>6. CASE ~(i + Len(u) - 1 <= Len(s) + Len(t))
  BY <1>2, <1>4, <1>6 DEF StandsAt
<1> QED BY <1>5, <1>6

(* One that begins with a first character goes on in the rest.             *)
LEMMA StandsFirst ==
  ASSUME NEW S, NEW u \in Seq(S), u # <<>>, NEW c \in S, NEW t \in Seq(S),
         StandsAt(u, <<c>> \o t, 1)
  PROVE  u[1] = c /\ (Len(u) = 1 \/ StandsAt(Tail(u), t, 1))
<1>1. Len(u) \in Nat \ {0} /\ Len(t) \in Nat
  BY EmptySeq
<1>2. <<c>> \in Seq(S) /\ Len(<<c>>) = 1
  OBVIOUS
<1>3. /\ Len(<<c>> \o t) = 1 + Len(t)
      /\ \A j \in 1 .. 1 + Len(t) : (<<c>> \o t)[j] = IF j <= 1 THEN <<c>>[j] ELSE t[j - 1]
  BY <1>2, ConcatProperties
<1>4. u[1] = c
  BY <1>1, <1>3 DEF StandsAt
<1>5. Len(Tail(u)) = Len(u) - 1 /\ \A j \in 1 .. Len(u) - 1 : Tail(u)[j] = u[j + 1]
  BY HeadTailProperties
<1>6. ASSUME NEW j \in 1 .. Len(u) - 1 PROVE t[1 + j - 1] = Tail(u)[j]
  <2>1. j \in Nat /\ j + 1 \in 1 .. Len(u) /\ j + 1 <= 1 + Len(t) /\ j >= 1
    BY <1>1, <1>3 DEF StandsAt
  <2>2. (<<c>> \o t)[1 + (j + 1) - 1] = u[j + 1]
    BY <2>1 DEF StandsAt
  <2> QED BY <1>1, <1>3, <1>5, <2>1, <2>2
<1>7. 1 + Len(Tail(u)) - 1 <= Len(t)
  BY <1>1, <1>3, <1>5 DEF StandsAt
<1> QED BY <1>4, <1>5, <1>6, <1>7 DEF StandsAt

LEMMA StandsLonger ==
  ASSUME NEW S, NEW u \in Seq(S), u # <<>>, NEW t \in Seq(S), NEW i \in 1 .. Len(t),
         t[i] = u[1], Len(u) = 1 \/ StandsAt(Tail(u), t, i + 1)
  PROVE  StandsAt(u, t, i)
<1>1. Len(u) \in Nat \ {0} /\ Len(t) \in Nat /\ i \in Nat \ {0} /\ i <= Len(t)
  BY EmptySeq
<1>2. Len(Tail(u)) = Len(u) - 1 /\ \A j \in 1 .. Len(u) - 1 : Tail(u)[j] = u[j + 1]
  BY HeadTailProperties
<1>3. CASE Len(u) = 1
  BY <1>1, <1>3 DEF StandsAt
<1>4. CASE StandsAt(Tail(u), t, i + 1)
  <2>1. i + Len(u) - 1 <= Len(t)
    BY <1>1, <1>2, <1>4 DEF StandsAt
  <2>2. ASSUME NEW j \in 1 .. Len(u) PROVE t[i + j - 1] = u[j]
    <3>1. CASE j = 1
      BY <1>1, <3>1
    <3>2. CASE j # 1
      <4>1. j \in Nat /\ j - 1 \in 1 .. Len(u) - 1 /\ (j - 1) + 1 = j
              /\ i + 1 + (j - 1) - 1 = i + j - 1
        BY <1>1, <3>2
      <4>2. t[i + 1 + (j - 1) - 1] = Tail(u)[j - 1]
        BY <1>2, <1>4, <4>1 DEF StandsAt
      <4> QED BY <1>2, <4>1, <4>2
    <3> QED BY <3>1, <3>2
  <2> QED BY <1>1, <2>1, <2>2 DEF StandsAt
<1> QED BY <1>3, <1>4

(* What a scan shows of a text is in the text: if the strings of U are     *)
(* read character by character wherever they begin the rest of a scan, at  *)
(* the positions Ok, then that rest begins as the text does.               *)
HasRests(U) == \A u \in U : u # <<>> /\ (Len(u) = 1 \/ Tail(u) \in U)

Reads(f, U, Ok, t) == \A i \in Ok, u \in U : StandsAt(u, f[i], 1) =>
                        /\ i \in 1 .. Len(t)
                        /\ f[i] = <<t[i]>> \o f[i + 1]
                        /\ Len(u) = 1 \/ i + 1 \in Ok

LEMMA Legible ==
  ASSUME NEW U \in SUBSET Seq(Chars), HasRests(U), NEW Ok, NEW t \in Seq(Chars),
         NEW f \in [Nat -> Seq(Chars)], Reads(f, U, Ok, t)
  PROVE  \A i \in Ok, u \in U : StandsAt(u, f[i], 1) => StandsAt(u, t, i)
<1> USE DEF HasRests, Reads
<1> DEFINE Good == {k \in Nat : \A i \in Ok, u \in U :
                      Len(u) <= k /\ StandsAt(u, f[i], 1) => StandsAt(u, t, i)}
<1>1. 0 \in Good
  <2>1. \A u \in U : Len(u) \in Nat \ {0}
    BY EmptySeq
  <2> QED BY <2>1
<1>2. ASSUME NEW k \in Good PROVE k + 1 \in Good
  <2> SUFFICES ASSUME NEW i \in Ok, NEW u \in U, Len(u) <= k + 1, StandsAt(u, f[i], 1)
               PROVE  StandsAt(u, t, i)
    OBVIOUS
  <2>1. u \in Seq(Chars) /\ u # <<>> /\ i \in 1 .. Len(t)
    OBVIOUS
  <2> DEFINE rest == f[i + 1]
             c == t[i]
  <2>2. rest \in Seq(Chars) /\ c \in Chars
    <3>1. i + 1 \in Nat
      BY <2>1
    <3> QED BY <2>1, <3>1, ElementOfSeq
  <2>3. f[i] = <<c>> \o rest
    OBVIOUS
  <2> HIDE DEF rest, c
  <2>4. u[1] = c /\ (Len(u) = 1 \/ StandsAt(Tail(u), rest, 1))
    <3>1. StandsAt(u, <<c>> \o rest, 1)
      BY <2>3
    <3> QED BY <2>1, <2>2, <3>1, StandsFirst
  <2>5. CASE Len(u) = 1
    BY <2>1, <2>4, <2>5, StandsLonger DEF c
  <2>6. CASE Len(u) # 1
    <3>1. Tail(u) \in U /\ i + 1 \in Ok /\ StandsAt(Tail(u), f[i + 1], 1)
      BY <2>4, <2>6 DEF rest
    <3>2. Len(Tail(u)) = Len(u) - 1 /\ Len(u) \in Nat
      BY <2>1, HeadTailProperties
    <3>3. Len(Tail(u)) <= k
      BY <3>2
    <3>4. StandsAt(Tail(u), t, i + 1)
      BY <3>1, <3>3
    <3> QED BY <2>1, <2>4, <3>4, StandsLonger DEF c
  <2> QED BY <2>5, <2>6
<1>3. Good = Nat
  BY <1>1, <1>2, Upward
<1> SUFFICES ASSUME NEW i \in Ok, NEW u \in U, StandsAt(u, f[i], 1)
             PROVE  StandsAt(u, t, i)
  OBVIOUS
<1>4. Len(u) \in Nat
  OBVIOUS
<1>5. Len(u) <= Len(u)
  BY <1>4
<1> HIDE DEF Good
<1>6. Len(u) \in Good
  BY <1>3, <1>4
<1> QED BY <1>5, <1>6 DEF Good

(* Induction from a text's end to its beginning.                           *)
LEMMA Downward ==
  ASSUME NEW n \in Nat, NEW G, \A i \in Nat : i > n => i \in G,
         \A i \in 1 .. n : (\A j \in Nat : j > i => j \in G) => i \in G
  PROVE  \A i \in Nat \ {0} : i \in G
<1> DEFINE Good == {k \in Nat : \A i \in Nat \ {0} : i + k > n => i \in G}
<1>1. 0 \in Good
  OBVIOUS
<1>2. ASSUME NEW k \in Good PROVE k + 1 \in Good
  <2> SUFFICES ASSUME NEW i \in Nat \ {0}, i + k = n PROVE i \in G
    OBVIOUS
  <2>1. i \in 1 .. n /\ \A j \in Nat : j > i => j # 0 /\ j + k > n
    OBVIOUS
  <2>2. \A j \in Nat : j > i => j \in G
    BY <2>1
  <2> QED BY <2>1, <2>2
<1>3. n \in Good
  BY <1>1, <1>2, Upward
<1> QED BY <1>3

(* A string does not occur in a scan if wherever it occurs in what there   *)
(* is from i on, it occurs in what there is from a later position.         *)
LEMMA Absent ==
  ASSUME NEW n \in Nat, NEW f, \A i \in Nat : i > n => f[i] = <<>>,
         NEW u, Len(u) \in Nat \ {0},
         \A i \in 1 .. n, j \in Nat : StandsAt(u, f[i], j) =>
            \E later, k \in Nat : later > i /\ StandsAt(u, f[later], k)
  PROVE  \A i \in Nat \ {0}, j \in Nat : ~StandsAt(u, f[i], j)
<1> DEFINE G == {i \in Nat : \A j \in Nat : ~StandsAt(u, f[i], j)}
<1>1. ASSUME NEW i \in Nat, i > n PROVE i \in G
  <2>1. Len(f[i]) = 0
    BY <1>1
  <2> QED BY <2>1 DEF StandsAt
<1>2. ASSUME NEW i \in 1 .. n, \A j \in Nat : j > i => j \in G PROVE i \in G
  BY <1>2
<1>3. \A i \in Nat \ {0} : i \in G
  <2> HIDE DEF G
  <2> QED BY <1>1, <1>2, Downward
<1> QED BY <1>3

(* A text that is scanned character by character stays as it is.           *)
LEMMA Unchanged ==
  ASSUME NEW S, NEW t \in Seq(S), NEW f,
         \A i \in Nat : f[i] = IF i \in 1 .. Len(t) THEN <<t[i]>> \o f[i + 1] ELSE <<>>
  PROVE  f[1] = t
<1> DEFINE n == Len(t)
           G == {i \in Nat \ {0} : i <= n + 1 => f[i] = SubSeq(t, i, n)}
<1>1. n \in Nat
  OBVIOUS
<1>2. ASSUME NEW i \in Nat, i > n PROVE i \in G
  <2>1. i \in Nat \ {0} /\ i \notin 1 .. Len(t) /\ i \in Int /\ n \in Int /\ n < i
    BY <1>1, <1>2
  <2>2. SubSeq(t, i, n) = <<>>
    BY <2>1, SubSeqEmpty
  <2> QED BY <2>1, <2>2
<1>3. ASSUME NEW i \in 1 .. n, \A j \in Nat : j > i => j \in G PROVE i \in G
  <2>1. i + 1 \in G /\ i + 1 <= n + 1 /\ i \in Nat \ {0} /\ n \in i .. n
    BY <1>1, <1>3
  <2>2. f[i + 1] = SubSeq(t, i + 1, n)
    BY <2>1
  <2>3. SubSeq(t, i, n) = <<t[i]>> \o SubSeq(t, i + 1, n)
    BY <2>1, SubSeqRecursiveFirst
  <2>4. f[i] = <<t[i]>> \o f[i + 1]
    BY <2>1
  <2> QED BY <2>1, <2>2, <2>3, <2>4
<1> HIDE DEF G, n
<1>4. 1 \in G
  <2>1. \A i \in Nat \ {0} : i \in G
    BY <1>1, <1>2, <1>3, Downward
  <2> QED BY <2>1
<1> USE DEF n
<1>5. f[1] = SubSeq(t, 1, n)
  BY <1>1, <1>4 DEF G
<1> QED BY <1>5, SubSeqFull

-----------------------------------------------------------------------------
(* str.replace.                                                            *)

IsReplacing(f, t, s) ==
  /\ \A i \in Nat : i \notin 1 .. Len(t) => f[i] = <<>>
  /\ \A i \in 1 .. Len(t) : OccursAt(s, t, i) => f[i] = <<Mask>> \o f[i + Len(s)]
  /\ \A i \in 1 .. Len(t) : ~OccursAt(s, t, i) => f[i] = <<t[i]>> \o f[i + 1]

LEMMA ReplacedIs ==
  ASSUME NEW t \in Seq(Chars), NEW s \in Seq(Chars), s # <<>>
  PROVE  \E f \in [Nat -> Seq(Chars)] : Replaced(t, s) = f[1] /\ IsReplacing(f, t, s)
<1> DEFINE n == Len(t)
           piece == [i \in DOMAIN t |-> IF OccursAt(s, t, i) THEN <<Mask>> ELSE <<t[i]>>]
           width == [i \in DOMAIN t |-> IF OccursAt(s, t, i) THEN Len(s) ELSE 1]
<1>1. n \in Nat /\ DOMAIN t = 1 .. n /\ Len(s) \in Nat \ {0} /\ Mask \in Chars
  <2>1. Len(s) \in Nat \ {0}
    BY EmptySeq
  <2>2. Mask \in Chars
    BY PublicTextAssumption
  <2> QED BY <2>1, <2>2
<1>2. piece \in [1 .. n -> Seq(Chars)]
  <2> SUFFICES ASSUME NEW i \in 1 .. n
               PROVE  (IF OccursAt(s, t, i) THEN <<Mask>> ELSE <<t[i]>>) \in Seq(Chars)
    BY <1>1
  <2>1. t[i] \in Chars
    BY ElementOfSeq
  <2> QED BY <1>1, <2>1
<1>3. width \in [1 .. n -> Nat \ {0}]
  BY <1>1
<1>4. Replaced(t, s) = Scanned(piece, width)
  BY DEF Replaced
<1>5. \A i \in 1 .. n : piece[i] = (IF OccursAt(s, t, i) THEN <<Mask>> ELSE <<t[i]>>)
                        /\ width[i] = IF OccursAt(s, t, i) THEN Len(s) ELSE 1
  BY <1>1
<1>6. DOMAIN piece = 1 .. n
  BY <1>1
<1> HIDE DEF piece, width
<1>7. PICK f \in [Nat -> Seq(Chars)] : Scanned(piece, width) = f[1] /\ IsScan(f, piece, width)
  BY <1>1, <1>2, <1>3, ScannedIs
<1>8. IsReplacing(f, t, s)
  <2>1. \A i \in Nat : f[i] = IF i \in 1 .. n THEN piece[i] \o f[i + width[i]] ELSE <<>>
    BY <1>6, <1>7 DEF IsScan, ScanAt
  <2>2. \A i \in 1 .. n : f[i] = piece[i] \o f[i + width[i]]
    <3>1. \A i \in 1 .. n : i \in Nat
      BY <1>1
    <3> HIDE DEF n
    <3> QED BY <2>1, <3>1
  <2>3. \A i \in 1 .. n : OccursAt(s, t, i) => f[i] = <<Mask>> \o f[i + Len(s)]
    BY <1>5, <2>2
  <2>4. \A i \in 1 .. n : ~OccursAt(s, t, i) => f[i] = <<t[i]>> \o f[i + 1]
    BY <1>5, <2>2
  <2> QED BY <2>1, <2>3, <2>4 DEF IsReplacing
<1> QED BY <1>4, <1>7, <1>8

LEMMA Beyond ==
  ASSUME NEW w \in Nat \ {0}, NEW i \in Nat \ {0}
  PROVE  i + w \in Nat \ {0} /\ i + w > i /\ i + 1 \in Nat \ {0} /\ i + 1 > i
OBVIOUS

Strings == Seq(Chars \ {Mask}) \ {<<>>}

LEMMA StringType ==
  ASSUME NEW u \in Strings
  PROVE  /\ u \in Seq(Chars) /\ u # <<>> /\ Len(u) \in Nat \ {0} /\ u[1] # Mask
         /\ \A j \in 1 .. Len(u) : u[j] # Mask
         /\ Len(u) = 1 \/ Tail(u) \in Strings
<1>1. u \in Seq(Chars \ {Mask}) /\ u # <<>>
  BY DEF Strings
<1>2. Len(u) \in Nat \ {0}
  BY <1>1, EmptySeq
<1>3. \A j \in 1 .. Len(u) : u[j] \in Chars \ {Mask}
  BY <1>1, ElementOfSeq
<1>4. u \in Seq(Chars)
  BY <1>1, SeqMonotonic
<1>5. Tail(u) \in Seq(Chars \ {Mask}) /\ Len(Tail(u)) = Len(u) - 1
  BY <1>1, HeadTailProperties
<1>6. Len(u) = 1 \/ Tail(u) # <<>>
  <2> DEFINE rest == Tail(u)
  <2>1. rest \in Seq(Chars \ {Mask}) /\ Len(rest) = Len(u) - 1
    BY <1>5
  <2> HIDE DEF rest
  <2>2. rest = <<>> => Len(rest) = 0
    BY EmptySeq
  <2>3. Len(u) = 1 \/ rest # <<>>
    BY <1>2, <2>1, <2>2
  <2> QED BY <2>3 DEF rest
<1> QED BY <1>1, <1>2, <1>3, <1>4, <1>5, <1>6 DEF Strings

(* Masking one secret leaves none of it, and shows no string that the text *)
(* did not have.                                                           *)
LEMMA ReplacedShows ==
  ASSUME NEW t \in Seq(Chars), NEW s \in Strings, NEW u \in Strings,
         NEW k \in Nat, StandsAt(u, Replaced(t, s), k)
  PROVE  u # s /\ \E q \in 1 .. Len(t) : StandsAt(u, t, q)
<1> DEFINE n == Len(t)
           Ok == Nat \ {0}
<1>1. n \in Nat /\ s \in Seq(Chars) /\ s # <<>> /\ Len(s) \in Nat \ {0} /\ Mask \in Chars
  <2>1. s \in Seq(Chars) /\ s # <<>> /\ Len(s) \in Nat \ {0}
    BY StringType
  <2>2. Mask \in Chars
    BY PublicTextAssumption
  <2> QED BY <2>1, <2>2
<1>2. PICK f \in [Nat -> Seq(Chars)] : Replaced(t, s) = f[1] /\ IsReplacing(f, t, s)
  BY <1>1, ReplacedIs
<1>3. \A i \in Nat : i > n => f[i] = <<>>
  <2>1. \A i \in Nat : i > n => i \notin 1 .. n
    OBVIOUS
  <2> QED BY <1>2, <2>1 DEF IsReplacing
<1>4. ASSUME NEW i \in Ok, NEW v \in Strings, StandsAt(v, f[i], 1)
      PROVE  /\ i \in 1 .. n
             /\ f[i] = <<t[i]>> \o f[i + 1]
             /\ ~OccursAt(s, t, i)
  <2>1. i \in 1 .. n
    <3>1. Len(v) \in Nat \ {0}
      BY StringType
    <3>2. Len(f[i]) # 0
      BY <1>4, <3>1 DEF StandsAt
    <3> QED BY <1>1, <1>3, <3>2
  <2>2. ~OccursAt(s, t, i)
    <3> SUFFICES ASSUME OccursAt(s, t, i) PROVE FALSE
      OBVIOUS
    <3> DEFINE rest == f[i + Len(s)]
    <3>0. i + Len(s) \in Nat
      BY <1>1, <2>1
    <3>1. f[i] = <<Mask>> \o rest /\ rest \in Seq(Chars)
      <4>1. rest \in Seq(Chars)
        BY <1>2, <3>0
      <4>2. f[i] = <<Mask>> \o rest
        BY <1>2, <2>1 DEF IsReplacing
      <4> QED BY <4>1, <4>2
    <3> HIDE DEF rest
    <3>2. StandsAt(v, <<Mask>> \o rest, 1) /\ v \in Seq(Chars) /\ v # <<>>
      BY <1>4, <3>1, StringType
    <3>3. v[1] = Mask
      BY <1>1, <3>1, <3>2, StandsFirst
    <3> QED BY <3>3, StringType
  <2>3. f[i] = <<t[i]>> \o f[i + 1]
    BY <1>2, <2>1, <2>2 DEF IsReplacing
  <2> QED BY <2>1, <2>2, <2>3
<1>5. \A i \in Ok, v \in Strings : StandsAt(v, f[i], 1) => StandsAt(v, t, i)
  <2>1. Strings \in SUBSET Seq(Chars)
    BY StringType
  <2>2. HasRests(Strings)
    BY StringType DEF HasRests
  <2>3. Reads(f, Strings, Ok, t)
    <3>1. \A i \in Ok : i + 1 \in Ok
      BY <1>1, Beyond
    <3> HIDE DEF Ok
    <3> QED BY <1>4, <3>1 DEF Reads
  <2> HIDE DEF Ok
  <2> QED BY <2>1, <2>2, <2>3, Legible
<1> SUFFICES ASSUME ~(u # s /\ \E q \in 1 .. n : StandsAt(u, t, q)) PROVE FALSE
  OBVIOUS
<1>6. ASSUME NEW i \in 1 .. n, NEW j \in Nat, StandsAt(u, f[i], j)
      PROVE  \E later, m \in Nat : later > i /\ StandsAt(u, f[later], m)
  <2>0. i \in Nat /\ i + 1 \in Nat /\ i + 1 > i /\ i + Len(s) \in Nat /\ i + Len(s) > i
    <3>1. i \in Nat \ {0}
      BY <1>1
    <3> QED BY <1>1, <3>1, Beyond
  <2>1. j # 1
    <3> SUFFICES ASSUME j = 1 PROVE FALSE
      OBVIOUS
    <3>1. i \in Ok
      BY <1>1
    <3>2. StandsAt(u, t, i) /\ ~OccursAt(s, t, i)
      BY <1>4, <1>5, <1>6, <3>1
    <3>3. u = s
      BY <3>2
    <3> QED BY <1>1, <3>2, <3>3, OccursStands
  <2>2. PICK c \in Chars, later \in Nat : later > i /\ f[i] = <<c>> \o f[later]
    <3>1. t[i] \in Chars
      BY ElementOfSeq
    <3>2. CASE OccursAt(s, t, i)
      <4>1. f[i] = <<Mask>> \o f[i + Len(s)]
        BY <1>2, <3>2 DEF IsReplacing
      <4> QED BY <1>1, <2>0, <4>1
    <3>3. CASE ~OccursAt(s, t, i)
      <4>1. f[i] = <<t[i]>> \o f[i + 1]
        BY <1>2, <3>3 DEF IsReplacing
      <4> QED BY <2>0, <3>1, <4>1
    <3> QED BY <3>2, <3>3
  <2>3. j \in Nat \ {0} /\ j > 1
    BY <1>6, <2>1 DEF StandsAt
  <2> DEFINE rest == f[later]
  <2>4. rest \in Seq(Chars) /\ <<c>> \in Seq(Chars) /\ Len(<<c>>) = 1 /\ u \in Seq(Chars)
    <3>1. rest \in Seq(Chars)
      BY <2>2
    <3>2. <<c>> \in Seq(Chars) /\ Len(<<c>>) = 1
      BY ONLY <2>2, c \in Chars
    <3>3. u \in Seq(Chars)
      BY StringType
    <3> QED BY <3>1, <3>2, <3>3
  <2>5. StandsAt(u, <<c>> \o rest, j)
    BY <1>6, <2>2
  <2> HIDE DEF rest
  <2>6. StandsAt(u, rest, j - 1)
    BY <2>3, <2>4, <2>5, StandsBehind
  <2> QED BY <2>2, <2>3, <2>6 DEF rest
<1>7. Len(u) \in Nat \ {0}
  BY StringType
<1>8. \A i \in Nat \ {0}, j \in Nat : ~StandsAt(u, f[i], j)
  BY <1>1, <1>3, <1>6, <1>7, Absent
<1> QED BY <1>2, <1>8

Hit(u, t) == \E k \in Nat : StandsAt(u, t, k)

LEMMA OccursHit ==
  ASSUME NEW u \in Strings, NEW t \in Seq(Chars)
  PROVE  Occurs(u, t) <=> Hit(u, t)
<1>1. u \in Seq(Chars) /\ u # <<>> /\ Len(u) \in Nat \ {0}
  BY StringType
<1>2. DOMAIN t = 1 .. Len(t) /\ Len(t) \in Nat
  OBVIOUS
<1>3. \A i \in 1 .. Len(t) : OccursAt(u, t, i) <=> StandsAt(u, t, i)
  BY <1>1, OccursStands
<1>4. \A k \in Nat : StandsAt(u, t, k) => k \in 1 .. Len(t)
  BY <1>1, <1>2 DEF StandsAt
<1>5. \A i \in 1 .. Len(t) : i \in Nat
  OBVIOUS
<1> QED BY <1>2, <1>3, <1>4, <1>5 DEF Occurs, Hit

LEMMA ReplacedType ==
  ASSUME NEW t \in Seq(Chars), NEW s \in Strings
  PROVE  Replaced(t, s) \in Seq(Chars)
<1>1. s \in Seq(Chars) /\ s # <<>>
  BY StringType
<1>2. PICK f \in [Nat -> Seq(Chars)] : Replaced(t, s) = f[1]
  BY <1>1, ReplacedIs
<1> QED BY <1>2

LEMMA ReplacedNone ==
  ASSUME NEW t \in Seq(Chars), NEW s \in Strings, ~Hit(s, t)
  PROVE  Replaced(t, s) = t
<1>1. s \in Seq(Chars) /\ s # <<>>
  BY StringType
<1>2. PICK f \in [Nat -> Seq(Chars)] : Replaced(t, s) = f[1] /\ IsReplacing(f, t, s)
  BY <1>1, ReplacedIs
<1>3. \A i \in 1 .. Len(t) : ~OccursAt(s, t, i)
  BY <1>1, OccursStands DEF Hit
<1>4. \A i \in Nat : f[i] = IF i \in 1 .. Len(t) THEN <<t[i]>> \o f[i + 1] ELSE <<>>
  BY <1>2, <1>3 DEF IsReplacing
<1>5. f[1] = t
  BY <1>4, Unchanged
<1> QED BY <1>2, <1>5

-----------------------------------------------------------------------------
(* Redactor.redact.                                                        *)

IsMasking(m, t) ==
  /\ m[0] = t
  /\ \A k \in 1 .. Len(Secrets) : m[k] = Replaced(m[k - 1], Secrets[k])

LEMMA SecretType ==
  /\ Len(Secrets) \in Nat /\ DOMAIN Secrets = 1 .. Len(Secrets)
  /\ \A k \in 1 .. Len(Secrets) : Secrets[k] \in Strings
<1>1. Secrets \in Seq(Seq(Chars \ {Mask})) /\ \A i \in DOMAIN Secrets : Secrets[i] # <<>>
  BY PublicTextAssumption
<1>2. Len(Secrets) \in Nat /\ DOMAIN Secrets = 1 .. Len(Secrets)
  BY <1>1
<1>3. \A k \in 1 .. Len(Secrets) : Secrets[k] \in Seq(Chars \ {Mask})
  BY <1>1, ElementOfSeq
<1> QED BY <1>1, <1>2, <1>3 DEF Strings

LEMMA MaskingExists ==
  ASSUME NEW t \in Seq(Chars)
  PROVE  \E m \in [Nat -> Seq(Chars)] : IsMasking(m, t)
<1> DEFINE N == Len(Secrets)
           Done(k) == \E m \in [Nat -> Seq(Chars)] :
             m[0] = t /\ \A j \in 1 .. N : j <= k => m[j] = Replaced(m[j - 1], Secrets[j])
           Good == {k \in Nat : Done(k)}
<1>0. N \in Nat /\ \A k \in 1 .. N : Secrets[k] \in Strings
  BY SecretType
<1> HIDE DEF Done, N
<1>1. Done(0)
  <2> DEFINE m == [k \in Nat |-> t]
  <2>1. m \in [Nat -> Seq(Chars)] /\ m[0] = t
    OBVIOUS
  <2>2. \A j \in 1 .. N : ~(j <= 0)
    BY <1>0
  <2> HIDE DEF m
  <2> QED BY <2>1, <2>2 DEF Done
<1>2. ASSUME NEW k \in Nat, Done(k) PROVE Done(k + 1)
  <2>1. PICK m \in [Nat -> Seq(Chars)] :
          m[0] = t /\ \A j \in 1 .. N : j <= k => m[j] = Replaced(m[j - 1], Secrets[j])
    BY <1>2 DEF Done
  <2>2. CASE k + 1 \notin 1 .. N
    <3>1. \A j \in 1 .. N : j <= k + 1 => j <= k
      BY <1>0, <2>2
    <3> QED BY <2>1, <3>1 DEF Done
  <2>3. CASE k + 1 \in 1 .. N
    <3> DEFINE next == Replaced(m[k], Secrets[k + 1])
               g == [m EXCEPT ![k + 1] = next]
    <3>1. next \in Seq(Chars)
      BY <1>0, <2>1, <2>3, ReplacedType
    <3> HIDE DEF next
    <3>2. /\ g \in [Nat -> Seq(Chars)] /\ g[k + 1] = next
          /\ \A j \in Nat : j # k + 1 => g[j] = m[j]
      BY <3>1
    <3> HIDE DEF g
    <3>3. g[0] = t
      BY <2>1, <3>2
    <3>4. ASSUME NEW j \in 1 .. N, j <= k + 1
          PROVE  g[j] = Replaced(g[j - 1], Secrets[j])
      <4>1. j - 1 \in Nat /\ j \in Nat /\ j - 1 # k + 1 /\ (j = k + 1 => j - 1 = k)
        BY <1>0, <3>4
      <4>2. g[j - 1] = m[j - 1]
        BY <3>2, <4>1
      <4>3. CASE j = k + 1
        BY <3>2, <4>1, <4>2, <4>3 DEF next
      <4>4. CASE j # k + 1
        <5>1. j <= k
          BY <3>4, <4>1, <4>4
        <5> QED BY <2>1, <3>2, <4>1, <4>2, <4>4, <5>1
      <4> QED BY <4>3, <4>4
    <3> QED BY <3>2, <3>3, <3>4 DEF Done
  <2> QED BY <2>2, <2>3
<1>3. Good = Nat
  <2>1. 0 \in Good /\ Good \in SUBSET Nat
    BY <1>1
  <2>2. \A k \in Good : k + 1 \in Good
    BY <1>2
  <2> QED BY <2>1, <2>2, Upward
<1>4. Done(N)
  BY <1>0, <1>3
<1>5. PICK m \in [Nat -> Seq(Chars)] :
        m[0] = t /\ \A j \in 1 .. N : j <= N => m[j] = Replaced(m[j - 1], Secrets[j])
  BY <1>4 DEF Done
<1>6. \A j \in 1 .. N : j <= N
  BY <1>0
<1>7. IsMasking(m, t)
  BY <1>5, <1>6 DEF IsMasking, N
<1> QED BY <1>7

LEMMA RedactIs ==
  ASSUME NEW t \in Seq(Chars)
  PROVE  \E m : Redact(t) = m[Len(Secrets)] /\ IsMasking(m, t)
<1> DEFINE N == Len(Secrets)
           Is(g) == g = [k \in 0 .. N |-> IF k = 0 THEN t ELSE Replaced(g[k - 1], Secrets[k])]
           masked == CHOOSE g : Is(g)
<1>1. N \in Nat
  BY SecretType
<1>2. PICK m \in [Nat -> Seq(Chars)] : IsMasking(m, t)
  BY MaskingExists
<1> DEFINE g == [k \in 0 .. N |-> m[k]]
<1>3. Is(g)
  <2> SUFFICES ASSUME NEW k \in 0 .. N
               PROVE  m[k] = IF k = 0 THEN t ELSE Replaced(g[k - 1], Secrets[k])
    OBVIOUS
  <2>1. CASE k = 0
    BY <1>2, <2>1 DEF IsMasking
  <2>2. CASE k # 0
    <3>1. k \in 1 .. N /\ k - 1 \in 0 .. N
      BY <1>1, <2>2
    <3>2. g[k - 1] = m[k - 1]
      BY <3>1
    <3>3. m[k] = Replaced(m[k - 1], Secrets[k])
      BY <1>2, <3>1 DEF IsMasking
    <3> QED BY <2>2, <3>2, <3>3
  <2> QED BY <2>1, <2>2
<1> HIDE DEF g
<1>4. Is(masked)
  BY <1>3
<1>5. Redact(t) = masked[N]
  BY DEF Redact
<1> HIDE DEF masked
<1>6. IsMasking(masked, t)
  <2>1. 0 \in 0 .. N /\ \A k \in 1 .. N : k \in 0 .. N /\ k # 0
    BY <1>1
  <2>2. masked[0] = t
    BY <1>4, <2>1
  <2>3. \A k \in 1 .. N : masked[k] = Replaced(masked[k - 1], Secrets[k])
    BY <1>4, <2>1
  <2> QED BY <2>2, <2>3 DEF IsMasking
<1> QED BY <1>5, <1>6

(* The redacted text has no secret, and no string that was not there.      *)
LEMMA RedactHides ==
  ASSUME NEW t \in Seq(Chars)
  PROVE  /\ Redact(t) \in Seq(Chars)
         /\ \A i \in 1 .. Len(Secrets) : ~Hit(Secrets[i], Redact(t))
         /\ \A u \in Strings : Hit(u, Redact(t)) => Hit(u, t)
<1> DEFINE N == Len(Secrets)
<1>1. PICK m : Redact(t) = m[N] /\ IsMasking(m, t)
  BY RedactIs
<1> DEFINE Clear(k) == /\ m[k] \in Seq(Chars)
                       /\ \A i \in 1 .. N : i <= k => ~Hit(Secrets[i], m[k])
                       /\ \A u \in Strings : Hit(u, m[k]) => Hit(u, t)
           Good == {k \in Nat : k <= N => Clear(k)}
<1>2. N \in Nat /\ \A k \in 1 .. N : Secrets[k] \in Strings
  BY SecretType
<1> HIDE DEF N
<1>3. Clear(0)
  <2>1. m[0] = t
    BY <1>1 DEF IsMasking
  <2>2. \A i \in 1 .. N : ~(i <= 0)
    BY <1>2
  <2> QED BY <2>1, <2>2
<1>4. ASSUME NEW k \in Nat, k + 1 <= N, Clear(k) PROVE Clear(k + 1)
  <2> DEFINE before == m[k]
             after == m[k + 1]
             s == Secrets[k + 1]
  <2>1. k + 1 \in 1 .. N /\ (k + 1) - 1 = k
    BY <1>2, <1>4
  <2>2. s \in Strings /\ before \in Seq(Chars)
    BY <1>2, <1>4, <2>1
  <2>3. after = Replaced(before, s)
    BY <1>1, <2>1 DEF IsMasking, N
  <2>4. \A i \in 1 .. N : i <= k => ~Hit(Secrets[i], before)
    BY <1>4
  <2>5. \A u \in Strings : Hit(u, before) => Hit(u, t)
    BY <1>4
  <2> HIDE DEF before, after, s
  <2>6. after \in Seq(Chars)
    BY <2>2, <2>3, ReplacedType
  <2>7. \A u \in Strings : Hit(u, after) => u # s /\ Hit(u, before)
    <3> SUFFICES ASSUME NEW u \in Strings, NEW q \in Nat, StandsAt(u, after, q)
                 PROVE  u # s /\ Hit(u, before)
      BY DEF Hit
    <3>1. u # s /\ \E p \in 1 .. Len(before) : StandsAt(u, before, p)
      BY <2>2, <2>3, ReplacedShows
    <3>2. \A p \in 1 .. Len(before) : p \in Nat
      BY <2>2
    <3> QED BY <3>1, <3>2 DEF Hit
  <2>8. ASSUME NEW i \in 1 .. N, i <= k + 1 PROVE ~Hit(Secrets[i], after)
    <3>1. Secrets[i] \in Strings
      BY <1>2
    <3>2. CASE i = k + 1
      BY <2>7, <3>1, <3>2 DEF s
    <3>3. CASE i # k + 1
      <4>1. i <= k
        BY <1>2, <2>8, <3>3
      <4> QED BY <2>4, <2>7, <3>1, <4>1
    <3> QED BY <3>2, <3>3
  <2> QED BY <2>5, <2>6, <2>7, <2>8 DEF after
<1>5. Good = Nat
  <2> HIDE DEF Clear
  <2>1. 0 \in Good /\ Good \in SUBSET Nat
    BY <1>3
  <2>2. ASSUME NEW k \in Good PROVE k + 1 \in Good
    <3>1. k + 1 <= N => k <= N
      BY <1>2
    <3> QED BY <1>4, <3>1
  <2> QED BY <2>1, <2>2, Upward
<1>6. Clear(N)
  <2>1. N <= N
    BY <1>2
  <2> HIDE DEF Clear
  <2> QED BY <1>2, <1>5, <2>1
<1>7. \A i \in 1 .. N : i <= N
  BY <1>2
<1> QED BY <1>1, <1>6, <1>7 DEF N

(* A text without a secret is left as it is.                               *)
LEMMA RedactNone ==
  ASSUME NEW t \in Seq(Chars), \A i \in 1 .. Len(Secrets) : ~Hit(Secrets[i], t)
  PROVE  Redact(t) = t
<1> DEFINE N == Len(Secrets)
<1>1. PICK m : Redact(t) = m[N] /\ IsMasking(m, t)
  BY RedactIs
<1> DEFINE Good == {k \in Nat : k <= N => m[k] = t}
<1>2. N \in Nat /\ \A k \in 1 .. N : Secrets[k] \in Strings
  BY SecretType
<1>3. 0 \in Good
  BY <1>1 DEF IsMasking
<1>4. ASSUME NEW k \in Good PROVE k + 1 \in Good
  <2> SUFFICES ASSUME k + 1 <= N PROVE m[k + 1] = t
    OBVIOUS
  <2>1. k + 1 \in 1 .. N /\ (k + 1) - 1 = k /\ k <= N
    BY <1>2
  <2>2. m[k + 1] = Replaced(m[k], Secrets[k + 1])
    BY <1>1, <2>1 DEF IsMasking
  <2>3. m[k] = t
    BY <2>1
  <2> QED BY <1>2, <2>1, <2>2, <2>3, ReplacedNone
<1>5. Good = Nat
  BY <1>3, <1>4, Upward
<1>6. m[N] = t
  <2>1. N <= N
    BY <1>2
  <2> QED BY <1>2, <1>5, <2>1
<1> QED BY <1>1, <1>6

-----------------------------------------------------------------------------
(* str.translate, and what a reader of the Markdown sees of it.            *)

IsMapping(f, piece) ==
  /\ \A i \in Nat : i \notin DOMAIN piece => f[i] = <<>>
  /\ \A i \in DOMAIN piece : f[i] = piece[i] \o f[i + 1]

LEMMA MappedIs ==
  ASSUME NEW n \in Nat, NEW piece \in [1 .. n -> Seq(Chars)]
  PROVE  \E f \in [Nat -> Seq(Chars)] : Mapped(piece) = f[1] /\ IsMapping(f, piece)
<1> DEFINE width == [i \in DOMAIN piece |-> 1]
<1>1. DOMAIN piece = 1 .. n /\ width \in [1 .. n -> Nat \ {0}] /\ \A i \in 1 .. n : width[i] = 1
  OBVIOUS
<1>2. Mapped(piece) = Scanned(piece, width)
  BY DEF Mapped
<1> HIDE DEF width
<1>3. PICK f \in [Nat -> Seq(Chars)] : Scanned(piece, width) = f[1] /\ IsScan(f, piece, width)
  BY <1>1, ScannedIs
<1>4. IsMapping(f, piece)
  <2>1. \A i \in 1 .. n : i \in Nat
    OBVIOUS
  <2> QED BY <1>1, <1>3, <2>1 DEF IsScan, ScanAt, IsMapping
<1> QED BY <1>2, <1>3, <1>4

LEMMA ShortTexts ==
  ASSUME NEW c \in Chars, NEW d \in Chars, NEW e \in Chars
  PROVE  <<c>> \in Seq(Chars) /\ <<c, d>> \in Seq(Chars) /\ <<c, d, e>> \in Seq(Chars)
OBVIOUS

LEMMA TripleIs ==
  ASSUME NEW c, NEW d, NEW e
  PROVE  Len(<<c, d, e>>) = 3 /\ <<c, d, e>>[1] = c /\ <<c, d, e>>[2] = d /\ <<c, d, e>>[3] = e
OBVIOUS

LEMMA EntityIs ==
  /\ Entity \in Seq(Chars) /\ Len(Entity) = 3 /\ Entity # <<>> /\ Entity[1] = "&"
  /\ "&" \in Chars /\ Entity[2] \in Chars
<1>1. Entity \in Seq(Chars)
  BY PublicTextAssumption
<1>2. Len(Entity) = 3 /\ Entity[1] = "&"
  BY TripleIs, Zenon DEF Entity
<1>3. Entity # <<>>
  BY <1>2, EmptySeq
<1>4. \A i \in 1 .. 3 : Entity[i] \in Chars
  BY <1>1, <1>2, ElementOfSeq
<1> QED BY <1>1, <1>2, <1>3, <1>4

LEMMA EscapedType ==
  ASSUME NEW c \in Chars
  PROVE  /\ Escaped(c) \in Seq(Chars)
         /\ c \in Joined => Escaped(c) = <<"\\", c>>
         /\ c \notin Joined /\ c = "&" => Escaped(c) = Entity
         /\ c \notin Joined /\ c # "&" => Escaped(c) = <<c>> /\ c # "\\"
<1>1. "\\" \in Chars /\ "\\" \in Joined
  BY PublicTextAssumption
<1>2. c \in Joined => Escaped(c) = <<"\\", c>>
  BY DEF Escaped
<1>3. c \notin Joined /\ c = "&" => Escaped(c) = Entity
  BY DEF Escaped
<1>4. c \notin Joined /\ c # "&" => Escaped(c) = <<c>> /\ c # "\\"
  BY <1>1 DEF Escaped
<1>5. Escaped(c) \in Seq(Chars)
  <2>2. <<"\\", c>> \in Seq(Chars) /\ Entity \in Seq(Chars) /\ <<c>> \in Seq(Chars)
    BY <1>1, ShortTexts, EntityIs
  <2> QED BY <2>2 DEF Escaped
<1> QED BY <1>2, <1>3, <1>4, <1>5

LEMMA TranslatedIs ==
  ASSUME NEW c \in Seq(Chars)
  PROVE  \E f \in [Nat -> Seq(Chars)] :
           /\ Translated(c) = f[1]
           /\ \A i \in Nat : i \notin 1 .. Len(c) => f[i] = <<>>
           /\ \A i \in 1 .. Len(c) : f[i] = Escaped(c[i]) \o f[i + 1]
<1> DEFINE piece == [i \in DOMAIN c |-> Escaped(c[i])]
<1>1. DOMAIN c = 1 .. Len(c) /\ Len(c) \in Nat
  OBVIOUS
<1>2. piece \in [1 .. Len(c) -> Seq(Chars)]
  <2>1. \A i \in 1 .. Len(c) : c[i] \in Chars
    BY ElementOfSeq
  <2>2. \A i \in 1 .. Len(c) : Escaped(c[i]) \in Seq(Chars)
    BY <2>1, EscapedType
  <2> QED BY <1>1, <2>2
<1>3. DOMAIN piece = 1 .. Len(c) /\ \A i \in 1 .. Len(c) : piece[i] = Escaped(c[i])
  BY <1>1
<1>4. Translated(c) = Mapped(piece)
  BY DEF Translated
<1> HIDE DEF piece
<1>5. PICK f \in [Nat -> Seq(Chars)] : Mapped(piece) = f[1] /\ IsMapping(f, piece)
  BY <1>1, <1>2, MappedIs
<1> QED BY <1>3, <1>4, <1>5 DEF IsMapping

Escapes(t, i) == t[i] = "\\" /\ i < Len(t) /\ t[i + 1] \in Joined

IsRendering(f, t) ==
  /\ \A i \in Nat : i \notin 1 .. Len(t) => f[i] = <<>>
  /\ \A i \in 1 .. Len(t) : Escapes(t, i) => f[i] = <<t[i + 1]>> \o f[i + 2]
  /\ \A i \in 1 .. Len(t) : ~Escapes(t, i) /\ OccursAt(Entity, t, i) =>
       f[i] = <<"&">> \o f[i + 3]
  /\ \A i \in 1 .. Len(t) : ~Escapes(t, i) /\ ~OccursAt(Entity, t, i) =>
       f[i] = <<t[i]>> \o f[i + 1]

LEMMA RenderedIs ==
  ASSUME NEW t \in Seq(Chars)
  PROVE  \E f \in [Nat -> Seq(Chars)] : Rendered(t) = f[1] /\ IsRendering(f, t)
<1> DEFINE n == Len(t)
           piece == [i \in DOMAIN t |-> IF Escapes(t, i) THEN <<t[i + 1]>>
                                        ELSE IF OccursAt(Entity, t, i) THEN <<"&">>
                                        ELSE <<t[i]>>]
           width == [i \in DOMAIN t |-> IF Escapes(t, i) THEN 2
                                        ELSE IF OccursAt(Entity, t, i) THEN 3 ELSE 1]
<1>1. n \in Nat /\ DOMAIN t = 1 .. n /\ \A i \in 1 .. n : t[i] \in Chars
  BY ElementOfSeq
<1>2. \A i \in 1 .. n : piece[i] \in Seq(Chars)
  <2> TAKE i \in 1 .. n
  <2>1. "&" \in Chars
    BY EntityIs
  <2>2. CASE Escapes(t, i)
    <3>1. i + 1 \in 1 .. n
      BY <1>1, <2>2 DEF Escapes
    <3>2. <<t[i + 1]>> \in Seq(Chars)
      BY <1>1, <3>1
    <3> QED BY <1>1, <2>2, <3>2
  <2>3. CASE ~Escapes(t, i)
    <3>1. <<"&">> \in Seq(Chars) /\ <<t[i]>> \in Seq(Chars)
      BY <1>1, <2>1
    <3> QED BY <1>1, <2>3, <3>1
  <2> QED BY <2>2, <2>3
<1>3. DOMAIN piece = 1 .. n /\ DOMAIN width = 1 .. n
  BY <1>1
<1>4. width \in [1 .. n -> Nat \ {0}]
  BY <1>1
<1>5. piece \in [1 .. n -> Seq(Chars)]
  BY <1>2, <1>3
<1>6. \A i \in 1 .. n :
        /\ Escapes(t, i) => piece[i] = <<t[i + 1]>> /\ width[i] = 2
        /\ ~Escapes(t, i) /\ OccursAt(Entity, t, i) => piece[i] = <<"&">> /\ width[i] = 3
        /\ ~Escapes(t, i) /\ ~OccursAt(Entity, t, i) => piece[i] = <<t[i]>> /\ width[i] = 1
  BY <1>1
<1>7. Rendered(t) = Scanned(piece, width)
  BY DEF Rendered, Escapes
<1> HIDE DEF piece, width
<1>8. PICK f \in [Nat -> Seq(Chars)] : Scanned(piece, width) = f[1] /\ IsScan(f, piece, width)
  BY <1>1, <1>4, <1>5, ScannedIs
<1>9. IsRendering(f, t)
  <2>1. \A i \in 1 .. n : i \in Nat
    BY <1>1
  <2>2. /\ \A i \in Nat : i \notin 1 .. n => f[i] = <<>>
        /\ \A i \in 1 .. n : f[i] = piece[i] \o f[i + width[i]]
    BY <1>3, <1>8, <2>1 DEF IsScan, ScanAt
  <2>3. \A i \in 1 .. n : Escapes(t, i) => f[i] = <<t[i + 1]>> \o f[i + 2]
    BY <1>6, <2>2
  <2>4. \A i \in 1 .. n : ~Escapes(t, i) /\ OccursAt(Entity, t, i) => f[i] = <<"&">> \o f[i + 3]
    BY <1>6, <2>2
  <2>5. \A i \in 1 .. n : ~Escapes(t, i) /\ ~OccursAt(Entity, t, i) => f[i] = <<t[i]>> \o f[i + 1]
    BY <1>6, <2>2
  <2> QED BY <2>2, <2>3, <2>4, <2>5 DEF IsRendering
<1> QED BY <1>7, <1>8, <1>9

(* s is what there is of t from p on.                                      *)
Ends(t, p, s) == /\ p \in Nat \ {0} /\ p - 1 + Len(s) = Len(t)
                 /\ \A j \in 1 .. Len(s) : t[p + j - 1] = s[j]

LEMMA After ==
  ASSUME NEW n \in Nat, NEW i \in Nat, i > n
  PROVE  i \in Nat \ {0} /\ i \notin 1 .. n /\ i \in Int /\ n \in Int /\ n < i
OBVIOUS

LEMMA EndsRest ==
  ASSUME NEW t \in Seq(Chars), NEW a \in Seq(Chars), NEW b \in Seq(Chars),
         NEW p \in Nat \ {0}, Ends(t, p, a \o b)
  PROVE  Ends(t, p + Len(a), b) /\ StandsAt(a, t, p)
<1>1. Len(a) \in Nat /\ Len(b) \in Nat /\ Len(t) \in Nat
  OBVIOUS
<1>2. /\ Len(a \o b) = Len(a) + Len(b)
      /\ \A j \in 1 .. Len(a) + Len(b) :
           (a \o b)[j] = IF j <= Len(a) THEN a[j] ELSE b[j - Len(a)]
  BY ConcatProperties
<1>3. p - 1 + Len(a) + Len(b) = Len(t)
        /\ \A j \in 1 .. Len(a) + Len(b) : t[p + j - 1] = (a \o b)[j]
  BY <1>1, <1>2 DEF Ends
<1>4. \A j \in 1 .. Len(a) : j \in 1 .. Len(a) + Len(b) /\ j <= Len(a)
  BY <1>1
<1>5. \A j \in 1 .. Len(a) : t[p + j - 1] = a[j]
  BY <1>2, <1>3, <1>4
<1>6. ASSUME NEW j \in 1 .. Len(b) PROVE t[p + Len(a) + j - 1] = b[j]
  <2>1. /\ Len(a) + j \in 1 .. Len(a) + Len(b) /\ ~(Len(a) + j <= Len(a))
        /\ Len(a) + j - Len(a) = j /\ p + (Len(a) + j) - 1 = p + Len(a) + j - 1
    BY <1>1
  <2>2. t[p + (Len(a) + j) - 1] = (a \o b)[Len(a) + j]
    BY <1>3, <2>1
  <2> QED BY <1>2, <2>1, <2>2
<1>7. p + Len(a) \in Nat \ {0} /\ p + Len(a) - 1 + Len(b) = Len(t) /\ p + Len(a) - 1 <= Len(t)
  BY <1>1, <1>3
<1> QED BY <1>5, <1>6, <1>7 DEF Ends, StandsAt

(* What begins with a character's translation is read as the character.    *)
LEMMA ReadsBack ==
  ASSUME NEW t \in Seq(Chars), NEW f, IsRendering(f, t), NEW c \in Chars,
         NEW p \in Nat \ {0}, StandsAt(Escaped(c), t, p)
  PROVE  f[p] = <<c>> \o f[p + Len(Escaped(c))]
<1> DEFINE n == Len(t)
<1>1. n \in Nat
  OBVIOUS
<1>2. CASE c \in Joined
  <2>1. Escaped(c) = <<"\\", c>>
    BY <1>2, EscapedType
  <2>2. Len(Escaped(c)) = 2 /\ p + 1 <= n /\ t[p] = "\\" /\ t[p + 1] = c
    BY <1>1, <2>1 DEF StandsAt
  <2>3. Escapes(t, p) /\ p \in 1 .. n
    BY <1>1, <1>2, <2>2 DEF Escapes
  <2> QED BY <2>2, <2>3 DEF IsRendering
<1>3. CASE c \notin Joined /\ c = "&"
  <2>1. Escaped(c) = Entity
    BY <1>3, EscapedType
  <2>2. Len(Entity) = 3 /\ Entity # <<>> /\ Entity[1] = "&" /\ Entity \in Seq(Chars)
    BY EntityIs
  <2>3. p \in 1 .. n /\ t[p] = "&"
    BY <1>1, <2>1, <2>2 DEF StandsAt
  <2>4. StandsAt(Entity, t, p)
    BY <2>1
  <2>5. OccursAt(Entity, t, p)
    BY <2>2, <2>3, <2>4, OccursStands
  <2>6. ~Escapes(t, p)
    BY <2>3 DEF Escapes
  <2>7. f[p] = <<"&">> \o f[p + 3]
    BY <2>3, <2>5, <2>6 DEF IsRendering
  <2> QED BY <1>3, <2>1, <2>2, <2>7
<1>4. CASE c \notin Joined /\ c # "&"
  <2>1. Escaped(c) = <<c>> /\ c # "\\"
    BY <1>4, EscapedType
  <2>2. Len(Escaped(c)) = 1 /\ p \in 1 .. n /\ t[p] = c
    BY <1>1, <2>1 DEF StandsAt
  <2>3. ~Escapes(t, p)
    BY <2>1, <2>2 DEF Escapes
  <2>4. ~OccursAt(Entity, t, p)
    <3>1. Len(Entity) = 3 /\ Entity # <<>> /\ Entity[1] = "&" /\ Entity \in Seq(Chars)
      BY EntityIs
    <3>2. ~StandsAt(Entity, t, p)
      BY <1>4, <2>2, <3>1 DEF StandsAt
    <3> QED BY <2>2, <3>1, <3>2, OccursStands
  <2> QED BY <2>2, <2>3, <2>4 DEF IsRendering
<1> QED BY <1>2, <1>3, <1>4

(* A reader of the Markdown sees the text that was translated.             *)
LEMMA RenderedTranslated ==
  ASSUME NEW c \in Seq(Chars)
  PROVE  Translated(c) \in Seq(Chars) /\ Rendered(Translated(c)) = c
<1> DEFINE e == Translated(c)
           n == Len(c)
<1>1. PICK g \in [Nat -> Seq(Chars)] :
        /\ e = g[1]
        /\ \A i \in Nat : i \notin 1 .. Len(c) => g[i] = <<>>
        /\ \A i \in 1 .. Len(c) : g[i] = Escaped(c[i]) \o g[i + 1]
  BY TranslatedIs
<1> HIDE DEF e
<1>2. e \in Seq(Chars)
  BY <1>1
<1>3. PICK f \in [Nat -> Seq(Chars)] : Rendered(e) = f[1] /\ IsRendering(f, e)
  BY <1>2, RenderedIs
<1> DEFINE Shown(i) == \A p \in Nat \ {0} : Ends(e, p, g[i]) => f[p] = SubSeq(c, i, n)
           G == {i \in Nat \ {0} : i <= n + 1 => Shown(i)}
<1>4. n \in Nat
  OBVIOUS
<1>5. ASSUME NEW i \in Nat, i > n PROVE i \in G
  <2>1. i \in Nat \ {0} /\ i \notin 1 .. Len(c) /\ i \in Int /\ n \in Int /\ n < i
    BY <1>4, <1>5, After
  <2>2. SubSeq(c, i, n) = <<>>
    BY <2>1, SubSeqEmpty
  <2>3. ASSUME NEW p \in Nat \ {0}, Ends(e, p, g[i]) PROVE f[p] = <<>>
    <3>1. g[i] = <<>>
      BY <1>1, <2>1
    <3>2. Len(g[i]) = 0
      BY <3>1
    <3>3. p \notin 1 .. Len(e)
      BY <1>2, <2>3, <3>2 DEF Ends
    <3> QED BY <1>3, <3>3 DEF IsRendering
  <2> QED BY <2>1, <2>2, <2>3
<1>6. ASSUME NEW i \in 1 .. n, \A j \in Nat : j > i => j \in G PROVE i \in G
  <2>1. i \in Nat \ {0} /\ i + 1 \in Nat /\ i + 1 > i /\ i + 1 <= n + 1 /\ n \in i .. n
    BY <1>4
  <2>2. Shown(i + 1)
    BY <1>6, <2>1
  <2> SUFFICES ASSUME NEW p \in Nat \ {0}, Ends(e, p, g[i]) PROVE f[p] = SubSeq(c, i, n)
    BY <2>1
  <2> DEFINE a == Escaped(c[i])
             rest == g[i + 1]
  <2>3. c[i] \in Chars /\ rest \in Seq(Chars) /\ g[i] = a \o rest
    BY <1>1, <2>1, ElementOfSeq
  <2>4. a \in Seq(Chars)
    BY <2>3, EscapedType
  <2> HIDE DEF rest
  <2>5. Ends(e, p + Len(a), rest) /\ StandsAt(a, e, p)
    <3> HIDE DEF a
    <3>1. Ends(e, p, a \o rest)
      BY <2>3
    <3> QED BY <1>2, <2>3, <2>4, <3>1, EndsRest
  <2>6. f[p] = <<c[i]>> \o f[p + Len(a)]
    <3> DEFINE ch == c[i]
    <3>1. ch \in Chars /\ StandsAt(Escaped(ch), e, p)
      BY <2>3, <2>5
    <3> HIDE DEF ch
    <3>2. f[p] = <<ch>> \o f[p + Len(Escaped(ch))]
      BY <1>2, <1>3, <3>1, ReadsBack
    <3> QED BY <3>2 DEF ch
  <2> HIDE DEF a
  <2>7. f[p + Len(a)] = SubSeq(c, i + 1, n)
    BY <2>2, <2>4, <2>5 DEF Ends, rest
  <2>8. SubSeq(c, i, n) = <<c[i]>> \o SubSeq(c, i + 1, n)
    BY <2>1, SubSeqRecursiveFirst
  <2> QED BY <2>6, <2>7, <2>8
<1>7. 1 \in G
  <2> HIDE DEF G, n
  <2>1. \A i \in Nat \ {0} : i \in G
    BY <1>4, <1>5, <1>6, Downward
  <2> QED BY <2>1
<1>8. Ends(e, 1, g[1])
  BY <1>1, <1>2 DEF Ends
<1>9. f[1] = SubSeq(c, 1, n)
  <2>1. Shown(1)
    <3>1. 1 <= n + 1
      BY <1>4
    <3> HIDE DEF Shown, n
    <3> QED BY <1>7, <3>1
  <2> HIDE DEF n
  <2> QED BY <1>8, <2>1
<1> QED BY <1>2, <1>3, <1>9, SubSeqFull DEF e

-----------------------------------------------------------------------------
(* What collapsing and translating show of a string that has neither       *)
(* whitespace nor a character of the Markdown's own.                       *)

Plain == {u \in Strings : \A j \in 1 .. Len(u) : ~IsSpace(u[j]) /\ u[j] \notin {"\\", "&", Entity[3]}}

LEMMA PlainType ==
  /\ Plain \in SUBSET Seq(Chars) /\ HasRests(Plain)
  /\ \A u \in Plain : /\ u \in Strings /\ u \in Seq(Chars) /\ u # <<>> /\ Len(u) \in Nat \ {0}
                      /\ \A j \in 1 .. Len(u) : /\ ~IsSpace(u[j])
                                                /\ u[j] \notin {"\\", "&", Entity[3]}
<1>1. ASSUME NEW u \in Plain
      PROVE  /\ u \in Strings /\ u \in Seq(Chars) /\ u # <<>> /\ Len(u) \in Nat \ {0}
             /\ \A j \in 1 .. Len(u) : ~IsSpace(u[j]) /\ u[j] \notin {"\\", "&", Entity[3]}
             /\ Len(u) = 1 \/ Tail(u) \in Plain
  <2>1. u \in Strings /\ \A j \in 1 .. Len(u) : ~IsSpace(u[j]) /\ u[j] \notin {"\\", "&", Entity[3]}
    BY DEF Plain
  <2>2. u \in Seq(Chars) /\ u # <<>> /\ Len(u) \in Nat \ {0}
    BY <2>1, StringType
  <2>3. Len(u) = 1 \/ Tail(u) \in Strings
    BY <2>1, StringType
  <2>4. Len(Tail(u)) = Len(u) - 1 /\ \A j \in 1 .. Len(Tail(u)) : Tail(u)[j] = u[j + 1]
    BY <2>2, HeadTailProperties
  <2>5. ASSUME NEW j \in 1 .. Len(Tail(u))
        PROVE  ~IsSpace(Tail(u)[j]) /\ Tail(u)[j] \notin {"\\", "&", Entity[3]}
    <3>1. j + 1 \in 1 .. Len(u)
      BY <2>2, <2>4
    <3>2. Tail(u)[j] = u[j + 1]
      BY <2>4
    <3> QED BY <2>1, <3>1, <3>2
  <2>6. Tail(u) \in Strings => Tail(u) \in Plain
    BY <2>5 DEF Plain
  <2> QED BY <2>1, <2>2, <2>3, <2>6
<1> QED BY <1>1 DEF HasRests

LEMMA OneTwo ==
  ASSUME NEW n \in Nat \ {0} PROVE 1 \in 1 .. n /\ (n > 1 => 2 \in 1 .. n)
OBVIOUS

LEMMA PlainString ==
  ASSUME NEW u \in Plain
  PROVE  /\ u \in Strings /\ u \in Seq(Chars) /\ u # <<>> /\ Len(u) \in Nat \ {0}
         /\ u[1] \notin {"\\", "&", Entity[3]} /\ ~IsSpace(u[1])
         /\ Len(u) > 1 => u[2] \notin {"\\", "&", Entity[3]} /\ ~IsSpace(u[2])
         /\ Len(u) = 1 \/ Tail(u) \in Plain
<1>1. /\ u \in Strings /\ u \in Seq(Chars) /\ u # <<>> /\ Len(u) \in Nat \ {0}
      /\ \A j \in 1 .. Len(u) : ~IsSpace(u[j]) /\ u[j] \notin {"\\", "&", Entity[3]}
      /\ Len(u) = 1 \/ Tail(u) \in Plain
  BY PlainType DEF HasRests
<1>2. 1 \in 1 .. Len(u) /\ (Len(u) > 1 => 2 \in 1 .. Len(u))
  BY <1>1, OneTwo
<1> QED BY <1>1, <1>2

LEMMA PairIs ==
  ASSUME NEW c \in Chars, NEW d \in Chars
  PROVE  Len(<<c, d>>) = 2 /\ <<c, d>>[1] = c /\ <<c, d>> = <<c>> \o <<d>>
<1>1. Len(<<c, d>>) = 2 /\ <<c, d>>[1] = c /\ <<c, d>>[2] = d
  OBVIOUS
<1>2. <<c>> \in Seq(Chars) /\ <<d>> \in Seq(Chars) /\ <<c, d>> \in Seq(Chars)
  BY ShortTexts
<1>3. Len(<<c>>) = 1 /\ Len(<<d>>) = 1 /\ <<c>>[1] = c /\ <<d>>[1] = d
  OBVIOUS
<1> DEFINE s == <<c>>
           t == <<d>>
           u == <<c, d>>
<1>4. /\ s \in Seq(Chars) /\ t \in Seq(Chars) /\ u \in Seq(Chars) /\ Len(u) = 2
      /\ Len(s) = 1 /\ Len(t) = 1 /\ u[1] = s[1] /\ u[2] = t[1]
  BY <1>1, <1>2, <1>3
<1> HIDE DEF s, t, u
<1>5. /\ s \o t \in Seq(Chars) /\ Len(s \o t) = Len(u)
      /\ \A i \in 1 .. 2 : (s \o t)[i] = IF i <= 1 THEN s[i] ELSE t[i - 1]
  BY <1>4, ConcatProperties
<1>6. \A i \in 1 .. Len(u) : (s \o t)[i] = u[i]
  BY <1>4, <1>5
<1>7. s \o t = u
  BY <1>4, <1>5, <1>6, SeqEqual
<1> QED BY <1>1, <1>7 DEF s, t, u

LEMMA StandsInPiece ==
  ASSUME NEW u \in Seq(Chars), Len(u) \in Nat \ {0}, NEW a \in Seq(Chars), NEW b \in Seq(Chars),
         NEW j \in 1 .. Len(a), StandsAt(u, a \o b, j)
  PROVE  u[1] = a[j] /\ (Len(u) > 1 /\ j + 1 <= Len(a) => u[2] = a[j + 1])
<1>1. Len(a) \in Nat /\ Len(b) \in Nat
  OBVIOUS
<1>2. /\ Len(a \o b) = Len(a) + Len(b)
      /\ \A k \in 1 .. Len(a) + Len(b) :
           (a \o b)[k] = IF k <= Len(a) THEN a[k] ELSE b[k - Len(a)]
  BY ConcatProperties
<1>3. \A k \in 1 .. Len(u) : (a \o b)[j + k - 1] = u[k]
  BY DEF StandsAt
<1>4. u[1] = a[j]
  <2>1. 1 \in 1 .. Len(u) /\ j + 1 - 1 = j /\ j \in 1 .. Len(a) + Len(b) /\ j <= Len(a)
    BY <1>1
  <2>2. (a \o b)[j + 1 - 1] = u[1]
    BY <1>3, <2>1
  <2> QED BY <1>2, <2>1, <2>2
<1>5. ASSUME Len(u) > 1, j + 1 <= Len(a) PROVE u[2] = a[j + 1]
  <2>1. 2 \in 1 .. Len(u) /\ j + 2 - 1 = j + 1 /\ j + 1 \in 1 .. Len(a) + Len(b)
    BY <1>1, <1>5
  <2>2. (a \o b)[j + 2 - 1] = u[2]
    BY <1>3, <2>1
  <2> QED BY <1>2, <1>5, <2>1, <2>2
<1> QED BY <1>4, <1>5

LEMMA NoMatchInEmpty ==
  ASSUME NEW u, Len(u) \in Nat \ {0}, NEW j PROVE ~StandsAt(u, <<>>, j)
BY DEF StandsAt

EntityName == <<Entity[2]>>

LEMMA Small ==
  ASSUME NEW n
  PROVE  /\ n \in Nat \ {0} /\ ~(n > 1) => n = 1
         /\ n = 1 => \A k \in 1 .. n : k = 1
         /\ n \in {1, 2, 3} => 1 \in 1 .. n
         /\ n = 3 => 3 <= n
OBVIOUS

LEMMA Associative ==
  ASSUME NEW a \in Seq(Chars), NEW b \in Seq(Chars), NEW c \in Seq(Chars)
  PROVE  (a \o b) \o c = a \o (b \o c)
BY ConcatAssociative

LEMMA TranslatedShows ==
  ASSUME NEW t \in Seq(Chars), NEW u \in Plain, u # EntityName, Hit(u, Translated(t))
  PROVE  Hit(u, t)
<1> DEFINE n == Len(t)
           Ok == Nat \ {0}
<1>0. n \in Nat /\ u \in Seq(Chars) /\ u # <<>> /\ Len(u) \in Nat \ {0}
  <2>1. n \in Nat
    OBVIOUS
  <2>2. u \in Seq(Chars) /\ u # <<>> /\ Len(u) \in Nat \ {0}
    BY PlainString
  <2> QED BY <2>1, <2>2
<1>1. PICK f \in [Nat -> Seq(Chars)] :
        /\ Translated(t) = f[1]
        /\ \A i \in Nat : i \notin 1 .. n => f[i] = <<>>
        /\ \A i \in 1 .. n : f[i] = Escaped(t[i]) \o f[i + 1]
  BY TranslatedIs
<1>2. \A i \in Nat : i > n => f[i] = <<>>
  BY <1>0, <1>1, After
<1>3. ASSUME NEW i \in 1 .. n
      PROVE  /\ i \in Nat \ {0} /\ i + 1 \in Nat /\ i + 1 > i /\ t[i] \in Chars
             /\ f[i + 1] \in Seq(Chars) /\ Escaped(t[i]) \in Seq(Chars)
  <2>1. i \in Nat \ {0} /\ i + 1 \in Nat /\ i + 1 > i
    BY <1>0
  <2>2. t[i] \in Chars
    BY ElementOfSeq
  <2> QED BY <1>1, <2>1, <2>2, EscapedType
<1>4. ASSUME NEW i \in Ok, NEW v \in Plain, StandsAt(v, f[i], 1)
      PROVE  i \in 1 .. n /\ f[i] = <<t[i]>> \o f[i + 1]
  <2>1. v \in Seq(Chars) /\ Len(v) \in Nat \ {0} /\ v[1] \notin {"\\", "&", Entity[3]}
    BY PlainString
  <2>2. i \in 1 .. n
    <3>1. f[i] # <<>>
      BY <1>4, <2>1, NoMatchInEmpty
    <3>2. i \in Nat
      OBVIOUS
    <3> QED BY <1>1, <3>1, <3>2
  <2> DEFINE esc == Escaped(t[i])
             rest == f[i + 1]
  <2>3. esc \in Seq(Chars) /\ rest \in Seq(Chars) /\ f[i] = esc \o rest
    BY <1>1, <1>3, <2>2
  <2>4. Len(esc) \in {1, 2, 3} => v[1] = esc[1]
    <3> HIDE DEF esc, rest
    <3>1. StandsAt(v, esc \o rest, 1)
      BY <1>4, <2>3
    <3>3. Len(esc) \in {1, 2, 3} => 1 \in 1 .. Len(esc)
      BY Small
    <3>4. 1 \in 1 .. Len(esc) => v[1] = esc[1]
      BY <2>1, <2>3, <3>1, StandsInPiece
    <3> QED BY <3>3, <3>4
  <2>5. esc = <<t[i]>>
    <3>1. t[i] \in Chars
      BY <1>3, <2>2
    <3>2. t[i] \notin Joined
      <4> SUFFICES ASSUME t[i] \in Joined PROVE FALSE
        OBVIOUS
      <4>1. esc = <<"\\", t[i]>>
        BY <3>1, EscapedType
      <4>2. Len(esc) = 2 /\ esc[1] = "\\"
        <5>1. "\\" \in Chars
          BY PublicTextAssumption
        <5>2. Len(<<"\\", t[i]>>) = 2 /\ <<"\\", t[i]>>[1] = "\\"
          BY <3>1, <5>1, PairIs
        <5> HIDE DEF esc
        <5> QED BY <4>1, <5>2
      <4> HIDE DEF esc
      <4> QED BY <2>1, <2>4, <4>2
    <3>3. t[i] # "&"
      <4> SUFFICES ASSUME t[i] = "&" PROVE FALSE
        OBVIOUS
      <4>1. esc = Entity
        BY <3>1, <3>2, EscapedType
      <4>2. Len(esc) = 3 /\ esc[1] = "&"
        <5> HIDE DEF esc
        <5> QED BY <4>1, EntityIs
      <4> HIDE DEF esc
      <4> QED BY <2>1, <2>4, <4>2
    <3> QED BY <3>1, <3>2, <3>3, EscapedType
  <2> QED BY <2>2, <2>3, <2>5
<1>5. \A i \in Ok, v \in Plain : StandsAt(v, f[i], 1) => StandsAt(v, t, i)
  <2>1. Reads(f, Plain, Ok, t)
    <3>1. \A i \in Ok : i + 1 \in Ok
      BY <1>0, Beyond
    <3> HIDE DEF Ok
    <3> QED BY <1>4, <3>1 DEF Reads
  <2> HIDE DEF Ok
  <2> QED BY <2>1, PlainType, Legible
<1> SUFFICES ASSUME ~Hit(u, t) PROVE FALSE
  OBVIOUS
<1>6. \A i \in Nat : ~StandsAt(u, t, i)
  BY DEF Hit
<1>7. ASSUME NEW i \in 1 .. n, NEW j \in Nat, StandsAt(u, f[i], j)
      PROVE  \E later, k \in Nat : later > i /\ StandsAt(u, f[later], k)
  <2> DEFINE c == t[i]
             esc == Escaped(c)
             rest == f[i + 1]
  <2>1. /\ i \in Nat \ {0} /\ i + 1 \in Nat /\ i + 1 > i /\ c \in Chars
        /\ rest \in Seq(Chars) /\ esc \in Seq(Chars) /\ Len(esc) \in Nat
    BY <1>3
  <2>2. f[i] = esc \o rest
    BY <1>1
  <2>3. j \in Nat \ {0}
    BY <1>7 DEF StandsAt
  <2>4. u[1] # Entity[3] /\ (Len(u) > 1 => u[2] # Entity[3])
    BY PlainString
  <2>5. ~StandsAt(u, t, i) /\ ~StandsAt(u, f[i], 1)
    BY <1>5, <1>6, <2>1
  <2>6. CASE j > Len(esc)
    <3> HIDE DEF esc, rest
    <3>1. StandsAt(u, esc \o rest, j)
      BY <1>7, <2>2
    <3>2. StandsAt(u, rest, j - Len(esc)) /\ j - Len(esc) \in Nat
      BY <1>0, <2>1, <2>3, <2>6, <3>1, StandsBehind
    <3> QED BY <2>1, <3>2 DEF rest
  <2>7. CASE j <= Len(esc)
    <3> SUFFICES FALSE
      OBVIOUS
    <3>1. j \in 1 .. Len(esc) /\ j # 1
      BY <1>7, <2>1, <2>3, <2>5, <2>7
    <3>2. u[1] = esc[j] /\ (Len(u) > 1 /\ j + 1 <= Len(esc) => u[2] = esc[j + 1])
      <4> HIDE DEF esc, rest
      <4>1. StandsAt(u, esc \o rest, j)
        BY <1>7, <2>2
      <4> QED BY <1>0, <2>1, <3>1, <4>1, StandsInPiece
    <3>3. CASE c \in Joined
      <4>1. esc = <<"\\", c>>
        BY <2>1, <3>3, EscapedType
      <4>2. Len(esc) = 2 /\ j = 2 /\ u[1] = c
        BY <3>1, <3>2, <4>1
      <4> DEFINE back == <<"\\">>
                 more == <<c>> \o rest
      <4>3. back \in Seq(Chars) /\ <<c>> \in Seq(Chars) /\ Len(back) = 1
        <5>1. "\\" \in Chars
          BY PublicTextAssumption
        <5> QED BY <2>1, <5>1, ShortTexts
      <4>4. esc = back \o <<c>>
        <5>1. "\\" \in Chars
          BY PublicTextAssumption
        <5> QED BY <2>1, <4>1, <5>1, PairIs
      <4> DEFINE front == <<c>>
      <4> HIDE DEF esc, rest, back, front
      <4>5. more \in Seq(Chars) /\ f[i] = back \o more
        <5>1. front \in Seq(Chars) /\ more = front \o rest /\ esc = back \o front
          BY <4>3, <4>4 DEF front
        <5> HIDE DEF more
        <5>2. more \in Seq(Chars)
          BY <2>1, <5>1, ConcatProperties
        <5>3. (back \o front) \o rest = back \o (front \o rest)
          <6>1. back \in Seq(Chars) /\ front \in Seq(Chars) /\ rest \in Seq(Chars)
            BY <2>1, <4>3, <5>1
          <6> QED BY <6>1, Associative
        <5> QED BY <2>2, <5>1, <5>2, <5>3
      <4> HIDE DEF more
      <4>6. StandsAt(u, more, 1)
        <5>1. StandsAt(u, back \o more, 2) /\ 2 > Len(back) /\ 2 - Len(back) = 1 /\ 2 \in Nat \ {0}
          BY <1>7, <4>2, <4>3, <4>5
        <5>2. StandsAt(u, more, 2 - Len(back))
          BY <1>0, <4>3, <4>5, <5>1, StandsBehind
        <5> QED BY <5>1, <5>2
      <4>7. Len(u) = 1 \/ StandsAt(Tail(u), rest, 1)
        BY <1>0, <2>1, <4>6, StandsFirst DEF more
      <4>8. Len(u) = 1 \/ StandsAt(Tail(u), t, i + 1)
        <5>1. Len(u) = 1 \/ Tail(u) \in Plain
          BY PlainType DEF HasRests
        <5>2. i + 1 \in Ok
          BY <2>1, Beyond
        <5> HIDE DEF Ok
        <5> QED BY <1>5, <4>7, <5>1, <5>2 DEF rest
      <4>9. StandsAt(u, t, i)
        BY <1>0, <4>2, <4>8, StandsLonger
      <4> QED BY <2>5, <4>9
    <3>4. CASE c \notin Joined /\ c = "&"
      <4>1. esc = Entity
        BY <2>1, <3>4, EscapedType
      <4>2. Len(esc) = 3 /\ esc[2] = Entity[2] /\ esc[3] = Entity[3]
        <5> HIDE DEF esc
        <5> QED BY <4>1, EntityIs
      <4> HIDE DEF esc
      <4>4. j = 2
        <5>1. j = 2 \/ j = 3
          BY <3>1, <4>2
        <5> QED BY <3>2, <4>2, <2>4, <5>1
      <4>5. u[1] = Entity[2] /\ ~(Len(u) > 1)
        <5>1. u[1] = esc[2]
          BY <3>2, <4>4
        <5>2. j + 1 = 3 /\ 3 <= Len(esc)
          BY <4>2, <4>4, Small
        <5>3. Len(u) > 1 => u[2] = esc[3]
          BY <3>2, <5>2
        <5> QED BY <2>4, <4>2, <5>1, <5>3
      <4>6. Len(u) = 1
        BY <1>0, <4>5, Small
      <4>7. u = EntityName
        <5>1. Entity[2] \in Chars
          BY EntityIs
        <5>2. EntityName \in Seq(Chars) /\ Len(EntityName) = 1 /\ EntityName[1] = Entity[2]
          BY <5>1, ShortTexts DEF EntityName
        <5>3. \A k \in 1 .. Len(u) : u[k] = EntityName[k]
          BY <4>5, <4>6, <5>2, Small
        <5> QED BY <1>0, <4>6, <5>2, <5>3, SeqEqual
      <4> QED BY <4>7
    <3>5. CASE c \notin Joined /\ c # "&"
      <4>1. esc = <<c>>
        BY <2>1, <3>5, EscapedType
      <4> QED BY <3>1, <4>1
    <3> QED BY <3>3, <3>4, <3>5
  <2>8. j > Len(esc) \/ j <= Len(esc)
    <3> HIDE DEF esc
    <3> QED BY <2>1
  <2> QED BY <2>6, <2>7, <2>8
<1>8. \A i \in Nat \ {0}, j \in Nat : ~StandsAt(u, f[i], j)
  BY <1>0, <1>2, <1>7, Absent
<1> QED BY <1>1, <1>8 DEF Hit

(* Whether a space stands for the whitespace that begins at i.             *)
Stands(t, i) == i > 1 /\ ~IsSpace(t[i - 1]) /\ \E j \in i .. Len(t) : ~IsSpace(t[j])

IsCollapsing(f, t) ==
  /\ \A i \in Nat : i \notin 1 .. Len(t) => f[i] = <<>>
  /\ \A i \in 1 .. Len(t) : ~IsSpace(t[i]) => f[i] = <<t[i]>> \o f[i + 1]
  /\ \A i \in 1 .. Len(t) : IsSpace(t[i]) /\ Stands(t, i) => f[i] = <<Space>> \o f[i + 1]
  /\ \A i \in 1 .. Len(t) : IsSpace(t[i]) /\ ~Stands(t, i) => f[i] = f[i + 1]

LEMMA CollapsedIs ==
  ASSUME NEW t \in Seq(Chars)
  PROVE  \E f \in [Nat -> Seq(Chars)] : Collapsed(t) = f[1] /\ IsCollapsing(f, t)
<1> DEFINE n == Len(t)
           piece == [i \in DOMAIN t |-> IF ~IsSpace(t[i]) THEN <<t[i]>>
                                        ELSE IF i > 1 /\ ~IsSpace(t[i - 1])
                                                /\ \E j \in i .. Len(t) : ~IsSpace(t[j])
                                        THEN <<Space>>
                                        ELSE <<>>]
<1>1. n \in Nat /\ DOMAIN t = 1 .. n /\ \A i \in 1 .. n : t[i] \in Chars
  BY ElementOfSeq
<1>2. DOMAIN piece = 1 .. n
  BY <1>1
<1>3. \A i \in 1 .. n :
        /\ ~IsSpace(t[i]) => piece[i] = <<t[i]>>
        /\ IsSpace(t[i]) /\ Stands(t, i) => piece[i] = <<Space>>
        /\ IsSpace(t[i]) /\ ~Stands(t, i) => piece[i] = <<>>
  BY <1>1 DEF Stands
<1>4. Collapsed(t) = Mapped(piece)
  BY DEF Collapsed
<1>5. piece = [i \in 1 .. n |-> piece[i]]
  BY <1>1
<1> HIDE DEF piece
<1>6. \A i \in 1 .. n : piece[i] \in Seq(Chars)
  <2> TAKE i \in 1 .. n
  <2>1. Space \in Chars
    BY PublicTextAssumption
  <2>2. <<Space>> \in Seq(Chars) /\ <<t[i]>> \in Seq(Chars) /\ <<>> \in Seq(Chars)
    BY <1>1, <2>1, ShortTexts, EmptySeq
  <2> QED BY <1>3, <2>2
<1>7. piece \in [1 .. n -> Seq(Chars)]
  BY <1>5, <1>6
<1>8. PICK f \in [Nat -> Seq(Chars)] : Mapped(piece) = f[1] /\ IsMapping(f, piece)
  BY <1>1, <1>7, MappedIs
<1>9. /\ \A i \in Nat : i \notin 1 .. n => f[i] = <<>>
      /\ \A i \in 1 .. n : f[i] = piece[i] \o f[i + 1]
  BY <1>2, <1>8 DEF IsMapping
<1>10. IsCollapsing(f, t)
  <2>1. ASSUME NEW i \in 1 .. n, IsSpace(t[i]), ~Stands(t, i)
        PROVE  f[i] = f[i + 1]
    <3>1. i + 1 \in Nat
      BY <1>1
    <3>2. f[i + 1] \in Seq(Chars)
      BY <3>1
    <3>3. f[i] = <<>> \o f[i + 1]
      BY <1>3, <1>9, <2>1
    <3> QED BY <3>2, <3>3, ConcatEmptySeq
  <2>2. \A i \in 1 .. n : ~IsSpace(t[i]) => f[i] = <<t[i]>> \o f[i + 1]
    BY <1>3, <1>9
  <2>3. \A i \in 1 .. n : IsSpace(t[i]) /\ Stands(t, i) => f[i] = <<Space>> \o f[i + 1]
    BY <1>3, <1>9
  <2> QED BY <1>9, <2>1, <2>2, <2>3 DEF IsCollapsing
<1> QED BY <1>4, <1>8, <1>10

(* Nothing is left of the whitespace at the end.                           *)
LEMMA BlankEnd ==
  ASSUME NEW t \in Seq(Chars), NEW f, IsCollapsing(f, t), NEW i \in Nat \ {0},
         \A j \in i .. Len(t) : IsSpace(t[j])
  PROVE  f[i] = <<>>
<1> DEFINE n == Len(t)
           G == {k \in Nat \ {0} : (\A j \in k .. n : IsSpace(t[j])) => f[k] = <<>>}
<1>1. n \in Nat
  OBVIOUS
<1>2. ASSUME NEW k \in Nat, k > n PROVE k \in G
  <2>1. k \in Nat \ {0} /\ k \notin 1 .. n
    BY <1>1, <1>2, After
  <2> QED BY <2>1 DEF IsCollapsing
<1>3. ASSUME NEW k \in 1 .. n, \A j \in Nat : j > k => j \in G PROVE k \in G
  <2>1. k \in Nat \ {0} /\ k + 1 \in Nat /\ k + 1 > k
    BY <1>1
  <2>2. k + 1 \in G
    BY <1>3, <2>1
  <2> SUFFICES ASSUME \A j \in k .. n : IsSpace(t[j]) PROVE f[k] = <<>>
    BY <2>1
  <2>3. k \in k .. n /\ \A j \in k + 1 .. n : j \in k .. n
    BY <1>1, <2>1
  <2>4. f[k + 1] = <<>>
    BY <2>2, <2>3
  <2>5. ~Stands(t, k) /\ IsSpace(t[k])
    BY <2>3 DEF Stands
  <2> QED BY <2>4, <2>5 DEF IsCollapsing
<1>4. \A k \in Nat \ {0} : k \in G
  <2> HIDE DEF G, n
  <2> QED BY <1>1, <1>2, <1>3, Downward
<1>5. i \in G
  BY <1>4
<1> QED BY <1>5

LEMMA Following ==
  ASSUME NEW i \in Nat \ {0}
  PROVE  i + 1 \in Nat \ {0} /\ i + 1 > i /\ (i + 1) - 1 = i /\ i + 1 > 1
OBVIOUS

LEMMA CollapsedShows ==
  ASSUME NEW t \in Seq(Chars), NEW u \in Plain, Hit(u, Collapsed(t))
  PROVE  Hit(u, t)
<1> DEFINE n == Len(t)
           Ok == {i \in Nat \ {0} : i \in 1 .. n /\ IsSpace(t[i]) =>
                                      i > 1 /\ ~IsSpace(t[i - 1])}
<1>0. n \in Nat /\ u \in Seq(Chars) /\ u # <<>> /\ Len(u) \in Nat \ {0}
  <2>1. n \in Nat
    OBVIOUS
  <2>2. u \in Seq(Chars) /\ u # <<>> /\ Len(u) \in Nat \ {0}
    BY PlainString
  <2> QED BY <2>1, <2>2
<1>1. PICK f \in [Nat -> Seq(Chars)] : Collapsed(t) = f[1] /\ IsCollapsing(f, t)
  BY CollapsedIs
<1>2. \A i \in Nat : i > n => f[i] = <<>>
  BY <1>0, <1>1, After DEF IsCollapsing
<1>3. ASSUME NEW i \in 1 .. n
      PROVE  /\ i \in Nat \ {0} /\ i + 1 \in Nat \ {0} /\ i + 1 > i /\ (i + 1) - 1 = i
             /\ t[i] \in Chars /\ f[i + 1] \in Seq(Chars)
  <2>1. i \in Nat \ {0} /\ i + 1 \in Nat \ {0} /\ i + 1 > i /\ (i + 1) - 1 = i /\ i + 1 > 1
    <3>1. i \in Nat \ {0}
      BY <1>0
    <3> QED BY <3>1, Following
  <2>2. t[i] \in Chars
    BY ElementOfSeq
  <2> QED BY <2>1, <2>2
<1>4. Space \in Chars /\ IsSpace(Space)
  <2>1. Space \in Chars
    BY PublicTextAssumption
  <2> QED BY <2>1 DEF IsSpace
(* A space never begins what a plain string begins.                        *)
<1>5. ASSUME NEW v \in Plain, NEW rest \in Seq(Chars), StandsAt(v, <<Space>> \o rest, 1)
      PROVE  FALSE
  <2>1. v \in Seq(Chars) /\ v # <<>> /\ ~IsSpace(v[1])
    BY PlainString
  <2>2. v[1] = Space
    BY <1>4, <1>5, <2>1, StandsFirst
  <2> QED BY <1>4, <2>1, <2>2
<1>6. ASSUME NEW i \in Ok, NEW v \in Plain, StandsAt(v, f[i], 1)
      PROVE  i \in 1 .. n /\ f[i] = <<t[i]>> \o f[i + 1] /\ i + 1 \in Ok
  <2>1. Len(v) \in Nat \ {0}
    BY PlainString
  <2>2. f[i] # <<>>
    BY <1>6, <2>1, NoMatchInEmpty
  <2>3. i \in Nat \ {0}
    OBVIOUS
  <2>4. i \in 1 .. n
    BY <1>1, <2>2, <2>3 DEF IsCollapsing
  <2>5. ~IsSpace(t[i])
    <3> SUFFICES ASSUME IsSpace(t[i]) PROVE FALSE
      OBVIOUS
    <3>1. i > 1 /\ ~IsSpace(t[i - 1])
      BY <2>4
    <3>2. \E j \in i .. n : ~IsSpace(t[j])
      <4> SUFFICES ASSUME \A j \in i .. n : IsSpace(t[j]) PROVE FALSE
        OBVIOUS
      <4>1. f[i] = <<>>
        BY <1>1, <2>3, BlankEnd
      <4> QED BY <2>2, <4>1
    <3>3. Stands(t, i)
      BY <3>1, <3>2 DEF Stands
    <3>4. f[i] = <<Space>> \o f[i + 1]
      BY <1>1, <2>4, <3>3 DEF IsCollapsing
    <3>5. f[i + 1] \in Seq(Chars)
      BY <1>3, <2>4
    <3> QED BY <1>5, <1>6, <3>4, <3>5
  <2>6. f[i] = <<t[i]>> \o f[i + 1]
    BY <1>1, <2>4, <2>5 DEF IsCollapsing
  <2>7. i + 1 \in Ok
    <3>1. i + 1 \in Nat \ {0} /\ (i + 1) - 1 = i /\ i + 1 > 1
      BY <2>3
    <3>2. ~IsSpace(t[(i + 1) - 1])
      BY <2>5, <3>1
    <3> QED BY <3>1, <3>2
  <2> QED BY <2>4, <2>6, <2>7
<1>7. \A i \in Ok, v \in Plain : StandsAt(v, f[i], 1) => StandsAt(v, t, i)
  <2> HIDE DEF Ok
  <2>1. Reads(f, Plain, Ok, t)
    BY <1>6 DEF Reads
  <2> QED BY <2>1, PlainType, Legible
<1> SUFFICES ASSUME ~Hit(u, t) PROVE FALSE
  OBVIOUS
<1>8. \A i \in Nat : ~StandsAt(u, t, i)
  BY DEF Hit
<1>9. ASSUME NEW i \in 1 .. n, NEW j \in Nat, StandsAt(u, f[i], j)
      PROVE  \E later, k \in Nat : later > i /\ StandsAt(u, f[later], k)
  <2> DEFINE rest == f[i + 1]
  <2>1. /\ i \in Nat \ {0} /\ i + 1 \in Nat /\ i + 1 > i /\ t[i] \in Chars
        /\ rest \in Seq(Chars)
    BY <1>3
  <2>2. j \in Nat \ {0}
    BY <1>9 DEF StandsAt
  <2>3. ASSUME NEW c \in Chars, f[i] = <<c>> \o rest, j # 1
        PROVE  \E k \in Nat : StandsAt(u, rest, k)
    <3> DEFINE front == <<c>>
    <3>1. front \in Seq(Chars) /\ Len(front) = 1
      OBVIOUS
    <3>2. f[i] = front \o rest
      BY <2>3
    <3> HIDE DEF front, rest
    <3>3. j > Len(front) /\ j - Len(front) \in Nat
      BY <2>2, <2>3, <3>1
    <3>4. StandsAt(u, front \o rest, j)
      BY <1>9, <3>2
    <3>5. StandsAt(u, rest, j - Len(front))
      BY <1>0, <2>1, <2>2, <3>1, <3>3, <3>4, StandsBehind
    <3> QED BY <3>3, <3>5
  <2>4. CASE ~IsSpace(t[i])
    <3>1. f[i] = <<t[i]>> \o rest
      BY <1>1, <2>4 DEF IsCollapsing
    <3>2. i \in Ok
      BY <2>1, <2>4
    <3>3. j # 1
      <4> HIDE DEF Ok
      <4> QED BY <1>7, <1>8, <1>9, <2>1, <3>2
    <3>4. \E k \in Nat : StandsAt(u, rest, k)
      BY <2>1, <2>3, <3>1, <3>3
    <3> QED BY <2>1, <3>4
  <2>5. CASE IsSpace(t[i]) /\ Stands(t, i)
    <3>1. f[i] = <<Space>> \o rest
      BY <1>1, <2>5 DEF IsCollapsing
    <3>2. j # 1
      BY <1>5, <1>9, <2>1, <3>1
    <3>3. \E k \in Nat : StandsAt(u, rest, k)
      BY <1>4, <2>3, <3>1, <3>2
    <3> QED BY <2>1, <3>3
  <2>6. CASE IsSpace(t[i]) /\ ~Stands(t, i)
    <3>1. f[i] = rest
      BY <1>1, <2>6 DEF IsCollapsing
    <3> QED BY <1>9, <2>1, <3>1
  <2> QED BY <2>4, <2>5, <2>6
<1>10. \A i \in Nat \ {0}, j \in Nat : ~StandsAt(u, f[i], j)
  BY <1>0, <1>2, <1>9, Absent
<1> QED BY <1>1, <1>10 DEF Hit

LEMMA CollapsedType == ASSUME NEW t \in Seq(Chars) PROVE Collapsed(t) \in Seq(Chars)
<1>1. PICK f \in [Nat -> Seq(Chars)] : Collapsed(t) = f[1]
  BY CollapsedIs
<1> QED BY <1>1

-----------------------------------------------------------------------------
(* Where the characters of a redacted text come from, and what is left of  *)
(* the text without the masks.                                             *)

(* Where u stands in a text, no v begins in it that ends behind it.        *)
ClearOf(u, v, t) ==
  \A i, j \in Nat :
    StandsAt(u, t, i) /\ StandsAt(v, t, j) /\ i < j /\ j < i + Len(u)
      => j + Len(v) <= i + Len(u)

LEMMA Nested ==
  ASSUME NEW u \in Strings, NEW v \in Strings, NEW t, ClearOf(u, v, t), ClearOf(v, u, t),
         Len(u) >= Len(v), NEW i \in Nat, NEW j \in Nat,
         StandsAt(u, t, i), StandsAt(v, t, j), i < j + Len(v), j < i + Len(u)
  PROVE  i <= j /\ j + Len(v) <= i + Len(u)
<1>1. Len(u) \in Nat \ {0} /\ Len(v) \in Nat \ {0}
  BY StringType
<1>2. ~(j < i)
  <2> SUFFICES ASSUME j < i PROVE FALSE
    OBVIOUS
  <2>1. i + Len(u) <= j + Len(v)
    BY DEF ClearOf
  <2> QED BY <1>1, <2>1
<1>3. CASE i < j
  BY <1>1, <1>3 DEF ClearOf
<1>4. CASE i = j
  BY <1>1, <1>4
<1> QED BY <1>2, <1>3, <1>4

-----------------------------------------------------------------------------
(* A scan goes up a text in stairs.                                        *)
Stairs(g, n) ==
  g \in [Nat -> Nat] /\ g[1] = 1 /\ \A k \in 1 .. n : g[k] < g[k + 1]

LEMMA StairsRise ==
  ASSUME NEW n \in Nat, NEW g, Stairs(g, n)
  PROVE  \A k, l \in 1 .. n + 1 : k < l => g[k] < g[l]
<1> SUFFICES ASSUME NEW k \in 1 .. n + 1 PROVE \A l \in 1 .. n + 1 : k < l => g[k] < g[l]
  OBVIOUS
<1> DEFINE Good == {d \in Nat : k + d + 1 <= n + 1 => g[k] < g[k + d + 1]}
<1>0. k \in Nat \ {0} /\ g \in [Nat -> Nat]
  BY DEF Stairs
<1>1. 0 \in Good
  <2> SUFFICES ASSUME k + 0 + 1 <= n + 1 PROVE g[k] < g[k + 0 + 1]
    OBVIOUS
  <2>1. k \in 1 .. n /\ k + 0 + 1 = k + 1
    BY <1>0
  <2> QED BY <2>1 DEF Stairs
<1>2. ASSUME NEW d \in Good PROVE d + 1 \in Good
  <2> SUFFICES ASSUME k + (d + 1) + 1 <= n + 1 PROVE g[k] < g[k + (d + 1) + 1]
    OBVIOUS
  <2> DEFINE m == k + d + 1
  <2>1. m \in 1 .. n /\ m + 1 = k + (d + 1) + 1 /\ m <= n + 1 /\ m \in Nat /\ m + 1 \in Nat
    BY <1>0
  <2>2. g[k] < g[m]
    BY <2>1
  <2> HIDE DEF m
  <2>3. g[m] < g[m + 1]
    BY <2>1 DEF Stairs
  <2>4. g[k] \in Nat /\ g[m] \in Nat /\ g[m + 1] \in Nat
    BY <1>0, <2>1
  <2> QED BY <2>1, <2>2, <2>3, <2>4
<1>3. Good = Nat
  BY <1>1, <1>2, Upward
<1> HIDE DEF Good
<1>4. ASSUME NEW l \in 1 .. n + 1, k < l PROVE g[k] < g[l]
  <2>1. l - k - 1 \in Good /\ k + (l - k - 1) + 1 = l
    BY <1>0, <1>3, <1>4
  <2> QED BY <2>1 DEF Good
<1> QED BY <1>4

LEMMA StairsReach ==
  ASSUME NEW n \in Nat, NEW g, Stairs(g, n), NEW q \in Nat \ {0}, q < g[n + 1]
  PROVE  \E k \in 1 .. n : g[k] <= q /\ q < g[k + 1]
<1> DEFINE Found == \E k \in 1 .. n : g[k] <= q /\ q < g[k + 1]
           Good == {m \in Nat : m <= n /\ q < g[m + 1] => Found}
<1>0. g \in [Nat -> Nat] /\ g[1] = 1
  BY DEF Stairs
<1>1. 0 \in Good
  <2>1. ~(q < g[0 + 1])
    BY <1>0
  <2> QED BY <2>1
<1>2. ASSUME NEW m \in Good PROVE m + 1 \in Good
  <2> SUFFICES ASSUME m + 1 <= n, q < g[(m + 1) + 1] PROVE Found
    OBVIOUS
  <2>1. m + 1 \in 1 .. n /\ m <= n /\ g[m + 1] \in Nat
    BY <1>0
  <2>2. CASE g[m + 1] <= q
    BY <2>1, <2>2
  <2>3. CASE q < g[m + 1]
    BY <2>1, <2>3
  <2> QED BY <2>1, <2>2, <2>3
<1>3. Good = Nat
  <2> HIDE DEF Found
  <2> QED BY <1>1, <1>2, Upward
<1>4. n \in Good
  <2> HIDE DEF Good
  <2> QED BY <1>3
<1>5. n <= n
  OBVIOUS
<1> QED BY <1>4, <1>5

-----------------------------------------------------------------------------
(* Masking one secret, as stairs: each character comes from one character, *)
(* or is the mask of an occurrence.                                        *)
Stepping(g, u, t, s, k) ==
  \/ StandsAt(s, t, g[k]) /\ u[k] = Mask /\ g[k + 1] = g[k] + Len(s)
  \/ ~StandsAt(s, t, g[k]) /\ g[k] \in 1 .. Len(t) /\ u[k] = t[g[k]] /\ g[k + 1] = g[k] + 1

LEMMA Inside ==
  ASSUME NEW n \in Nat, NEW k \in 1 .. n
  PROVE  /\ k \in Nat /\ k # 0 /\ k \in Nat \ {0} /\ k <= n /\ k <= n + 1 /\ k \in 1 .. n + 1
         /\ k + 1 \in Nat /\ k + 1 \in Nat \ {0} /\ k + 1 \in 1 .. n + 1 /\ k + 1 > k
         /\ k + 1 <= n + 1
OBVIOUS

LEMMA Above ==
  ASSUME NEW n \in Nat, NEW k \in 1 .. n + 1, k # 1
  PROVE  k - 1 \in 1 .. n /\ k = (k - 1) + 1
OBVIOUS

LEMMA Successor ==
  ASSUME NEW k \in Nat \ {0}
  PROVE  k + 1 \in Nat /\ ~(k + 1 <= 1) /\ (k + 1) - 1 = k
OBVIOUS

LEMMA Sums ==
  ASSUME NEW i \in Nat, NEW w \in Nat \ {0}
  PROVE  i + w \in Nat /\ i + w > i /\ i + 1 \in Nat /\ i + 1 > i
OBVIOUS

Path(g, u, t, s, first, last) ==
  /\ g \in [Nat -> Nat] /\ g[1] = first /\ g[Len(u) + 1] = last
  /\ \A k \in 1 .. Len(u) : Stepping(g, u, t, s, k)

IsStep(s, t, c, i, j) ==
  \/ StandsAt(s, t, i) /\ c = Mask /\ j = i + Len(s)
  \/ ~StandsAt(s, t, i) /\ i \in 1 .. Len(t) /\ c = t[i] /\ j = i + 1

LEMMA StepBefore ==
  ASSUME NEW i \in Nat, NEW j, NEW last, NEW c \in Chars, NEW u \in Seq(Chars), NEW t,
         NEW s, NEW h, Path(h, u, t, s, j, last), IsStep(s, t, c, i, j)
  PROVE  \E g : Path(g, <<c>> \o u, t, s, i, last)
<1>0. /\ h \in [Nat -> Nat] /\ h[1] = j /\ h[Len(u) + 1] = last
      /\ \A k \in 1 .. Len(u) : Stepping(h, u, t, s, k)
  BY DEF Path
<1> DEFINE g == [k \in Nat |-> IF k <= 1 THEN i ELSE h[k - 1]]
           w == <<c>> \o u
<1>1. /\ Len(u) \in Nat /\ Len(w) = Len(u) + 1 /\ w[1] = c
      /\ \A k \in 1 .. Len(u) : w[k + 1] = u[k]
  <2>1. <<c>> \in Seq(Chars) /\ Len(<<c>>) = 1 /\ <<c>>[1] = c /\ Len(u) \in Nat
    OBVIOUS
  <2>2. /\ Len(w) = 1 + Len(u)
        /\ \A k \in 1 .. 1 + Len(u) : w[k] = IF k <= 1 THEN <<c>>[k] ELSE u[k - 1]
    BY <2>1, ConcatProperties
  <2>3. \A k \in 1 .. Len(u) : k + 1 \in 1 .. 1 + Len(u) /\ ~(k + 1 <= 1) /\ (k + 1) - 1 = k
    BY <2>1
  <2>4. 1 \in 1 .. 1 + Len(u) /\ 1 <= 1
    BY <2>1
  <2> HIDE DEF w
  <2>5. w[1] = c
    BY <2>1, <2>2, <2>4
  <2>6. \A k \in 1 .. Len(u) : w[k + 1] = u[k]
    BY <2>2, <2>3
  <2> QED BY <2>1, <2>2, <2>5, <2>6
<1>2. g \in [Nat -> Nat] /\ g[1] = i /\ \A k \in Nat \ {0} : g[k + 1] = h[k]
  <2>1. \A k \in Nat : k <= 1 \/ k - 1 \in Nat
    OBVIOUS
  <2>2. g \in [Nat -> Nat] /\ g[1] = i
    <3> HIDE DEF w
    <3>1. h \in [Nat -> Nat]
      BY <1>0
    <3>2. \A k \in Nat : (IF k <= 1 THEN i ELSE h[k - 1]) \in Nat
      BY <2>1, <3>1
    <3> QED BY <3>2
  <2>3. ASSUME NEW k \in Nat \ {0} PROVE g[k + 1] = h[k]
    <3> HIDE DEF w
    <3>1. k + 1 \in Nat /\ ~(k + 1 <= 1) /\ (k + 1) - 1 = k
      BY Successor
    <3>2. g[k + 1] = h[(k + 1) - 1]
      BY <3>1
    <3> QED BY <3>1, <3>2
  <2> HIDE DEF g
  <2> QED BY <2>2, <2>3
<1> HIDE DEF g, w
<1>3. g[Len(w) + 1] = last
  <2>1. Len(u) + 1 \in Nat \ {0}
    BY <1>1
  <2> QED BY <1>0, <1>1, <1>2, <2>1
<1>4. ASSUME NEW k \in 1 .. Len(w) PROVE Stepping(g, w, t, s, k)
  <2>1. CASE k = 1
    <3>1. g[k + 1] = j
      BY <1>0, <1>2, <2>1
    <3> QED BY <1>1, <1>2, <2>1, <3>1 DEF Stepping, IsStep
  <2>2. CASE k # 1
    <3>1. PICK m \in 1 .. Len(u) : k = m + 1
      <4>1. k - 1 \in 1 .. Len(u) /\ k = (k - 1) + 1
        BY <1>1, <2>2, Above
      <4> QED BY <4>1
    <3>2. m \in Nat \ {0} /\ m + 1 \in Nat \ {0}
      BY <1>1, Inside
    <3>3. g[k] = h[m] /\ g[k + 1] = h[m + 1] /\ w[k] = u[m]
      BY <1>1, <1>2, <3>1, <3>2
    <3>4. Stepping(h, u, t, s, m)
      BY <1>0
    <3> QED BY <3>3, <3>4 DEF Stepping
  <2> QED BY <2>1, <2>2
<1>5. Path(g, w, t, s, i, last)
  BY <1>2, <1>3, <1>4 DEF Path
<1> QED BY <1>5 DEF w

LEMMA ReplacedStairs ==
  ASSUME NEW t \in Seq(Chars), NEW s \in Strings, NEW u, u = Replaced(t, s)
  PROVE  \E g : /\ Stairs(g, Len(u)) /\ g[Len(u) + 1] = Len(t) + 1
                /\ \A k \in 1 .. Len(u) : Stepping(g, u, t, s, k)
<1>0. /\ s \in Seq(Chars) /\ s # <<>> /\ Len(s) \in Nat \ {0} /\ Mask \in Chars
      /\ Len(t) \in Nat
  <2>1. s \in Seq(Chars) /\ s # <<>> /\ Len(s) \in Nat \ {0}
    BY StringType
  <2>2. Mask \in Chars
    BY PublicTextAssumption
  <2> QED BY <2>1, <2>2
<1>1. PICK f \in [Nat -> Seq(Chars)] : Replaced(t, s) = f[1] /\ IsReplacing(f, t, s)
  BY <1>0, ReplacedIs
<1> DEFINE n == Len(t)
           Way(i) == \E g : Path(g, f[i], t, s, i, n + 1)
           G == {i \in Nat : i <= n + 1 => Way(i)}
<1> HIDE DEF Way
<1>2. ASSUME NEW i \in Nat, i > n PROVE i \in G
  <2> SUFFICES ASSUME i = n + 1 PROVE Way(i)
    BY <1>0, <1>2
  <2> DEFINE g == [k \in Nat |-> n + 1]
  <2>1. i \notin 1 .. n
    BY <1>0, <1>2
  <2>2. f[i] = <<>> /\ Len(f[i]) = 0
    BY <1>1, <2>1 DEF IsReplacing
  <2>3. g \in [Nat -> Nat] /\ g[1] = i /\ g[Len(f[i]) + 1] = n + 1
    BY <1>0, <2>2
  <2>4. \A k \in 1 .. Len(f[i]) : Stepping(g, f[i], t, s, k)
    BY <2>2
  <2> QED BY <2>3, <2>4 DEF Way, Path
<1>3. ASSUME NEW i \in 1 .. n, \A j \in Nat : j > i => j \in G PROVE i \in G
  <2>0. i \in Nat \ {0} /\ i <= n /\ i + 1 <= n + 1 /\ (OccursAt(s, t, i) <=> StandsAt(s, t, i))
    <3>1. OccursAt(s, t, i) <=> StandsAt(s, t, i)
      BY <1>0, OccursStands
    <3> QED BY <1>0, <3>1, Inside
  <2>1. PICK c \in Chars, j \in Nat :
          /\ j > i /\ j <= n + 1 /\ f[i] = <<c>> \o f[j]
          /\ IsStep(s, t, c, i, j)
    <3>1. CASE StandsAt(s, t, i)
      <4>1. i + Len(s) \in Nat /\ i + Len(s) > i /\ i + Len(s) <= n + 1
        <5>1. i + Len(s) \in Nat /\ i + Len(s) > i
          BY <1>0, <2>0, Sums
        <5>2. i + Len(s) - 1 <= n
          BY <3>1 DEF StandsAt
        <5>3. i + Len(s) <= n + 1
          BY <1>0, <5>1, <5>2
        <5> QED BY <5>1, <5>3
      <4>2. f[i] = <<Mask>> \o f[i + Len(s)]
        BY <1>1, <2>0, <3>1 DEF IsReplacing
      <4> QED BY <1>0, <3>1, <4>1, <4>2 DEF IsStep
    <3>2. CASE ~StandsAt(s, t, i)
      <4>1. t[i] \in Chars
        BY ElementOfSeq
      <4>2. f[i] = <<t[i]>> \o f[i + 1]
        BY <1>1, <2>0, <3>2 DEF IsReplacing
      <4>3. i + 1 \in Nat /\ i + 1 > i /\ i + 1 <= n + 1
        BY <1>0, <2>0, Sums
      <4> QED BY <3>2, <4>1, <4>2, <4>3 DEF IsStep
    <3> QED BY <3>1, <3>2
  <2>2. Way(j)
    BY <1>3, <2>1
  <2>3. PICK h : Path(h, f[j], t, s, j, n + 1)
    BY <2>2 DEF Way
  <2>4. f[j] \in Seq(Chars) /\ i \in Nat
    BY <2>0
  <2>5. \E g : Path(g, <<c>> \o f[j], t, s, i, n + 1)
    BY <2>1, <2>3, <2>4, StepBefore
  <2>6. Way(i)
    BY <2>1, <2>5 DEF Way
  <2> QED BY <2>0, <2>6
<1>4. \A i \in Nat \ {0} : i \in G
  <2> HIDE DEF G
  <2> QED BY <1>0, <1>2, <1>3, Downward
<1>5. Way(1)
  <2>0. 1 \in Nat \ {0} /\ 1 <= n + 1
    BY <1>0
  <2>1. 1 \in G
    <3> HIDE DEF G
    <3> QED BY <1>4, <2>0
  <2> QED BY <2>0, <2>1
<1>6. PICK g : Path(g, u, t, s, 1, n + 1)
  BY <1>1, <1>5 DEF Way
<1>7. ASSUME NEW k \in 1 .. Len(u) PROVE g[k] < g[k + 1]
  <2>1. Len(u) \in Nat
    <3>1. u \in Seq(Chars)
      BY <1>1
    <3> QED BY <3>1, LenProperties
  <2>2. k \in Nat /\ g[k] \in Nat
    BY <1>6, <2>1, Inside DEF Path
  <2>3. g[k + 1] = g[k] + Len(s) \/ g[k + 1] = g[k] + 1
    BY <1>6 DEF Stepping, Path
  <2> QED BY <1>0, <2>2, <2>3, Sums
<1>8. Stairs(g, Len(u))
  BY <1>6, <1>7 DEF Stairs, Path
<1> QED BY <1>6, <1>8 DEF Path

-----------------------------------------------------------------------------
(* What a text u shows of t when the positions P are masked: character k   *)
(* of u begins at g[k] of t.                                               *)
Shown(g, u, t, P, k) ==
  /\ u[k] # Mask /\ g[k + 1] = g[k] + 1
  /\ g[k] \in 1 .. Len(t) /\ g[k] \notin P /\ u[k] = t[g[k]]

Hidden(g, u, P, k) == u[k] = Mask /\ \A q \in g[k] .. g[k + 1] - 1 : q \in P

Hides(g, u, t, P) ==
  /\ Stairs(g, Len(u)) /\ g[Len(u) + 1] = Len(t) + 1
  /\ \A k \in 1 .. Len(u) : Shown(g, u, t, P, k) \/ Hidden(g, u, P, k)

(* What occurs after masking occurred before it, unmasked...               *)
LEMMA ShownBefore ==
  ASSUME NEW t \in Seq(Chars), NEW u \in Seq(Chars), NEW P, NEW g, Hides(g, u, t, P),
         NEW s \in Strings, NEW p \in Nat, StandsAt(s, u, p)
  PROVE  StandsAt(s, t, g[p]) /\ g[p + Len(s)] = g[p] + Len(s)
<1>1. /\ Len(s) \in Nat \ {0} /\ \A m \in 1 .. Len(s) : s[m] # Mask
  BY StringType
<1>2. /\ p \in Nat \ {0} /\ p + Len(s) - 1 <= Len(u)
      /\ \A m \in 1 .. Len(s) : u[p + m - 1] = s[m]
  BY DEF StandsAt
<1>3. Len(u) \in Nat /\ Len(t) \in Nat
  OBVIOUS
<1>4. /\ g \in [Nat -> Nat] /\ g[Len(u) + 1] = Len(t) + 1
      /\ \A k \in 1 .. Len(u) : Shown(g, u, t, P, k) \/ Hidden(g, u, P, k)
  BY DEF Hides, Stairs
<1>5. ASSUME NEW m \in 1 .. Len(s)
      PROVE  /\ g[p + m] = g[p + m - 1] + 1 /\ t[g[p + m - 1]] = s[m]
             /\ g[p + m - 1] \in 1 .. Len(t) /\ p + m - 1 \in 1 .. Len(u)
  <2> DEFINE k == p + m - 1
  <2>1. k \in 1 .. Len(u) /\ k + 1 = p + m
    BY <1>1, <1>2, <1>3
  <2>2. u[k] = s[m] /\ s[m] # Mask
    BY <1>1, <1>2
  <2> HIDE DEF k
  <2>3. Shown(g, u, t, P, k)
    BY <1>4, <2>1, <2>2 DEF Hidden
  <2>4. g[k + 1] = g[k] + 1 /\ t[g[k]] = s[m] /\ g[k] \in 1 .. Len(t)
    BY <2>2, <2>3 DEF Shown
  <2>5. p + m - 1 \in 1 .. Len(u)
    BY <2>1 DEF k
  <2> QED BY <2>1, <2>4, <2>5 DEF k
<1> DEFINE Good == {m \in Nat : m <= Len(s) => g[p + m] = g[p] + m}
<1>6. 0 \in Good
  <2>1. g[p] \in Nat /\ p + 0 = p /\ g[p] + 0 = g[p]
    BY <1>4
  <2> QED BY <2>1
<1>7. ASSUME NEW m \in Good PROVE m + 1 \in Good
  <2> SUFFICES ASSUME m + 1 <= Len(s) PROVE g[p + (m + 1)] = g[p] + (m + 1)
    OBVIOUS
  <2>1. m + 1 \in 1 .. Len(s) /\ p + (m + 1) - 1 = p + m /\ m <= Len(s)
    BY <1>1
  <2>2. g[p + (m + 1)] = g[p + m] + 1
    BY <1>5, <2>1
  <2>3. g[p + m] = g[p] + m
    BY <2>1
  <2>4. g[p] \in Nat
    BY <1>4
  <2> QED BY <2>2, <2>3, <2>4
<1>8. Good = Nat
  BY <1>6, <1>7, Upward
<1> HIDE DEF Good
<1>9. \A m \in Nat : m <= Len(s) => g[p + m] = g[p] + m
  BY <1>8 DEF Good
<1>10. g[p + Len(s)] = g[p] + Len(s)
  BY <1>1, <1>9
<1>11. ASSUME NEW m \in 1 .. Len(s)
       PROVE  g[p] + m - 1 = g[p + m - 1]
  <2>1. m - 1 \in Nat /\ m - 1 <= Len(s) /\ p + (m - 1) = p + m - 1
    BY <1>1
  <2>2. g[p + m - 1] = g[p] + (m - 1)
    BY <1>9, <2>1
  <2>3. g[p] \in Nat /\ m \in Nat
    BY <1>1, <1>4
  <2> QED BY <2>2, <2>3
<1>12. \A m \in 1 .. Len(s) : t[g[p] + m - 1] = s[m] /\ g[p] + m - 1 \in 1 .. Len(t)
  BY <1>5, <1>11
<1>13. g[p] \in Nat \ {0} /\ g[p] + Len(s) - 1 <= Len(t)
  <2>1. 1 \in 1 .. Len(s) /\ Len(s) \in 1 .. Len(s) /\ g[p] \in Nat
    BY <1>1, <1>4
  <2>2. g[p] + 1 - 1 \in 1 .. Len(t) /\ g[p] + Len(s) - 1 \in 1 .. Len(t)
    BY <1>12, <2>1
  <2> QED BY <2>1, <2>2
<1> QED BY <1>10, <1>12, <1>13 DEF StandsAt

(* ... and what occurred before it, and no part of which is masked, occurs *)
(* after it.                                                               *)
LEMMA ShownAfter ==
  ASSUME NEW t \in Seq(Chars), NEW u \in Seq(Chars), NEW P, NEW g, Hides(g, u, t, P),
         NEW s \in Strings, NEW i \in Nat, StandsAt(s, t, i),
         \A m \in 1 .. Len(s) : i + m - 1 \notin P
  PROVE  \E p \in Nat : StandsAt(s, u, p) /\ g[p] = i
<1>1. Len(s) \in Nat \ {0}
  BY StringType
<1>2. /\ i \in Nat \ {0} /\ i + Len(s) - 1 <= Len(t)
      /\ \A m \in 1 .. Len(s) : t[i + m - 1] = s[m]
  BY DEF StandsAt
<1>3. Len(u) \in Nat /\ Len(t) \in Nat
  OBVIOUS
<1>4. /\ Stairs(g, Len(u)) /\ g \in [Nat -> Nat] /\ g[Len(u) + 1] = Len(t) + 1
      /\ \A k \in 1 .. Len(u) : Shown(g, u, t, P, k) \/ Hidden(g, u, P, k)
  BY DEF Hides, Stairs
<1>5. PICK p \in 1 .. Len(u) : g[p] <= i /\ i < g[p + 1]
  <2>1. i < g[Len(u) + 1]
    BY <1>1, <1>2, <1>3, <1>4
  <2> QED BY <1>2, <1>3, <1>4, <2>1, StairsReach
<1>6. p \in Nat \ {0} /\ p <= Len(u) /\ g[p] \in Nat /\ g[p + 1] \in Nat
  <2>1. p \in Nat \ {0} /\ p + 1 \in Nat /\ p <= Len(u)
    BY <1>3, Inside
  <2> QED BY <1>4, <2>1
<1>7. ASSUME NEW k \in 1 .. Len(u), NEW m \in 1 .. Len(s), g[k] <= i + m - 1,
             i + m - 1 < g[k + 1]
      PROVE  Shown(g, u, t, P, k)
  <2> SUFFICES ASSUME Hidden(g, u, P, k) PROVE FALSE
    BY <1>4
  <2>1. k \in Nat /\ k + 1 \in Nat
    BY <1>3, Inside
  <2>2. g[k] \in Nat /\ g[k + 1] \in Nat
    BY <1>4, <2>1
  <2>3. i + m - 1 \in g[k] .. g[k + 1] - 1
    BY <1>1, <1>2, <1>7, <2>2
  <2> QED BY <2>3 DEF Hidden
<1>8. g[p] = i
  <2>1. 1 \in 1 .. Len(s) /\ i + 1 - 1 = i
    BY <1>1
  <2>2. Shown(g, u, t, P, p)
    BY <1>5, <1>7, <2>1
  <2>3. g[p + 1] = g[p] + 1
    BY <2>2 DEF Shown
  <2> QED BY <1>5, <1>6, <2>3
<1> DEFINE At(m) == /\ g[p + m] = i + m /\ p + m <= Len(u) + 1
                    /\ \A l \in 1 .. m : u[p + l - 1] = s[l]
           Good == {m \in Nat : m <= Len(s) => At(m)}
<1>9. 0 \in Good
  <2>1. g[p + 0] = i + 0 /\ p + 0 <= Len(u) + 1
    BY <1>3, <1>6, <1>8
  <2>2. \A l \in 1 .. 0 : u[p + l - 1] = s[l]
    OBVIOUS
  <2> QED BY <2>1, <2>2
<1>10. ASSUME NEW m \in Good PROVE m + 1 \in Good
  <2> SUFFICES ASSUME m + 1 <= Len(s) PROVE At(m + 1)
    OBVIOUS
  <2>1. m \in Nat /\ m <= Len(s) /\ m + 1 \in 1 .. Len(s) /\ i + (m + 1) - 1 = i + m
    BY <1>1
  <2>2. At(m)
    BY <2>1
  <2> DEFINE k == p + m
  <2>3. k \in Nat /\ k # 0 /\ k <= Len(u) + 1 /\ g[k] = i + m
    BY <1>6, <2>1, <2>2
  <2>4. i + m <= Len(t)
    BY <1>1, <1>2, <1>3, <2>1
  <2>5. k # Len(u) + 1
    BY <1>2, <1>3, <1>4, <2>1, <2>3, <2>4
  <2>6. k \in 1 .. Len(u)
    <3> HIDE DEF k
    <3> QED BY ONLY <1>3, <2>3, <2>5
  <2> HIDE DEF k
  <2>7. g[k] < g[k + 1] /\ g[k + 1] \in Nat
    <3>1. g[k] < g[k + 1]
      BY <1>4, <2>6 DEF Stairs
    <3>2. k + 1 \in Nat
      BY <2>3
    <3> QED BY <1>4, <3>1, <3>2
  <2>8. Shown(g, u, t, P, k)
    <3>1. g[k] <= i + (m + 1) - 1 /\ i + (m + 1) - 1 < g[k + 1]
      BY <1>2, <2>1, <2>3, <2>7
    <3> QED BY <1>7, <2>1, <2>6, <3>1
  <2>9. g[k + 1] = i + m + 1 /\ u[k] = s[m + 1]
    <3>1. g[k + 1] = g[k] + 1 /\ u[k] = t[g[k]]
      BY <2>8 DEF Shown
    <3>2. t[i + (m + 1) - 1] = s[m + 1]
      BY <1>2, <2>1
    <3> QED BY <2>1, <2>3, <3>1, <3>2
  <2>10. k + 1 = p + (m + 1) /\ k + 1 <= Len(u) + 1 /\ i + m + 1 = i + (m + 1)
    BY <1>2, <1>3, <1>6, <2>1, <2>6 DEF k
  <2>11. ASSUME NEW l \in 1 .. m + 1 PROVE u[p + l - 1] = s[l]
    <3>1. CASE l = m + 1
      <4>1. p + l - 1 = k
        BY <1>6, <2>1, <3>1 DEF k
      <4> QED BY <2>9, <3>1, <4>1
    <3>2. CASE l # m + 1
      <4>1. l \in 1 .. m
        BY <2>1, <3>2
      <4> QED BY <2>2, <4>1
    <3> QED BY <3>1, <3>2
  <2> QED BY <2>9, <2>10, <2>11
<1>11. Good = Nat
  <2> HIDE DEF At
  <2> QED BY <1>9, <1>10, Upward
<1>12. At(Len(s))
  <2> HIDE DEF At
  <2> QED BY <1>1, <1>11
<1>13. p + Len(s) - 1 <= Len(u)
  BY <1>1, <1>3, <1>6, <1>12
<1>14. StandsAt(s, u, p)
  BY <1>6, <1>12, <1>13 DEF StandsAt
<1> QED BY <1>6, <1>8, <1>14

(* Masking makes no two occurrences overlap.                               *)
LEMMA ClearAfter ==
  ASSUME NEW t \in Seq(Chars), NEW u \in Seq(Chars), NEW P, NEW g, Hides(g, u, t, P),
         NEW s \in Strings, ClearOf(s, s, t)
  PROVE  ClearOf(s, s, u)
<1> SUFFICES ASSUME NEW p \in Nat, NEW q \in Nat, StandsAt(s, u, p), StandsAt(s, u, q),
                    p < q, q < p + Len(s)
             PROVE  FALSE
  BY DEF ClearOf
<1>1. Len(s) \in Nat \ {0} /\ Len(u) \in Nat
  BY StringType
<1>2. p \in Nat \ {0} /\ p + Len(s) - 1 <= Len(u)
  BY DEF StandsAt
<1>3. {p, q, p + Len(s)} \subseteq 1 .. Len(u) + 1
  BY <1>1, <1>2
<1>4. Stairs(g, Len(u)) /\ g \in [Nat -> Nat]
  BY DEF Hides, Stairs
<1>5. \A k, l \in 1 .. Len(u) + 1 : k < l => g[k] < g[l]
  BY <1>1, <1>4, StairsRise
<1>6. g[p] < g[q] /\ g[q] < g[p + Len(s)]
  BY <1>3, <1>5
<1>7. StandsAt(s, t, g[p]) /\ StandsAt(s, t, g[q]) /\ g[p + Len(s)] = g[p] + Len(s)
  BY ShownBefore
<1>8. g[p] \in Nat /\ g[q] \in Nat
  BY <1>4
<1>9. g[q] + Len(s) <= g[p] + Len(s)
  BY <1>6, <1>7, <1>8 DEF ClearOf
<1> QED BY ONLY <1>1, <1>6, <1>8, <1>9

(* The positions that an occurrence of s covers.                           *)
Cover(s, t) == {q \in 1 .. Len(t) : \E i \in Nat : StandsAt(s, t, i) /\ i <= q /\ q < i + Len(s)}

(* An occurrence that has been passed over was masked.                     *)
LEMMA NonePassed ==
  ASSUME NEW u \in Seq(Chars), NEW s \in Strings, ClearOf(s, s, u), NEW w \in Seq(Chars),
         NEW g, Stairs(g, Len(w)), g[Len(w) + 1] = Len(u) + 1,
         \A k \in 1 .. Len(w) : Stepping(g, w, u, s, k),
         NEW p \in Nat, StandsAt(s, u, p), NEW k \in 1 .. Len(w), p <= g[k], g[k] < p + Len(s)
  PROVE  StandsAt(s, u, g[k])
<1>1. Len(s) \in Nat \ {0} /\ Len(w) \in Nat /\ Len(u) \in Nat
  BY StringType
<1>2. p \in Nat \ {0} /\ p < g[Len(w) + 1] /\ g \in [Nat -> Nat]
  <2>1. p # 0 /\ p + Len(s) - 1 <= Len(u)
    BY DEF StandsAt
  <2>2. p < Len(u) + 1
    BY ONLY <1>1, <2>1, p \in Nat
  <2>3. g \in [Nat -> Nat]
    BY DEF Stairs
  <2> QED BY <2>1, <2>2, <2>3
<1>3. PICK l \in 1 .. Len(w) : g[l] <= p /\ p < g[l + 1]
  BY <1>1, <1>2, StairsReach
<1>4. /\ g[l] \in Nat /\ g[k] \in Nat /\ g[l + 1] \in Nat
      /\ l \in Nat /\ k \in Nat /\ k \in 1 .. Len(w) + 1 /\ l + 1 \in 1 .. Len(w) + 1
  <2>1. l \in Nat /\ l + 1 \in Nat /\ k \in Nat
        /\ k \in 1 .. Len(w) + 1 /\ l + 1 \in 1 .. Len(w) + 1
    BY <1>1, Inside
  <2> QED BY <1>2, <2>1
<1>5. g[l] = p /\ g[l + 1] = p + Len(s)
  <2>1. Stepping(g, w, u, s, l)
    OBVIOUS
  <2>2. CASE StandsAt(s, u, g[l]) /\ g[l + 1] = g[l] + Len(s)
    <3>1. ~(g[l] < p)
      <4> SUFFICES ASSUME g[l] < p PROVE FALSE
        OBVIOUS
      <4>1. p < g[l] + Len(s)
        BY <1>3, <2>2
      <4>2. p + Len(s) <= g[l] + Len(s)
        BY <1>4, <2>2, <4>1 DEF ClearOf
      <4> QED BY <1>1, <1>4, <4>2
    <3>2. g[l] = p
      BY ONLY <1>3, <1>4, <3>1, p \in Nat
    <3> QED BY <2>2, <3>2
  <2>3. CASE ~StandsAt(s, u, g[l]) /\ g[l + 1] = g[l] + 1
    <3>1. g[l] = p
      BY <1>3, <1>4, <2>3
    <3> QED BY <2>3, <3>1
  <2> QED BY <2>1, <2>2, <2>3 DEF Stepping
<1>6. \A a, b \in 1 .. Len(w) + 1 : a < b => g[a] < g[b]
  BY <1>1, StairsRise
<1>7. ~(k < l)
  <2>1. l \in 1 .. Len(w) + 1
    BY <1>1, Inside
  <2>2. k < l => g[k] < g[l]
    BY <1>4, <1>6, <2>1
  <2> QED BY <1>4, <1>5, <2>2
<1>8. ~(l + 1 < k)
  <2>1. l + 1 < k => g[l + 1] < g[k]
    BY <1>4, <1>6
  <2> QED BY <1>1, <1>4, <1>5, <2>1
<1>9. k # l + 1
  BY <1>1, <1>4, <1>5
<1>10. k = l
  BY <1>4, <1>7, <1>8, <1>9
<1> QED BY <1>5, <1>10

(* Masking one more secret hides the positions it covers, no others.       *)
LEMMA HidesMore ==
  ASSUME NEW t \in Seq(Chars), NEW u \in Seq(Chars), NEW P, NEW f, Hides(f, u, t, P),
         NEW s \in Strings, ClearOf(s, s, t),
         \A i \in Nat : StandsAt(s, t, i) =>
           \/ \A m \in 1 .. Len(s) : i + m - 1 \in P
           \/ \A m \in 1 .. Len(s) : i + m - 1 \notin P
  PROVE  \E h : Hides(h, Replaced(u, s), t, P \cup Cover(s, t))
<1> DEFINE w == Replaced(u, s)
           Q == P \cup Cover(s, t)
<1>0. w \in Seq(Chars)
  BY ReplacedType
<1>1. PICK g : /\ Stairs(g, Len(w)) /\ g[Len(w) + 1] = Len(u) + 1
               /\ \A k \in 1 .. Len(w) : Stepping(g, w, u, s, k)
  BY ReplacedStairs
<1> HIDE DEF w, Q
<1> DEFINE h == [k \in Nat |-> f[g[k]]]
<1>2. /\ Len(s) \in Nat \ {0} /\ Len(w) \in Nat /\ Len(u) \in Nat /\ Len(t) \in Nat
  BY <1>0, StringType
<1>3. /\ Stairs(f, Len(u)) /\ f \in [Nat -> Nat] /\ f[1] = 1 /\ f[Len(u) + 1] = Len(t) + 1
      /\ \A k \in 1 .. Len(u) : Shown(f, u, t, P, k) \/ Hidden(f, u, P, k)
  BY DEF Hides, Stairs
<1>4. /\ g \in [Nat -> Nat] /\ g[1] = 1
      /\ \A k \in 1 .. Len(w) : g[k] < g[k + 1]
  BY <1>1 DEF Stairs
<1>5. h \in [Nat -> Nat] /\ \A k \in Nat : h[k] = f[g[k]]
  BY <1>3, <1>4
<1> HIDE DEF h
<1>6. h[1] = 1 /\ h[Len(w) + 1] = Len(t) + 1
  <2>1. Len(w) + 1 \in Nat
    BY <1>2
  <2> QED BY <1>1, <1>3, <1>4, <1>5, <2>1
<1>7. ASSUME NEW k \in 1 .. Len(w)
      PROVE  /\ k \in Nat /\ k + 1 \in Nat /\ g[k] \in Nat /\ g[k] \in 1 .. Len(u)
             /\ g[k + 1] \in Nat /\ g[k + 1] \in 1 .. Len(u) + 1
             /\ h[k] = f[g[k]] /\ h[k + 1] = f[g[k + 1]] /\ h[k] \in Nat /\ h[k + 1] \in Nat
  <2>1. k \in Nat /\ k # 0 /\ k + 1 \in Nat /\ k \in 1 .. Len(w) + 1 /\ k + 1 \in 1 .. Len(w) + 1
        /\ k <= Len(w)
    BY <1>2, Inside
  <2>2. g[k] \in Nat /\ g[k + 1] \in Nat
    BY <1>4, <2>1
  <2>3. \A a, b \in 1 .. Len(w) + 1 : a < b => g[a] < g[b]
    BY <1>1, <1>2, StairsRise
  <2>4. 1 \in 1 .. Len(w) + 1 /\ Len(w) + 1 \in 1 .. Len(w) + 1
    BY <1>2
  <2>5. g[k] >= 1
    <3>1. CASE k = 1
      BY <1>4, <3>1
    <3>2. CASE k # 1
      <4>1. 1 < k
        BY <2>1, <3>2
      <4>2. g[1] < g[k]
        BY <2>1, <2>3, <2>4, <4>1
      <4> QED BY <1>4, <2>2, <4>2
    <3> QED BY <3>1, <3>2
  <2>6. g[k + 1] <= Len(u) + 1
    <3>1. CASE k = Len(w)
      BY <1>1, <1>2, <3>1
    <3>2. CASE k # Len(w)
      <4>1. k + 1 < Len(w) + 1
        BY <1>2, <2>1, <3>2
      <4>2. g[k + 1] < g[Len(w) + 1]
        BY <2>1, <2>3, <2>4, <4>1
      <4> QED BY <1>1, <1>2, <2>2, <4>2
    <3> QED BY <3>1, <3>2
  <2>7. g[k] \in 1 .. Len(u) /\ g[k + 1] \in 1 .. Len(u) + 1
    <3>1. g[k] < g[k + 1]
      BY <1>4
    <3> QED BY ONLY <1>2, <2>2, <2>5, <2>6, <3>1
  <2>8. h[k] = f[g[k]] /\ h[k + 1] = f[g[k + 1]] /\ h[k] \in Nat /\ h[k + 1] \in Nat
    BY <1>5, <2>1
  <2> QED BY <2>1, <2>2, <2>7, <2>8
<1>8. ASSUME NEW k \in 1 .. Len(w) PROVE h[k] < h[k + 1]
  <2>1. \A a, b \in 1 .. Len(u) + 1 : a < b => f[a] < f[b]
    BY <1>2, <1>3, StairsRise
  <2>2. g[k] \in 1 .. Len(u) + 1
    BY <1>2, <1>7, Inside
  <2>3. f[g[k]] < f[g[k + 1]]
    BY <1>4, <1>7, <2>1, <2>2
  <2> QED BY <1>7, <2>3
<1>9. ASSUME NEW k \in 1 .. Len(w), StandsAt(s, u, g[k]), w[k] = Mask, g[k + 1] = g[k] + Len(s)
      PROVE  Hidden(h, w, Q, k)
  <2>1. StandsAt(s, t, f[g[k]]) /\ f[g[k] + Len(s)] = f[g[k]] + Len(s)
    BY <1>7, <1>9, ShownBefore
  <2>2. StandsAt(s, t, h[k]) /\ h[k + 1] = h[k] + Len(s)
    BY <1>7, <1>9, <2>1
  <2>3. ASSUME NEW q \in h[k] .. h[k + 1] - 1 PROVE q \in Q
    <3>1. h[k] \in Nat \ {0} /\ h[k] + Len(s) - 1 <= Len(t)
      BY <2>2 DEF StandsAt
    <3>2. q \in 1 .. Len(t) /\ h[k] <= q /\ q < h[k] + Len(s)
      BY <1>2, <2>2, <3>1
    <3> QED BY <2>2, <3>1, <3>2 DEF Q, Cover
  <2> QED BY <1>9, <2>3 DEF Hidden
<1>10. ASSUME NEW k \in 1 .. Len(w), ~StandsAt(s, u, g[k]), w[k] = u[g[k]],
              g[k + 1] = g[k] + 1, Hidden(f, u, P, g[k])
       PROVE  Hidden(h, w, Q, k)
  BY <1>7, <1>10 DEF Hidden, Q
<1>11. ASSUME NEW k \in 1 .. Len(w), ~StandsAt(s, u, g[k]), w[k] = u[g[k]],
              g[k + 1] = g[k] + 1, Shown(f, u, t, P, g[k])
       PROVE  Shown(h, w, t, Q, k)
  <2>1. /\ w[k] # Mask /\ h[k + 1] = h[k] + 1
        /\ h[k] \in 1 .. Len(t) /\ h[k] \notin P /\ w[k] = t[h[k]]
    BY <1>7, <1>11 DEF Shown
  <2>2. h[k] \notin Cover(s, t)
    <3> SUFFICES ASSUME NEW i \in Nat, StandsAt(s, t, i), i <= h[k], h[k] < i + Len(s)
                 PROVE  FALSE
      BY DEF Cover
    <3>1. h[k] - i + 1 \in 1 .. Len(s) /\ i + (h[k] - i + 1) - 1 = h[k]
      BY <1>2, <1>7
    <3>2. \A m \in 1 .. Len(s) : i + m - 1 \notin P
      BY <2>1, <3>1
    <3>3. PICK p \in Nat : StandsAt(s, u, p) /\ f[p] = i
      BY <3>2, ShownAfter
    <3>4. f[p + Len(s)] = i + Len(s) /\ p \in Nat \ {0} /\ p + Len(s) - 1 <= Len(u)
      <4>1. f[p + Len(s)] = f[p] + Len(s)
        BY <3>3, ShownBefore
      <4> QED BY <3>3, <4>1 DEF StandsAt
    <3>5. \A a, b \in 1 .. Len(u) + 1 : a < b => f[a] < f[b]
      BY <1>2, <1>3, StairsRise
    <3>6. /\ p \in 1 .. Len(u) + 1 /\ p + Len(s) \in 1 .. Len(u) + 1
          /\ g[k] \in 1 .. Len(u) + 1 /\ f[g[k]] = h[k]
      <4>1. g[k] \in 1 .. Len(u) + 1 /\ f[g[k]] = h[k]
        BY <1>2, <1>7, Inside
      <4>2. p \in 1 .. Len(u) + 1 /\ p + Len(s) \in 1 .. Len(u) + 1
        BY <1>2, <3>4
      <4> QED BY <4>1, <4>2
    <3>7. ~(g[k] < p)
      <4>1. g[k] < p => f[g[k]] < f[p]
        BY <3>5, <3>6
      <4> QED BY <1>7, <3>3, <3>6, <4>1
    <3>8. g[k] < p + Len(s)
      <4>1. p + Len(s) < g[k] => f[p + Len(s)] < f[g[k]]
        BY <3>5, <3>6
      <4>2. ~(p + Len(s) < g[k]) /\ p + Len(s) # g[k]
        BY <1>2, <1>7, <3>4, <3>6, <4>1
      <4>3. g[k] \in Nat /\ p \in Nat
        BY <1>7
      <4> QED BY ONLY <1>2, <4>2, <4>3
    <3>9. p <= g[k]
      BY <1>7, <3>4, <3>7
    <3>10. StandsAt(s, u, g[k])
      <4>1. ClearOf(s, s, u)
        BY ClearAfter
      <4> QED BY <1>0, <1>1, <3>3, <3>8, <3>9, <4>1, NonePassed
    <3> QED BY <1>11, <3>10
  <2> QED BY <2>1, <2>2 DEF Shown, Q
<1>12. ASSUME NEW k \in 1 .. Len(w) PROVE Shown(h, w, t, Q, k) \/ Hidden(h, w, Q, k)
  <2>1. Stepping(g, w, u, s, k)
    BY <1>1
  <2>2. CASE StandsAt(s, u, g[k]) /\ w[k] = Mask /\ g[k + 1] = g[k] + Len(s)
    BY <1>9, <2>2
  <2>3. CASE ~StandsAt(s, u, g[k]) /\ w[k] = u[g[k]] /\ g[k + 1] = g[k] + 1
    <3>1. Shown(f, u, t, P, g[k]) \/ Hidden(f, u, P, g[k])
      BY <1>3, <1>7
    <3> QED BY <1>10, <1>11, <2>3, <3>1
  <2> QED BY <2>1, <2>2, <2>3 DEF Stepping
<1>13. Stairs(h, Len(w))
  BY <1>5, <1>6, <1>8 DEF Stairs
<1>14. Hides(h, w, t, Q)
  BY <1>6, <1>12, <1>13 DEF Hides
<1> QED BY <1>14 DEF w, Q

IsWithout(f, t, P) ==
  /\ \A i \in Nat : i \notin 1 .. Len(t) => f[i] = <<>>
  /\ \A i \in 1 .. Len(t) : i \in P => f[i] = f[i + 1]
  /\ \A i \in 1 .. Len(t) : i \notin P => f[i] = <<t[i]>> \o f[i + 1]

LEMMA WithoutIs ==
  ASSUME NEW t \in Seq(Chars), NEW P
  PROVE  \E f \in [Nat -> Seq(Chars)] : Without(t, P) = f[1] /\ IsWithout(f, t, P)
<1> DEFINE n == Len(t)
           piece == [i \in DOMAIN t |-> IF i \in P THEN <<>> ELSE <<t[i]>>]
<1>1. n \in Nat /\ DOMAIN t = 1 .. n
  OBVIOUS
<1>2. piece \in [1 .. n -> Seq(Chars)]
  <2> SUFFICES ASSUME NEW i \in 1 .. n PROVE (IF i \in P THEN <<>> ELSE <<t[i]>>) \in Seq(Chars)
    BY <1>1
  <2>1. t[i] \in Chars
    BY ElementOfSeq
  <2> QED BY <2>1, EmptySeq
<1>3. /\ Without(t, P) = Mapped(piece) /\ DOMAIN piece = 1 .. n
      /\ \A i \in 1 .. n : piece[i] = IF i \in P THEN <<>> ELSE <<t[i]>>
  BY <1>1 DEF Without
<1> HIDE DEF piece
<1>4. PICK f \in [Nat -> Seq(Chars)] : Mapped(piece) = f[1] /\ IsMapping(f, piece)
  BY <1>1, <1>2, MappedIs
<1>5. /\ \A i \in Nat : i \notin 1 .. n => f[i] = <<>>
      /\ \A i \in 1 .. n : f[i] = piece[i] \o f[i + 1]
  BY <1>3, <1>4 DEF IsMapping
<1>6. ASSUME NEW i \in 1 .. n, i \in P PROVE f[i] = f[i + 1]
  <2> DEFINE rest == f[i + 1]
  <2>1. rest \in Seq(Chars)
    BY <1>1, Inside
  <2>2. f[i] = <<>> \o rest
    BY <1>3, <1>5, <1>6
  <2> HIDE DEF rest
  <2>3. f[i] = rest
    BY <2>1, <2>2
  <2> QED BY <2>3 DEF rest
<1>7. \A i \in 1 .. n : i \notin P => f[i] = <<t[i]>> \o f[i + 1]
  BY <1>3, <1>5
<1>8. IsWithout(f, t, P)
  BY <1>5, <1>6, <1>7 DEF IsWithout
<1> QED BY <1>3, <1>4, <1>8

Within(a, b, t, P) ==
  a \in Nat \ {0} /\ b \in Nat /\ a <= b /\ b <= Len(t) + 1 /\ a .. b - 1 \subseteq P

LEMMA SkipHidden ==
  ASSUME NEW t \in Seq(Chars), NEW P, NEW f \in [Nat -> Seq(Chars)], IsWithout(f, t, P),
         NEW a \in Nat, NEW b \in Nat, Within(a, b, t, P)
  PROVE  f[a] = f[b]
<1>0. a \in Nat \ {0} /\ b \in Nat /\ a <= b /\ b <= Len(t) + 1 /\ a .. b - 1 \subseteq P
  BY DEF Within
<1> DEFINE n == Len(t)
           Good == {d \in Nat : a + d <= b => f[a] = f[a + d]}
<1>1. n \in Nat /\ \A i \in 1 .. n : i \in P => f[i] = f[i + 1]
  BY DEF IsWithout
<1>2. b <= n + 1
  BY <1>0
<1> HIDE DEF n
<1>3. 0 \in Good
  BY <1>0
<1>4. ASSUME NEW d \in Good PROVE d + 1 \in Good
  <2> SUFFICES ASSUME a + (d + 1) <= b PROVE f[a] = f[a + (d + 1)]
    OBVIOUS
  <2> DEFINE q == a + d
  <2>1. q \in a .. b - 1 /\ q \in 1 .. n /\ a + d <= b /\ q + 1 = a + (d + 1)
    BY <1>0, <1>1, <1>2
  <2>2. f[a] = f[q]
    BY <2>1
  <2> HIDE DEF q
  <2>3. f[q] = f[q + 1]
    BY <1>0, <1>1, <2>1
  <2> QED BY <2>1, <2>2, <2>3
<1>5. Good = Nat
  BY <1>3, <1>4, Upward
<1> HIDE DEF Good
<1>6. b - a \in Good /\ a + (b - a) = b /\ a + (b - a) <= b
  BY <1>0, <1>5
<1>7. f[a] = f[a + (b - a)]
  BY <1>6 DEF Good
<1> QED BY <1>6, <1>7

LEMMA StairsWithin ==
  ASSUME NEW n \in Nat, NEW g, Stairs(g, n), NEW k \in 1 .. n + 1
  PROVE  g[k] \in 1 .. g[n + 1]
<1>1. \A a, b \in 1 .. n + 1 : a < b => g[a] < g[b]
  BY StairsRise
<1>2. 1 \in 1 .. n + 1 /\ n + 1 \in 1 .. n + 1 /\ k \in Nat /\ k >= 1 /\ k <= n + 1 /\ n + 1 \in Nat
  OBVIOUS
<1>3. g[1] = 1 /\ g[k] \in Nat /\ g[n + 1] \in Nat
  BY <1>2 DEF Stairs
<1>4. k = 1 \/ 1 < k
  BY ONLY <1>2
<1>5. k = n + 1 \/ k < n + 1
  BY ONLY <1>2
<1>6. g[k] = 1 \/ 1 < g[k]
  BY <1>1, <1>2, <1>3, <1>4
<1>7. g[k] = g[n + 1] \/ g[k] < g[n + 1]
  BY <1>1, <1>2, <1>5
<1> DEFINE a == g[k]
           b == g[n + 1]
<1>8. a \in Nat /\ b \in Nat /\ (a = 1 \/ 1 < a) /\ (a = b \/ a < b)
  BY <1>3, <1>6, <1>7
<1> HIDE DEF a, b
<1>9. a \in 1 .. b
  BY ONLY <1>8
<1> QED BY <1>9 DEF a, b

LEMMA Masks ==
  ASSUME NEW u \in Seq(Chars), NEW t \in Seq(Chars), NEW P, NEW g, Hides(g, u, t, P)
  PROVE  Without(u, MasksIn(u)) = Without(t, P)
<1> DEFINE n == Len(u)
           M == MasksIn(u)
<1>1. n \in Nat /\ DOMAIN u = 1 .. n /\ Len(t) \in Nat
  OBVIOUS
<1>2. \A k \in 1 .. n : k \in M <=> u[k] = Mask
  BY <1>1 DEF MasksIn
<1> HIDE DEF M
<1>3. PICK f \in [Nat -> Seq(Chars)] : Without(u, M) = f[1] /\ IsWithout(f, u, M)
  BY WithoutIs
<1>4. PICK h \in [Nat -> Seq(Chars)] : Without(t, P) = h[1] /\ IsWithout(h, t, P)
  BY WithoutIs
<1>5. /\ Stairs(g, n) /\ g \in [Nat -> Nat] /\ g[1] = 1 /\ g[n + 1] = Len(t) + 1
      /\ \A k \in 1 .. n : Shown(g, u, t, P, k) \/ Hidden(g, u, P, k)
      /\ \A k \in 1 .. n : g[k] < g[k + 1]
  BY DEF Hides, Stairs
<1> DEFINE G == {k \in Nat : k # 0 /\ k <= n + 1 => f[k] = h[g[k]]}
<1> HIDE DEF n
<1>6. ASSUME NEW k \in Nat, k > n PROVE k \in G
  <2> SUFFICES ASSUME k = n + 1 PROVE f[k] = h[g[k]]
    BY <1>1, <1>6
  <2>1. k \notin 1 .. n /\ g[k] \notin 1 .. Len(t) /\ g[k] \in Nat
    BY <1>1, <1>5
  <2>2. f[k] = <<>>
    BY <1>3, <2>1 DEF IsWithout, n
  <2>3. h[g[k]] = <<>>
    BY <1>4, <2>1 DEF IsWithout
  <2> QED BY <2>2, <2>3
<1>7. ASSUME NEW k \in 1 .. n, \A j \in Nat : j > k => j \in G PROVE k \in G
  <2>1. k \in Nat /\ k # 0 /\ k + 1 \in Nat /\ k + 1 > k /\ k + 1 # 0 /\ k + 1 <= n + 1
        /\ k \in 1 .. n + 1 /\ k + 1 \in 1 .. n + 1
    BY <1>1, Inside
  <2>2. f[k + 1] = h[g[k + 1]]
    <3>1. k + 1 \in G
      BY <1>7, <2>1
    <3> QED BY <2>1, <3>1
  <2>3. CASE Shown(g, u, t, P, k)
    <3>1. /\ u[k] # Mask /\ g[k + 1] = g[k] + 1
          /\ g[k] \in 1 .. Len(t) /\ g[k] \notin P /\ u[k] = t[g[k]]
      BY <2>3 DEF Shown
    <3>2. f[k] = <<u[k]>> \o f[k + 1]
      BY <1>2, <1>3, <3>1 DEF IsWithout, n
    <3>3. h[g[k]] = <<t[g[k]]>> \o h[g[k] + 1]
      BY <1>4, <3>1 DEF IsWithout
    <3>4. f[k] = h[g[k]]
      BY <2>2, <3>1, <3>2, <3>3
    <3> QED BY <2>1, <3>4
  <2>4. CASE Hidden(g, u, P, k)
    <3>1. u[k] = Mask /\ \A q \in g[k] .. g[k + 1] - 1 : q \in P
      BY <2>4 DEF Hidden
    <3>2. f[k] = f[k + 1]
      BY <1>2, <1>3, <3>1 DEF IsWithout, n
    <3> DEFINE a == g[k]
               b == g[k + 1]
    <3>3. a \in Nat \ {0} /\ b \in Nat /\ a <= b /\ b <= Len(t) + 1
      <4>1. a \in Nat /\ b \in Nat /\ a < b
        BY <1>5, <2>1
      <4>2. a \in 1 .. Len(t) + 1 /\ b \in 1 .. Len(t) + 1
        BY <1>1, <1>5, <2>1, StairsWithin
      <4> HIDE DEF a, b
      <4> QED BY ONLY <1>1, <4>1, <4>2
    <3>4. h[g[k]] = h[g[k + 1]]
      <4>1. a .. b - 1 \subseteq P
        BY <3>1
      <4> HIDE DEF a, b
      <4>2. h[a] = h[b]
        <5>1. Within(a, b, t, P)
          BY <3>3, <4>1 DEF Within
        <5>2. a \in Nat /\ b \in Nat
          BY <3>3
        <5> QED BY <1>4, <5>1, <5>2, SkipHidden
      <4> QED BY <4>2 DEF a, b
    <3> QED BY <2>1, <2>2, <3>2, <3>4
  <2> QED BY <1>5, <2>3, <2>4
<1>8. \A k \in Nat \ {0} : k \in G
  <2> HIDE DEF G
  <2> QED BY <1>1, <1>6, <1>7, Downward
<1>9. f[1] = h[g[1]]
  <2>1. 1 \in Nat \ {0} /\ 1 <= n + 1
    BY <1>1
  <2>2. 1 \in G
    <3> HIDE DEF G
    <3> QED BY <1>8, <2>1
  <2> QED BY <2>1, <2>2
<1> QED BY <1>3, <1>4, <1>5, <1>9 DEF M

-----------------------------------------------------------------------------
(* No two occurrences of secrets in a text cross.                          *)
Uncrossed(t) == \A r, e \in DOMAIN Secrets : ClearOf(Secrets[r], Secrets[e], t)

LEMMA UncrossedIs ==
  ASSUME NEW t \in Seq(Chars), ~Crosses(t)
  PROVE  Uncrossed(t)
<1> SUFFICES ASSUME NEW r \in DOMAIN Secrets, NEW e \in DOMAIN Secrets,
                    NEW i \in Nat, NEW j \in Nat,
                    StandsAt(Secrets[r], t, i), StandsAt(Secrets[e], t, j),
                    i < j, j < i + Len(Secrets[r])
             PROVE  j + Len(Secrets[e]) <= i + Len(Secrets[r])
  BY DEF Uncrossed, ClearOf
<1> DEFINE u == Secrets[r]
           v == Secrets[e]
<1>1. DOMAIN Secrets = 1 .. Len(Secrets) /\ u \in Strings /\ v \in Strings
  BY SecretType
<1>2. /\ u \in Seq(Chars) /\ u # <<>> /\ Len(u) \in Nat \ {0}
      /\ v \in Seq(Chars) /\ v # <<>> /\ Len(v) \in Nat \ {0}
  BY <1>1, StringType
<1>3. DOMAIN t = 1 .. Len(t) /\ Len(t) \in Nat
  OBVIOUS
<1>4. /\ i \in Nat \ {0} /\ i + Len(u) - 1 <= Len(t)
      /\ j \in Nat \ {0} /\ j + Len(v) - 1 <= Len(t)
  BY DEF StandsAt
<1> HIDE DEF u, v
<1>5. i \in 1 .. Len(t) /\ j \in 1 .. Len(t)
  BY <1>2, <1>3, <1>4
<1>6. OccursAt(u, t, i) /\ OccursAt(v, t, j)
  BY <1>2, <1>5, OccursStands DEF u, v
<1>7. ~(i + Len(u) < j + Len(v))
  BY <1>3, <1>5, <1>6 DEF Crosses, u, v
<1>8. j + Len(v) <= i + Len(u)
  BY <1>2, <1>7
<1> QED BY <1>8 DEF u, v

(* The masks of a text, and what the first k secrets cover.                *)
CoverUpTo(k, t) ==
  {q \in 1 .. Len(t) :
     t[q] = Mask \/ \E i \in 1 .. Len(Secrets) : i <= k /\ q \in Cover(Secrets[i], t)}

(* A later secret is covered as a whole, or not at all.                    *)
LEMMA CoveredWhole ==
  ASSUME NEW t \in Seq(Chars), Uncrossed(t), NEW k \in 1 .. Len(Secrets), NEW i \in Nat,
         StandsAt(Secrets[k], t, i)
  PROVE  \/ \A m \in 1 .. Len(Secrets[k]) : i + m - 1 \in CoverUpTo(k - 1, t)
         \/ \A m \in 1 .. Len(Secrets[k]) : i + m - 1 \notin CoverUpTo(k - 1, t)
<1> DEFINE s == Secrets[k]
<1> SUFFICES ASSUME NEW l \in 1 .. Len(s), i + l - 1 \in CoverUpTo(k - 1, t), NEW m \in 1 .. Len(s)
             PROVE  i + m - 1 \in CoverUpTo(k - 1, t)
  OBVIOUS
<1>0. t[i + l - 1] # Mask
  <2>1. t[i + l - 1] = s[l]
    BY DEF StandsAt
  <2>2. s[l] # Mask
    BY SecretType, StringType
  <2> QED BY <2>1, <2>2
<1>1. PICK e \in 1 .. Len(Secrets) : e <= k - 1 /\ i + l - 1 \in Cover(Secrets[e], t)
  BY <1>0 DEF CoverUpTo
<1> DEFINE v == Secrets[e]
<1>2. PICK j \in Nat : StandsAt(v, t, j) /\ j <= i + l - 1 /\ i + l - 1 < j + Len(v)
  BY <1>1 DEF Cover
<1>3. /\ s \in Strings /\ v \in Strings
      /\ Len(Secrets) \in Nat /\ k \in DOMAIN Secrets /\ e \in DOMAIN Secrets
  BY SecretType
<1>4. ClearOf(s, v, t) /\ ClearOf(v, s, t)
  BY <1>3 DEF Uncrossed
<1>5. Len(v) >= Len(s)
  <2>1. e < k
    BY <1>1, <1>3
  <2> QED BY <1>3, <2>1, PublicTextAssumption
<1>6. /\ Len(s) \in Nat \ {0} /\ Len(v) \in Nat \ {0} /\ Len(t) \in Nat
      /\ i \in Nat \ {0} /\ i + Len(s) - 1 <= Len(t) /\ StandsAt(s, t, i)
  <2>1. Len(s) \in Nat \ {0} /\ Len(v) \in Nat \ {0}
    BY <1>3, StringType
  <2> QED BY <2>1 DEF StandsAt
<1> HIDE DEF s, v
<1>7. i < j + Len(v) /\ j < i + Len(s)
  BY <1>2, <1>6
<1>8. j <= i /\ i + Len(s) <= j + Len(v)
  BY <1>2, <1>3, <1>4, <1>5, <1>6, <1>7, Nested
<1>9. i + m - 1 \in 1 .. Len(t) /\ j <= i + m - 1 /\ i + m - 1 < j + Len(v)
  BY <1>6, <1>8
<1>10. i + m - 1 \in Cover(v, t)
  BY <1>2, <1>9 DEF Cover
<1> QED BY <1>1, <1>9, <1>10 DEF CoverUpTo, v

LEMMA RedactMasks ==
  ASSUME NEW t \in Seq(Chars), Uncrossed(t)
  PROVE  \E g : Hides(g, Redact(t), t, CoverUpTo(Len(Secrets), t))
<1> DEFINE N == Len(Secrets)
<1>0. Len(t) \in Nat
  OBVIOUS
<1>1. PICK m : Redact(t) = m[N] /\ IsMasking(m, t)
  BY <1>0, RedactIs
<1>2. N \in Nat /\ \A k \in 1 .. N : Secrets[k] \in Strings /\ k \in DOMAIN Secrets
  BY SecretType
<1> DEFINE Masked(k) == m[k] \in Seq(Chars) /\ \E g : Hides(g, m[k], t, CoverUpTo(k, t))
           Good == {k \in Nat : k <= N => Masked(k)}
<1> HIDE DEF Masked, N
<1>3. Masked(0)
  <2> DEFINE g == [k \in Nat |-> k]
             P == CoverUpTo(0, t)
  <2>1. m[0] = t
    BY <1>1 DEF IsMasking
  <2>2. \A q \in 1 .. Len(t) : q \in P <=> t[q] = Mask
    <3>1. \A i \in 1 .. N : ~(i <= 0)
      BY <1>2
    <3> QED BY <3>1 DEF CoverUpTo, N
  <2> HIDE DEF P
  <2>3. Stairs(g, Len(t)) /\ g[Len(t) + 1] = Len(t) + 1
    BY <1>0 DEF Stairs
  <2>4. ASSUME NEW k \in 1 .. Len(t) PROVE Shown(g, t, t, P, k) \/ Hidden(g, t, P, k)
    <3>1. k \in Nat /\ g[k] = k /\ g[k + 1] = k + 1
      BY <1>0
    <3> HIDE DEF g
    <3>2. CASE t[k] = Mask
      <4>1. \A q \in g[k] .. g[k + 1] - 1 : q = k
        BY <3>1
      <4> QED BY <2>2, <3>2, <4>1 DEF Hidden
    <3>3. CASE t[k] # Mask
      BY <2>2, <3>1, <3>3 DEF Shown
    <3> QED BY <3>2, <3>3
  <2>5. Hides(g, t, t, P)
    BY <2>3, <2>4 DEF Hides
  <2> QED BY <1>0, <2>1, <2>5 DEF Masked, P
<1>4. ASSUME NEW k \in Nat, k + 1 <= N, Masked(k) PROVE Masked(k + 1)
  <2> DEFINE s == Secrets[k + 1]
             P == CoverUpTo(k, t)
  <2>1. k + 1 \in 1 .. N /\ (k + 1) - 1 = k
    BY <1>2, <1>4
  <2>2. s \in Strings /\ ClearOf(s, s, t)
    BY <1>2, <2>1 DEF Uncrossed
  <2>3. m[k + 1] = Replaced(m[k], s)
    BY <1>1, <2>1 DEF IsMasking, N
  <2>4. PICK g : m[k] \in Seq(Chars) /\ Hides(g, m[k], t, P)
    BY <1>4 DEF Masked
  <2>5. \A i \in Nat : StandsAt(s, t, i) =>
           \/ \A l \in 1 .. Len(s) : i + l - 1 \in P
           \/ \A l \in 1 .. Len(s) : i + l - 1 \notin P
    BY <1>0, <2>1, CoveredWhole DEF N
  <2>6. P \cup Cover(s, t) = CoverUpTo(k + 1, t)
    <3>1. \A q \in 1 .. Len(t) :
            q \in CoverUpTo(k + 1, t) <=> q \in CoverUpTo(k, t) \/ q \in Cover(s, t)
      <4>1. \A i \in 1 .. N : i <= k + 1 <=> i <= k \/ i = k + 1
        BY <1>2
      <4>2. \A i \in 1 .. N : i <= k => i <= k + 1
        BY <1>2
      <4> QED BY <2>1, <4>1, <4>2 DEF CoverUpTo, N
    <3> QED BY <3>1 DEF CoverUpTo, Cover
  <2> HIDE DEF s, P
  <2>7. Replaced(m[k], s) \in Seq(Chars)
    BY <2>2, <2>4, ReplacedType
  <2>8. \E h : Hides(h, Replaced(m[k], s), t, P \cup Cover(s, t))
    BY <1>0, <2>2, <2>4, <2>5, HidesMore
  <2> QED BY <2>3, <2>6, <2>7, <2>8 DEF Masked
<1>5. Good = Nat
  <2>1. 0 \in Good /\ Good \in SUBSET Nat
    BY <1>3
  <2>2. ASSUME NEW k \in Good PROVE k + 1 \in Good
    <3>1. k + 1 <= N => k <= N
      BY <1>2
    <3> QED BY <1>4, <3>1
  <2> QED BY <2>1, <2>2, Upward
<1>6. Masked(N)
  <2>1. N <= N
    BY <1>2
  <2> QED BY <1>2, <1>5, <2>1
<1> QED BY <1>1, <1>6 DEF Masked, N

LEMMA CoveredIs ==
  ASSUME NEW t \in Seq(Chars)
  PROVE  Covered(t) \cup MasksIn(t) = CoverUpTo(Len(Secrets), t)
<1>1. /\ Len(Secrets) \in Nat /\ DOMAIN Secrets = 1 .. Len(Secrets)
      /\ DOMAIN t = 1 .. Len(t) /\ Len(t) \in Nat
  BY SecretType
<1>2. ASSUME NEW q \in 1 .. Len(t), NEW e \in 1 .. Len(Secrets)
      PROVE  (\E i \in 1 .. q : OccursAt(Secrets[e], t, i) /\ q < i + Len(Secrets[e]))
               <=> q \in Cover(Secrets[e], t)
  <2>0. Secrets[e] \in Seq(Chars) /\ Secrets[e] # <<>> /\ q \in Nat
    BY <1>1, SecretType, StringType
  <2>1. \A i \in 1 .. Len(t) : OccursAt(Secrets[e], t, i) <=> StandsAt(Secrets[e], t, i)
    BY <2>0, OccursStands
  <2>2. \A i \in 1 .. q : i \in 1 .. Len(t) /\ i \in Nat /\ i <= q
    BY <1>1
  <2>3. \A i \in Nat : StandsAt(Secrets[e], t, i) /\ i <= q => i \in 1 .. q
    BY <2>0 DEF StandsAt
  <2> QED BY <2>1, <2>2, <2>3 DEF Cover
<1>3. \A e \in 1 .. Len(Secrets) : e <= Len(Secrets)
  BY <1>1
<1> QED BY <1>1, <1>2, <1>3 DEF Covered, MasksIn, CoverUpTo

-----------------------------------------------------------------------------
(* The inductive invariant: what render_summary has made of the name.      *)

TextInv ==
  /\ service_name \in Names \cup {<<>>}
  /\ stage \in {"none", "raw", "redacted", "sanitized", "summary"}
  /\ stage = "raw" => text = service_name
  /\ stage = "redacted" => text = Redact(service_name)
  /\ stage = "sanitized" => text = Sanitize(Redact(service_name))
  /\ stage = "summary" => text = Redact(Sanitize(Redact(service_name)))

LEMMA InitTextInv == Init => TextInv
BY DEF Init, TextInit, TextInv

LEMMA NextTextInv == TextInv /\ [Next]_vars => TextInv'
<1> SUFFICES ASSUME TextInv, [Next]_vars PROVE TextInv'
  OBVIOUS
<1>1. CASE TakeName
  BY <1>1 DEF TakeName, TextInv
<1>2. CASE RedactName
  BY <1>2 DEF RedactName, TextInv
<1>3. CASE SanitizeName
  BY <1>3 DEF SanitizeName, TextInv
<1>4. CASE RedactSummary
  BY <1>4 DEF RedactSummary, TextInv
<1>5. CASE UNCHANGED textVars
  BY <1>5 DEF textVars, TextInv
<1> QED BY <1>1, <1>2, <1>3, <1>4, <1>5 DEF Next, RenderSummary, TextStep, vars

(* The text before it is redacted, sanitized, and redacted again.          *)
LEMMA NameType ==
  ASSUME TextInv
  PROVE  /\ service_name \in Seq(Chars)
         /\ Redact(service_name) \in Seq(Chars)
         /\ Collapsed(Redact(service_name)) \in Seq(Chars)
         /\ Sanitize(Redact(service_name)) \in Seq(Chars)
<1>1. service_name \in Seq(Chars)
  <2>1. Names \subseteq Seq(Chars) /\ <<>> \in Seq(Chars)
    BY PublicTextAssumption, EmptySeq
  <2> QED BY <2>1 DEF TextInv
<1>2. Redact(service_name) \in Seq(Chars)
  BY <1>1, RedactHides
<1>3. Collapsed(Redact(service_name)) \in Seq(Chars)
  BY <1>2, CollapsedType
<1>4. Sanitize(Redact(service_name)) \in Seq(Chars)
  BY <1>3, RenderedTranslated DEF Sanitize
<1> QED BY <1>1, <1>2, <1>3, <1>4

(* Secrets of a kind that escaping changes and whitespace joins no text to.*)
PlainSecrets ==
  \A i \in DOMAIN Secrets :
    /\ Secrets[i] # <<Entity[2]>>
    /\ \A j \in DOMAIN Secrets[i] : /\ ~IsSpace(Secrets[i][j])
                                    /\ Secrets[i][j] \notin {"\\", "&", Entity[3]}

LEMMA SecretsArePlain ==
  ASSUME PlainSecrets, NEW i \in 1 .. Len(Secrets)
  PROVE  Secrets[i] \in Plain /\ Secrets[i] # EntityName
<1>1. Secrets[i] \in Strings /\ i \in DOMAIN Secrets
  BY SecretType
<1>2. DOMAIN Secrets[i] = 1 .. Len(Secrets[i])
  BY <1>1, StringType, LenProperties
<1> QED BY <1>1, <1>2 DEF PlainSecrets, Plain, EntityName

(* Sanitizing a redacted text shows no plain secret again.                 *)
LEMMA SanitizedShows ==
  ASSUME PlainSecrets, NEW t \in Seq(Chars), NEW i \in 1 .. Len(Secrets),
         ~Hit(Secrets[i], t)
  PROVE  ~Hit(Secrets[i], Collapsed(t)) /\ ~Hit(Secrets[i], Sanitize(t))
<1>1. Secrets[i] \in Plain /\ Secrets[i] # EntityName
  BY SecretsArePlain
<1>2. Collapsed(t) \in Seq(Chars)
  BY CollapsedType
<1>3. ~Hit(Secrets[i], Collapsed(t))
  BY <1>1, CollapsedShows
<1>4. ~Hit(Secrets[i], Translated(Collapsed(t)))
  BY <1>1, <1>2, <1>3, TranslatedShows
<1> QED BY <1>3, <1>4 DEF Sanitize

-----------------------------------------------------------------------------

(* render_summary's text is the name redacted, then sanitized, then        *)
(* redacted, in that order.                                                *)
THEOREM TextInvariant == Spec => []TextInv
  BY InitTextInv, NextTextInv, PTL DEF Spec

(* sanitize_markdown_inline loses nothing of the redacted name but its     *)
(* runs of whitespace: a reader of the Markdown sees it as it was, with    *)
(* every escape and entity read as the character it stands for.            *)
THEOREM RendersAsItIsWritten == Spec => []RendersAsWritten
<1>1. TextInv => RendersAsWritten
  <2> SUFFICES ASSUME TextInv, stage = "sanitized"
               PROVE  Rendered(text) = Collapsed(Redact(service_name))
    BY DEF RendersAsWritten
  <2>1. text = Translated(Collapsed(Redact(service_name)))
    BY DEF TextInv, Sanitize
  <2>2. Collapsed(Redact(service_name)) \in Seq(Chars)
    BY NameType
  <2> QED BY <2>1, <2>2, RenderedTranslated
<1> QED BY <1>1, TextInvariant, PTL

(* Neither what Redactor.redact returns nor the summary has a secret in    *)
(* it as it is written, however the secrets overlap.                       *)
NoSecretWritten ==
  stage \in {"redacted", "summary"} => \A i \in DOMAIN Secrets : ~Occurs(Secrets[i], text)

THEOREM NoSecretIsWritten == Spec => []NoSecretWritten
<1>1. TextInv => NoSecretWritten
  <2> SUFFICES ASSUME TextInv, stage \in {"redacted", "summary"}, NEW i \in DOMAIN Secrets
               PROVE  ~Occurs(Secrets[i], text)
    BY DEF NoSecretWritten
  <2>1. i \in 1 .. Len(Secrets) /\ Secrets[i] \in Strings
    BY SecretType
  <2>2. PICK t \in Seq(Chars) : text = Redact(t)
    BY NameType DEF TextInv
  <2>3. text \in Seq(Chars) /\ ~Hit(Secrets[i], text)
    BY <2>1, <2>2, RedactHides
  <2> QED BY <2>1, <2>3, OccursHit
<1> QED BY <1>1, TextInvariant, PTL

(* If no secret has whitespace or a character of the Markdown's own, the   *)
(* second redaction finds nothing, and a reader of the summary sees the    *)
(* redacted name.                                                          *)
SummaryReads == stage = "summary" => Rendered(text) = Collapsed(Redact(service_name))

LEMMA SummaryIsSanitized ==
  ASSUME PlainSecrets, TextInv, stage = "summary"
  PROVE  text = Sanitize(Redact(service_name))
<1> DEFINE x == Redact(service_name)
<1>1. x \in Seq(Chars) /\ Sanitize(x) \in Seq(Chars)
  BY NameType
<1>2. \A i \in 1 .. Len(Secrets) : ~Hit(Secrets[i], x)
  BY NameType, RedactHides
<1>3. text = Redact(Sanitize(x))
  BY DEF TextInv
<1> HIDE DEF x
<1>4. \A i \in 1 .. Len(Secrets) : ~Hit(Secrets[i], Sanitize(x))
  BY <1>1, <1>2, SanitizedShows
<1>5. Redact(Sanitize(x)) = Sanitize(x)
  BY <1>1, <1>4, RedactNone
<1> QED BY <1>3, <1>5 DEF x

THEOREM SummaryReadsAsRedacted == ASSUME PlainSecrets PROVE Spec => []SummaryReads
<1>1. TextInv => SummaryReads
  <2> SUFFICES ASSUME TextInv, stage = "summary"
               PROVE  Rendered(text) = Collapsed(Redact(service_name))
    BY DEF SummaryReads
  <2>1. text = Translated(Collapsed(Redact(service_name)))
    BY SummaryIsSanitized DEF Sanitize
  <2>2. Collapsed(Redact(service_name)) \in Seq(Chars)
    BY NameType
  <2> QED BY <2>1, <2>2, RenderedTranslated
<1> QED BY <1>1, TextInvariant, PTL

(* Of such secrets none is in the summary, neither as it is written nor as *)
(* a reader sees it: neither the collapsed whitespace nor an escape brings *)
(* one back after the first redaction.                                     *)
THEOREM NoSecretIsShown == ASSUME PlainSecrets PROVE Spec => []NoSecretShown
<1>1. TextInv => NoSecretShown
  <2> SUFFICES ASSUME TextInv, stage = "summary", NEW i \in DOMAIN Secrets
               PROVE  ~Occurs(Secrets[i], text) /\ ~Occurs(Secrets[i], Rendered(text))
    BY DEF NoSecretShown
  <2> DEFINE x == Redact(service_name)
  <2>1. i \in 1 .. Len(Secrets) /\ Secrets[i] \in Strings
    BY SecretType
  <2>2. x \in Seq(Chars) /\ Collapsed(x) \in Seq(Chars) /\ Sanitize(x) \in Seq(Chars)
    BY NameType
  <2>3. ~Hit(Secrets[i], x)
    BY <2>1, NameType, RedactHides
  <2>4. text = Sanitize(x)
    BY SummaryIsSanitized
  <2>5. Rendered(text) = Collapsed(x)
    BY <2>2, <2>4, RenderedTranslated DEF Sanitize
  <2> HIDE DEF x
  <2>6. ~Hit(Secrets[i], Collapsed(x)) /\ ~Hit(Secrets[i], Sanitize(x))
    BY <2>1, <2>2, <2>3, SanitizedShows
  <2>7. ~Occurs(Secrets[i], text)
    BY <2>1, <2>2, <2>4, <2>6, OccursHit
  <2>8. ~Occurs(Secrets[i], Rendered(text))
    BY <2>1, <2>2, <2>5, <2>6, OccursHit
  <2> QED BY <2>7, <2>8
<1> QED BY <1>1, TextInvariant, PTL

(* "Longest first so overlapping secrets mask fully": what Redactor.redact *)
(* leaves of a name are the characters that no secret covers, in their     *)
(* order, and nothing of a secret that another is part of.  This is so for *)
(* every configuration, of each name in which no two occurrences cross.    *)
THEOREM SecretsAreMaskedWhole == Spec => []MaskedWhole
<1>1. TextInv => MaskedWhole
  <2> SUFFICES ASSUME TextInv, stage = "redacted", ~Crosses(service_name)
               PROVE  Without(text, MasksIn(text))
                        = Without(service_name, Covered(service_name) \cup MasksIn(service_name))
    BY DEF MaskedWhole
  <2>1. text = Redact(service_name) /\ service_name \in Seq(Chars) /\ text \in Seq(Chars)
    BY NameType DEF TextInv
  <2>2. Uncrossed(service_name)
    BY <2>1, UncrossedIs
  <2>3. PICK g : Hides(g, text, service_name,
                       Covered(service_name) \cup MasksIn(service_name))
    BY <2>1, <2>2, RedactMasks, CoveredIs
  <2> QED BY <2>1, <2>3, Masks
<1> QED BY <1>1, TextInvariant, PTL
=============================================================================
