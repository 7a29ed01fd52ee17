----------------------------- MODULE CompilerProofs -----------------------------
(***************************************************************************)
(* Lemmas about the operators of Compiler, for any characters and names:   *)
(* the byte order of names is a strict total order, sorting hosts of       *)
(* different names has exactly one outcome, and what a section holds.      *)
(*                                                                         *)
(* Where a proof would go by induction it takes a least counterexample:    *)
(* LeastNatural is what there is of induction here.                        *)
(***************************************************************************)
EXTENDS Compiler, SequenceTheorems, FunctionTheorems, FiniteSetTheorems,
        WellFoundedInduction, TLAPS

-----------------------------------------------------------------------------
(* Smallest and largest.                                                   *)

\* Every set of naturals that is not empty has a least element.
LEMMA LeastNatural ==
    ASSUME NEW T \in SUBSET Nat, T # {}
    PROVE  \E m \in T : \A k \in T : m <= k
  <1> DEFINE R == {p \in Nat \X Nat : p[1] < p[2]}
  <1>1. IsWellFoundedOn(R, Nat)
    BY NatLessThanWellFounded DEF OpToRel
  <1>2. PICK m \in T : \A k \in T : <<k, m>> \notin R
    <2> HIDE DEF R
    <2> QED
      BY <1>1, WFMin
  <1>3. ASSUME NEW k \in T PROVE m <= k
    <2>1. k < m => <<k, m>> \in R
      OBVIOUS
    <2> HIDE DEF R
    <2>2. ~ (k < m)
      BY <1>2, <2>1
    <2> QED
      BY <2>2
  <1> QED
    BY <1>3

\* Max of a set of naturals that is bounded and not empty.
LEMMA MaxOfNaturals ==
    ASSUME NEW n \in Nat, NEW T \in SUBSET (1 .. n), T # {}
    PROVE  Max(T) \in T /\ \A k \in T : Max(T) >= k
  <1> DEFINE U == {m \in Nat : \A k \in T : k <= m}
  <1>1. n \in U
    OBVIOUS
  <1>2. PICK m \in U : \A k \in U : m <= k
    BY <1>1, LeastNatural
  <1>3. m \in T
    <2> SUFFICES ASSUME m \notin T PROVE FALSE
      OBVIOUS
    <2>1. m # 0
      <3>1. PICK k \in T : TRUE
        OBVIOUS
      <3>2. k \in 1 .. n /\ k <= m
        BY <1>2
      <3> QED
        BY <3>2
    <2>2. m - 1 \in U
      BY <1>2, <2>1
    <2> QED
      BY <1>2, <2>2
  <1>4. \E x \in T : \A y \in T : x >= y
    BY <1>2, <1>3
  <1> QED
    BY <1>4 DEF Max

-----------------------------------------------------------------------------
(* The order of names.                                                     *)

\* A string of the characters of names.
String == Seq(ToSet(Character))

\* Every character has a rank of its own.
LEMMA RankOfCharacter ==
    ASSUME NEW c \in ToSet(Character)
    PROVE  Rank(c) \in Nat /\ Character[Rank(c)] = c
  <1>1. \E i \in DOMAIN Character : Character[i] = c
    BY DEF ToSet
  <1>2. Rank(c) \in DOMAIN Character /\ Character[Rank(c)] = c
    BY <1>1 DEF Rank
  <1>3. DOMAIN Character = 1 .. Len(Character) /\ Len(Character) \in Nat
    BY CompilerAssumption, LenProperties
  <1> QED
    BY <1>2, <1>3

\* Two different strings have a first place where they differ.
LEMMA FirstDifference ==
    ASSUME NEW s \in String, NEW t \in String, s # t
    PROVE  \E k \in Nat \ {0} :
              /\ \A i \in 1 .. k - 1 : i \in DOMAIN s /\ i \in DOMAIN t /\ s[i] = t[i]
              /\ k \in DOMAIN s \/ k \in DOMAIN t
              /\ k \in DOMAIN s /\ k \in DOMAIN t => s[k] # t[k]
  <1>1. /\ Len(s) \in Nat /\ DOMAIN s = 1 .. Len(s)
        /\ Len(t) \in Nat /\ DOMAIN t = 1 .. Len(t)
    BY LenProperties DEF String
  <1> DEFINE D == {k \in Nat \ {0} : ~ (k \in DOMAIN s /\ k \in DOMAIN t /\ s[k] = t[k])}
  <1>2. Len(s) + 1 \in D
    BY <1>1
  <1>3. PICK k \in D : \A l \in D : k <= l
    BY <1>2, LeastNatural
  <1>4. \A i \in 1 .. k - 1 : i \in DOMAIN s /\ i \in DOMAIN t /\ s[i] = t[i]
    BY <1>3
  <1>5. k \in DOMAIN s \/ k \in DOMAIN t
    <2> SUFFICES ASSUME k \notin DOMAIN s, k \notin DOMAIN t PROVE FALSE
      OBVIOUS
    <2>1. k - 1 = Len(s) /\ k - 1 = Len(t)
      <3>1. k > Len(s) /\ k > Len(t)
        BY <1>1, <1>3
      <3>2. k = 1 \/ k - 1 \in 1 .. k - 1
        BY <1>3
      <3> QED
        BY <1>1, <1>3, <1>4, <3>1, <3>2
    <2> QED
      BY <1>4, <2>1, SeqEqual DEF String
  <1> QED
    BY <1>3, <1>4, <1>5

\* Of two different strings one precedes the other.
LEMMA PrecedesTotal ==
    ASSUME NEW s \in String, NEW t \in String, s # t
    PROVE  Precedes(s, t) \/ Precedes(t, s)
  <1>1. PICK k \in Nat \ {0} :
              /\ \A i \in 1 .. k - 1 : i \in DOMAIN s /\ i \in DOMAIN t /\ s[i] = t[i]
              /\ k \in DOMAIN s \/ k \in DOMAIN t
              /\ k \in DOMAIN s /\ k \in DOMAIN t => s[k] # t[k]
    BY FirstDifference
  <1>2. CASE k \notin DOMAIN s \/ k \notin DOMAIN t
    BY <1>1, <1>2 DEF Precedes
  <1>3. CASE k \in DOMAIN s /\ k \in DOMAIN t
    <2>1. s[k] \in ToSet(Character) /\ t[k] \in ToSet(Character)
      BY <1>3, LenProperties, ElementOfSeq DEF String
    <2>2. Rank(s[k]) < Rank(t[k]) \/ Rank(t[k]) < Rank(s[k])
      BY <1>1, <1>3, <2>1, RankOfCharacter
    <2> QED
      BY <1>1, <1>3, <2>2 DEF Precedes
  <1> QED
    BY <1>2, <1>3

\* ... and not the other way round.
LEMMA PrecedesAsymmetric ==
    ASSUME NEW s \in String, NEW t \in String, Precedes(s, t), Precedes(t, s)
    PROVE  FALSE
  <1>1. /\ Len(s) \in Nat /\ DOMAIN s = 1 .. Len(s)
        /\ Len(t) \in Nat /\ DOMAIN t = 1 .. Len(t)
    BY LenProperties DEF String
  <1>2. PICK k \in DOMAIN t : /\ \A i \in 1 .. k - 1 : i \in DOMAIN s /\ s[i] = t[i]
                              /\ k \in DOMAIN s => Rank(s[k]) < Rank(t[k])
    BY DEF Precedes
  <1>3. PICK l \in DOMAIN s : /\ \A i \in 1 .. l - 1 : i \in DOMAIN t /\ t[i] = s[i]
                              /\ l \in DOMAIN t => Rank(t[l]) < Rank(s[l])
    BY DEF Precedes
  <1>4. ASSUME NEW i \in DOMAIN s, i \in DOMAIN t
        PROVE  Rank(s[i]) \in Nat /\ Rank(t[i]) \in Nat
    <2>1. s[i] \in ToSet(Character) /\ t[i] \in ToSet(Character)
      BY <1>1, <1>4, ElementOfSeq DEF String
    <2> QED
      BY <2>1, RankOfCharacter
  <1>5. CASE k < l
    <2>1. k \in 1 .. l - 1 /\ k \in DOMAIN s
      BY <1>1, <1>2, <1>3, <1>5
    <2> QED
      BY <1>2, <1>3, <1>4, <2>1
  <1>6. CASE l < k
    <2>1. l \in 1 .. k - 1 /\ l \in DOMAIN t
      BY <1>1, <1>2, <1>3, <1>6
    <2> QED
      BY <1>2, <1>3, <1>4, <2>1
  <1>7. CASE l = k
    BY <1>2, <1>3, <1>4, <1>7
  <1> QED
    BY <1>1, <1>5, <1>6, <1>7

\* What precedes a string precedes what that one precedes.
LEMMA PrecedesTransitive ==
    ASSUME NEW s \in String, NEW t \in String, NEW u \in String,
           Precedes(s, t), Precedes(t, u)
    PROVE  Precedes(s, u)
  <1>1. /\ Len(s) \in Nat /\ DOMAIN s = 1 .. Len(s)
        /\ Len(t) \in Nat /\ DOMAIN t = 1 .. Len(t)
        /\ Len(u) \in Nat /\ DOMAIN u = 1 .. Len(u)
    BY LenProperties DEF String
  <1>2. PICK k \in DOMAIN t : /\ \A i \in 1 .. k - 1 : i \in DOMAIN s /\ s[i] = t[i]
                              /\ k \in DOMAIN s => Rank(s[k]) < Rank(t[k])
    BY DEF Precedes
  <1>3. PICK l \in DOMAIN u : /\ \A i \in 1 .. l - 1 : i \in DOMAIN t /\ t[i] = u[i]
                              /\ l \in DOMAIN t => Rank(t[l]) < Rank(u[l])
    BY DEF Precedes
  <1>4. ASSUME NEW r \in String, NEW i \in DOMAIN r PROVE Rank(r[i]) \in Nat
    <2>1. r[i] \in ToSet(Character)
      BY <1>4, LenProperties, ElementOfSeq DEF String
    <2> QED
      BY <2>1, RankOfCharacter
  <1>5. CASE k < l
    <2>1. k \in 1 .. l - 1 /\ k \in DOMAIN u /\ t[k] = u[k]
      BY <1>1, <1>2, <1>3, <1>5
    <2>2. \A i \in 1 .. k - 1 : i \in DOMAIN s /\ s[i] = u[i]
      BY <1>1, <1>2, <1>3, <1>5
    <2> QED
      BY <1>2, <2>1, <2>2 DEF Precedes
  <1>6. CASE l <= k
    <2>1. l \in DOMAIN t /\ (l < k => l \in DOMAIN s /\ s[l] = t[l])
      BY <1>1, <1>2, <1>3, <1>6
    <2>2. \A i \in 1 .. l - 1 : i \in DOMAIN s /\ s[i] = u[i]
      BY <1>1, <1>2, <1>3, <1>6
    <2>3. l \in DOMAIN s => Rank(s[l]) < Rank(u[l])
      <3> SUFFICES ASSUME l \in DOMAIN s PROVE Rank(s[l]) < Rank(u[l])
        OBVIOUS
      <3>1. Rank(s[l]) \in Nat /\ Rank(t[l]) \in Nat /\ Rank(u[l]) \in Nat
        BY <1>4, <2>1
      <3>2. Rank(s[l]) <= Rank(t[l])
        BY <1>1, <1>2, <1>6, <2>1, <3>1
      <3> QED
        BY <1>3, <2>1, <3>1, <3>2
    <2> QED
      BY <2>2, <2>3 DEF Precedes
  <1> QED
    BY <1>1, <1>5, <1>6

-----------------------------------------------------------------------------
(* Sorting.                                                                *)

\* What Validate makes sure of: hosts have names, and names of their own.
NamesDiffer(H) == \A g, h \in H : g # h => g.name # h.name

\* A host's name is a string.
LEMMA NameIsString == \A h \in Host : h.name \in String
  BY CompilerAssumption DEF Host, HostOf, String

\* The sequences that hold every host of H once.
Enumerations(H) == Bijection(1 .. Cardinality(H), H)

\* An enumeration as the library takes one is a bijection.
LEMMA SetToSeqsAreEnumerations ==
    ASSUME NEW H, IsFiniteSet(H)
    PROVE  /\ SetToSeqs(H) = Enumerations(H)
           /\ SetToSeq(H) \in Enumerations(H)
  <1> DEFINE n == Cardinality(H)
  <1>1. n \in Nat /\ ExistsBijection(1 .. n, H)
    BY FS_CardinalityType
  <1>2. IsFiniteSet(1 .. n) /\ Cardinality(1 .. n) = n
    BY <1>1, FS_Interval
  <1>3. SetToSeqs(H) = Injection(1 .. n, H)
    BY DEF SetToSeqs, Injection, IsInjective
  <1>4. ASSUME NEW f \in Injection(1 .. n, H) PROVE f \in Bijection(1 .. n, H)
    BY <1>2, FS_Injection DEF Bijection
  <1>5. SetToSeqs(H) = Enumerations(H)
    BY <1>3, <1>4 DEF Enumerations, Bijection
  <1>6. \E f \in [1 .. n -> H] : IsInjective(f)
    BY <1>1 DEF ExistsBijection, Bijection, Injection
  <1>7. SetToSeq(H) \in Injection(1 .. n, H)
    BY <1>6 DEF SetToSeq, Injection
  <1> QED
    BY <1>4, <1>5, <1>7 DEF Enumerations

\* What an enumeration is, spelled out.
LEMMA EnumerationProperties ==
    ASSUME NEW H, IsFiniteSet(H), NEW s \in Enumerations(H)
    PROVE  /\ Cardinality(H) \in Nat
           /\ s \in [1 .. Cardinality(H) -> H]
           /\ DOMAIN s = 1 .. Cardinality(H)
           /\ \A i, j \in DOMAIN s : s[i] = s[j] => i = j
           /\ \A h \in H : \E i \in DOMAIN s : s[i] = h
  BY FS_CardinalityType DEF Enumerations, Bijection, Injection, Surjection, IsInjective

\* What is sorted is what came in, in another order.
LEMMA SortedIsEnumeration ==
    ASSUME NEW H, IsFiniteSet(H), NEW r \in Enumerations(H), NEW s \in Sorted(r)
    PROVE  /\ s \in Enumerations(H)
           /\ \A i, j \in DOMAIN s : i < j => ~ Precedes(s[j].name, s[i].name)
  <1> DEFINE D == 1 .. Cardinality(H)
  <1>1. DOMAIN r = D
    BY EnumerationProperties
  <1>2. PICK p \in Bijection(D, D) : s = [i \in D |-> r[p[i]]]
    BY <1>1 DEF Sorted
  <1>3. s \in Bijection(D, H)
    BY <1>2, Fun_BijTransitive DEF Enumerations
  <1> QED
    BY <1>3 DEF Sorted, Enumerations

\* Two sorted enumerations of hosts with names of their own are the same one: at
\* the first place they differ, each would have the smaller name.
LEMMA SortedOnce ==
    ASSUME NEW H \in SUBSET Host, IsFiniteSet(H), NamesDiffer(H),
           NEW s \in Enumerations(H), NEW t \in Enumerations(H),
           \A i, j \in DOMAIN s : i < j => ~ Precedes(s[j].name, s[i].name),
           \A i, j \in DOMAIN t : i < j => ~ Precedes(t[j].name, t[i].name)
    PROVE  s = t
  <1> DEFINE n == Cardinality(H)
             D == {i \in 1 .. n : s[i] # t[i]}
  <1>1. /\ n \in Nat
        /\ s \in [1 .. n -> H] /\ DOMAIN s = 1 .. n
        /\ t \in [1 .. n -> H] /\ DOMAIN t = 1 .. n
        /\ \A i, j \in 1 .. n : s[i] = s[j] => i = j
        /\ \A i, j \in 1 .. n : t[i] = t[j] => i = j
        /\ \A h \in H : \E i \in 1 .. n : s[i] = h
        /\ \A h \in H : \E i \in 1 .. n : t[i] = h
    BY EnumerationProperties
  <1> SUFFICES ASSUME D # {} PROVE FALSE
    BY <1>1
  <1>2. PICK i \in D : \A k \in D : i <= k
    <2>1. D \in SUBSET Nat
      BY <1>1
    <2> QED
      BY <2>1, LeastNatural
  <1>3. \A k \in 1 .. n : k < i => s[k] = t[k]
    BY <1>1, <1>2
  <1>4. PICK j \in 1 .. n : t[j] = s[i]
    BY <1>1
  <1>5. PICK k \in 1 .. n : s[k] = t[i]
    BY <1>1
  <1>6. i < j /\ i < k
    BY <1>1, <1>2, <1>3, <1>4, <1>5
  <1>7. /\ s[i] \in H /\ t[i] \in H /\ s[i] # t[i]
        /\ s[i].name \in String /\ t[i].name \in String
    BY <1>1, <1>2, NameIsString
  <1>8. s[i].name # t[i].name
    BY <1>7 DEF NamesDiffer
  <1>9. ~ Precedes(t[i].name, s[i].name)
    BY <1>1, <1>5, <1>6
  <1>10. ~ Precedes(s[i].name, t[i].name)
    BY <1>1, <1>4, <1>6
  <1> QED
    BY <1>7, <1>8, <1>9, <1>10, PrecedesTotal

\* ... and there is one: every host goes behind those whose names precede its own.
LEMMA SortedExists ==
    ASSUME NEW H \in SUBSET Host, IsFiniteSet(H), NamesDiffer(H),
           NEW r \in Enumerations(H)
    PROVE  Sorted(r) # {}
  <1> DEFINE n == Cardinality(H)
             D == 1 .. n
             Before(i) == {j \in D : Precedes(r[j].name, r[i].name)}
             place == [i \in D |-> Cardinality(Before(i)) + 1]
  <1>1. /\ n \in Nat
        /\ r \in [D -> H] /\ DOMAIN r = D
        /\ \A i, j \in D : r[i] = r[j] => i = j
    BY EnumerationProperties
  <1>2. IsFiniteSet(D) /\ Cardinality(D) = n
    BY <1>1, FS_Interval
  <1>3. \A i \in D : r[i].name \in String
    BY <1>1, NameIsString
  <1>4. \A i, j \in D : i # j => r[i].name # r[j].name
    BY <1>1 DEF NamesDiffer
  <1>5. \A i \in D : i \notin Before(i)
    BY <1>3, PrecedesAsymmetric
  <1>6. ASSUME NEW i \in D PROVE IsFiniteSet(Before(i)) /\ Cardinality(Before(i)) \in Nat
    <2>1. Before(i) \in SUBSET D
      OBVIOUS
    <2> HIDE DEF Before
    <2> QED
      BY <1>2, <2>1, FS_Subset, FS_CardinalityType
  <1>7. ASSUME NEW i \in D, NEW j \in D, Precedes(r[i].name, r[j].name)
        PROVE  place[i] < place[j]
    <2>1. Before(i) \cup {i} \in SUBSET Before(j) /\ i \notin Before(i)
      BY <1>3, <1>5, <1>7, PrecedesTransitive
    <2> HIDE DEF Before
    <2>2. Cardinality(Before(i) \cup {i}) = Cardinality(Before(i)) + 1
      BY <1>6, <2>1, FS_AddElement
    <2>3. Cardinality(Before(i) \cup {i}) <= Cardinality(Before(j))
      BY <1>6, <2>1, FS_Subset
    <2> QED
      BY <1>6, <2>2, <2>3
  <1>8. ASSUME NEW i \in D PROVE place[i] \in D
    <2>1. Before(i) \cup {i} \in SUBSET D /\ i \notin Before(i)
      BY <1>5
    <2> HIDE DEF Before
    <2>2. Cardinality(Before(i) \cup {i}) = Cardinality(Before(i)) + 1
      BY <1>6, <2>1, FS_AddElement
    <2>3. Cardinality(Before(i) \cup {i}) <= n
      BY <1>2, <2>1, FS_Subset
    <2> QED
      BY <1>1, <1>6, <2>2, <2>3
  <1>9. place \in [D -> D]
    BY <1>8
  <1>10. ASSUME NEW i \in D, NEW j \in D, place[i] = place[j] PROVE i = j
    <2> SUFFICES ASSUME i # j PROVE FALSE
      OBVIOUS
    <2>1. place[i] < place[j] \/ place[j] < place[i]
      <3> HIDE DEF place
      <3> QED
        BY <1>3, <1>4, <1>7, PrecedesTotal
    <2> HIDE DEF place
    <2>2. place[i] \in Nat /\ place[j] \in Nat
      BY <1>1, <1>9
    <2> QED
      BY <1>10, <2>1, <2>2
  <1> HIDE DEF place, Before
  <1>11. place \in Injection(D, D)
    BY <1>9, <1>10 DEF Injection, IsInjective
  <1>12. place \in Bijection(D, D)
    BY <1>2, <1>11, FS_Injection DEF Bijection
  <1> DEFINE p == Inverse(place, D, D)
             s == [i \in D |-> r[p[i]]]
  <1>13. p \in Bijection(D, D) /\ \A i \in D : p[place[i]] = i
    BY <1>12, Fun_BijInverse
  <1> HIDE DEF p
  <1>14. \A i \in D : p[i] \in D /\ place[p[i]] = i
    BY <1>12, <1>13 DEF Bijection, Injection, Surjection
  <1>15. ASSUME NEW i \in D, NEW j \in D, i < j PROVE ~ Precedes(s[j].name, s[i].name)
    <2> SUFFICES ASSUME Precedes(r[p[j]].name, r[p[i]].name) PROVE FALSE
      OBVIOUS
    <2>1. place[p[j]] < place[p[i]]
      BY <1>7, <1>14
    <2> QED
      BY <1>1, <1>14, <1>15, <2>1
  <1>16. s \in Sorted(r)
    BY <1>1, <1>13, <1>15 DEF Sorted
  <1> QED
    BY <1>16

\* sort.Slice has exactly one outcome, whatever order the hosts come in.
LEMMA SortedIsOne ==
    ASSUME NEW H \in SUBSET Host, IsFiniteSet(H), NamesDiffer(H),
           NEW r \in Enumerations(H), NEW s \in Enumerations(H)
    PROVE  \E t \in Sorted(r) : Sorted(s) = {t}
  <1>1. PICK t \in Sorted(r) : TRUE
    BY SortedExists
  <1>2. PICK u \in Sorted(s) : TRUE
    BY SortedExists
  <1>3. \A v \in Sorted(s) : v = t
    BY SortedIsEnumeration, SortedOnce
  <1> QED
    BY <1>2, <1>3

\* Compile gives one configuration, whatever order the hosts come in.
LEMMA ConfigIsOne ==
    ASSUME NEW H \in SUBSET Host, IsFiniteSet(H), NamesDiffer(H),
           NEW r \in Enumerations(H), NEW s \in Enumerations(H)
    PROVE  \E config \in Configs(r) : Configs(s) = {config}
  <1>1. PICK t \in Sorted(r) : Sorted(s) = {t}
    BY SortedIsOne
  <1> DEFINE config == [p \in Protocol |-> Section(t, p)]
  <1>2. config \in Configs(r)
    BY DEF Configs
  <1>3. Configs(s) = {config}
    BY <1>1 DEF Configs
  <1> QED
    BY <1>2, <1>3

-----------------------------------------------------------------------------
(* Sections.                                                               *)

\* The hosts a section of protocol p is made of.
Enabled(H, p) == {h \in H : h.enabled /\ h.protocol = p}

\* Those hosts are the ones at the positions the loop goes through.
LEMMA PositionsAreEnabled ==
    ASSUME NEW H, IsFiniteSet(H), NEW s \in Enumerations(H), NEW p
    PROVE  /\ Cardinality(H) \in Nat /\ Positions(s, p) \in SUBSET (1 .. Cardinality(H))
           /\ \A i \in Positions(s, p) : s[i] \in Enabled(H, p)
           /\ \A h \in Enabled(H, p) : \E i \in Positions(s, p) : s[i] = h
  BY EnumerationProperties DEF Positions, Enabled

\* Behind each name of a section are the router and the service of one host, the
\* last that has become that name.
LEMMA SectionRouters ==
    ASSUME NEW H, IsFiniteSet(H), NEW s \in Enumerations(H), NEW p
    PROVE  /\ DOMAIN Section(s, p).routers = {sanitizeName(h.name) : h \in Enabled(H, p)}
           /\ DOMAIN Section(s, p).services = DOMAIN Section(s, p).routers
           /\ \A n \in DOMAIN Section(s, p).routers : \E h \in Enabled(H, p) :
                 /\ sanitizeName(h.name) = n
                 /\ Section(s, p).routers[n] = Router(h)
                 /\ Section(s, p).services[n] = Effective(h)
  <1> DEFINE I == Positions(s, p)
             named == {sanitizeName(s[i].name) : i \in I}
             Winner(n) == s[Max({i \in I : sanitizeName(s[i].name) = n})]
  <1>1. /\ Section(s, p).routers = [n \in named |-> Router(Winner(n))]
        /\ Section(s, p).services = [n \in named |-> Effective(Winner(n))]
    BY DEF Section
  <1>2. /\ Cardinality(H) \in Nat /\ I \in SUBSET (1 .. Cardinality(H))
        /\ \A i \in I : s[i] \in Enabled(H, p)
        /\ \A h \in Enabled(H, p) : \E i \in I : s[i] = h
    BY PositionsAreEnabled
  <1> HIDE DEF I
  <1>3. named = {sanitizeName(h.name) : h \in Enabled(H, p)}
    BY <1>2
  <1>4. ASSUME NEW n \in named
        PROVE  Winner(n) \in Enabled(H, p) /\ sanitizeName(Winner(n).name) = n
    <2> DEFINE T == {i \in I : sanitizeName(s[i].name) = n}
    <2>1. T # {} /\ T \in SUBSET (1 .. Cardinality(H))
      BY <1>2
    <2>2. Max(T) \in T
      <3> HIDE DEF T
      <3> QED
        BY <1>2, <2>1, MaxOfNaturals
    <2> QED
      BY <1>2, <2>2
  <1> HIDE DEF named, Winner
  <1>5. DOMAIN Section(s, p).routers = named /\ DOMAIN Section(s, p).services = named
    BY <1>1
  <1>6. \A n \in named : /\ Section(s, p).routers[n] = Router(Winner(n))
                         /\ Section(s, p).services[n] = Effective(Winner(n))
    BY <1>1
  <1> QED
    BY <1>3, <1>4, <1>5, <1>6, Zenon

\* Middlewares are named by host and position, so what a section defines is what
\* its routers list.
LEMMA SectionMiddlewares ==
    ASSUME NEW H \in SUBSET Host, IsFiniteSet(H), NEW s \in Enumerations(H), NEW p
    PROVE  LET middlewares == Section(s, p).middlewares
           IN  /\ DOMAIN middlewares = UNION {ToSet(Router(h).middlewares) : h \in Enabled(H, p)}
               /\ \A n \in DOMAIN middlewares : \E h \in Enabled(H, p) :
                     \E j \in DOMAIN h.middlewares : middlewares[n] = RenderedMiddleware(h, j)
  <1> DEFINE I == Positions(s, p)
             listed == UNION {ToSet(Router(s[i]).middlewares) : i \in I}
             At(i, n) == {j \in DOMAIN s[i].middlewares : MiddlewareName(s[i], j) = n}
             LastOne(n) == Max({k \in I : At(k, n) # {}})
  <1>1. Section(s, p).middlewares
          = [n \in listed |-> RenderedMiddleware(s[LastOne(n)], Max(At(LastOne(n), n)))]
    BY DEF Section
  <1>2. /\ Cardinality(H) \in Nat /\ I \in SUBSET (1 .. Cardinality(H))
        /\ \A i \in I : s[i] \in Enabled(H, p)
        /\ \A h \in Enabled(H, p) : \E i \in I : s[i] = h
    BY PositionsAreEnabled
  <1> HIDE DEF I
  <1>3. listed = UNION {ToSet(Router(h).middlewares) : h \in Enabled(H, p)}
    BY <1>2
  <1>4. ASSUME NEW n \in listed
        PROVE  /\ s[LastOne(n)] \in Enabled(H, p)
               /\ Max(At(LastOne(n), n)) \in DOMAIN s[LastOne(n)].middlewares
    <2> DEFINE T == {k \in I : At(k, n) # {}}
    <2>1. PICK i \in I : n \in ToSet(Router(s[i]).middlewares)
      OBVIOUS
    <2>2. PICK j \in DOMAIN s[i].middlewares : MiddlewareName(s[i], j) = n
      BY <2>1 DEF ToSet, Router
    <2>3. T # {} /\ T \in SUBSET (1 .. Cardinality(H))
      BY <1>2, <2>2
    <2>4. Max(T) \in T
      <3> HIDE DEF T
      <3> QED
        BY <1>2, <2>3, MaxOfNaturals
    <2>5. LastOne(n) \in I /\ At(LastOne(n), n) # {}
      BY <2>4
    <2>6. s[LastOne(n)].middlewares \in Seq(Middleware)
      BY <1>2, <2>5 DEF Enabled, Host, HostOf
    <2> DEFINE l == s[LastOne(n)].middlewares
    <2>7. Len(l) \in Nat /\ At(LastOne(n), n) \in SUBSET (1 .. Len(l))
      <3>1. Len(l) \in Nat /\ DOMAIN l = 1 .. Len(l)
        BY <2>6, LenProperties
      <3> QED
        BY <3>1
    <2>8. Max(At(LastOne(n), n)) \in At(LastOne(n), n)
      <3> HIDE DEF At, LastOne, l
      <3> QED
        BY <2>5, <2>7, MaxOfNaturals
    <2> QED
      BY <1>2, <2>5, <2>8
  <1> HIDE DEF listed, LastOne, At
  <1> QED
    BY <1>1, <1>3, <1>4

\* In the part of a fleet that compiles, a chain is rendered with names of
\* middlewares its router lists.
LEMMA ChainsResolve ==
    ASSUME NEW H \in SUBSET Host, Compiles(H), NEW p \in Protocol,
           NEW h \in Enabled(H, p), NEW j \in DOMAIN h.middlewares
    PROVE  ToSet(RenderedMiddleware(h, j).refs) \subseteq ToSet(Router(h).middlewares)
  <1> DEFINE l == h.middlewares
             Having(ref) == {i \in DOMAIN l : l[i].name = ref}
  <1>1. l \in Seq(Middleware) /\ Len(l) \in Nat /\ DOMAIN l = 1 .. Len(l)
    BY LenProperties DEF Enabled, Host, HostOf
  <1>2. Refs(l) \subseteq Names(l)
    <2>1. CASE p = "http"
      BY <2>1 DEF Compiles, Enabled
    <2>2. CASE p # "http"
      <3>1. l = <<>>
        BY <2>2 DEF Compiles, Validate, Enabled, Protocol, ValidateTCP, ValidateUDP
      <3> QED
        BY <1>1, <3>1
    <2> QED
      BY <2>1, <2>2
  <1>3. ASSUME NEW ref \in Names(l) PROVE Resolved(h, ref) \in ToSet(Router(h).middlewares)
    <2>1. Having(ref) # {} /\ Having(ref) \in SUBSET (1 .. Len(l))
      BY <1>1, <1>3 DEF Names
    <2>2. Max(Having(ref)) \in Having(ref)
      <3> HIDE DEF Having, l
      <3> QED
        BY <1>1, <2>1, MaxOfNaturals
    <2>3. Resolved(h, ref) = MiddlewareName(h, Max(Having(ref)))
      BY DEF Resolved
    <2> QED
      BY <2>2, <2>3 DEF ToSet, Router
  <1>4. CASE l[j].type = "chain"
    <2>1. \A k \in DOMAIN l[j].refs : l[j].refs[k] \in Names(l)
      BY <1>2, <1>4 DEF Refs, ToSet
    <2>2. RenderedMiddleware(h, j).refs
            = [k \in DOMAIN l[j].refs |-> Resolved(h, l[j].refs[k])]
      BY <1>4 DEF RenderedMiddleware
    <2> HIDE DEF l
    <2> QED
      BY <1>3, <2>1, <2>2 DEF ToSet
  <1>5. CASE l[j].type # "chain"
    BY <1>5 DEF RenderedMiddleware, ToSet
  <1> QED
    BY <1>4, <1>5

\* Whatever a section of hosts that compile refers to is in it.
LEMMA SectionIsClosed ==
    ASSUME NEW H \in SUBSET Host, IsFiniteSet(H), Compiles(H),
           NEW s \in Enumerations(H), NEW p \in Protocol
    PROVE  LET section == Section(s, p)
               defined == DOMAIN section.middlewares
           IN  /\ \A r \in DOMAIN section.routers :
                     /\ section.routers[r].service \in DOMAIN section.services
                     /\ ToSet(section.routers[r].middlewares) \subseteq defined
               /\ \A m \in defined : ToSet(section.middlewares[m].refs) \subseteq defined
  <1> DEFINE section == Section(s, p)
             defined == DOMAIN section.middlewares
  <1>1. defined = UNION {ToSet(Router(h).middlewares) : h \in Enabled(H, p)}
    BY SectionMiddlewares
  <1>2. ASSUME NEW r \in DOMAIN section.routers
        PROVE  /\ section.routers[r].service \in DOMAIN section.services
               /\ ToSet(section.routers[r].middlewares) \subseteq defined
    <2>1. PICK h \in Enabled(H, p) : sanitizeName(h.name) = r /\ section.routers[r] = Router(h)
      BY <1>2, SectionRouters
    <2>2. section.routers[r].service = r
      <3>1. Router(h).service = sanitizeName(h.name)
        BY DEF Router
      <3> QED
        BY <2>1, <3>1
    <2>3. r \in DOMAIN section.services
      BY <1>2, SectionRouters
    <2> QED
      BY <1>1, <2>1, <2>2, <2>3
  <1>3. ASSUME NEW m \in defined
        PROVE  ToSet(section.middlewares[m].refs) \subseteq defined
    <2>1. PICK h \in Enabled(H, p) :
                \E j \in DOMAIN h.middlewares : section.middlewares[m] = RenderedMiddleware(h, j)
      BY <1>3, SectionMiddlewares
    <2> QED
      BY <1>1, <2>1, ChainsResolve
  <1> QED
    BY <1>2, <1>3
=============================================================================
