----------------------------- MODULE PlanProofs -----------------------------
(* Lemmas about the operators of Plan, for every file, list of containers  *)
(* and container: what Merge returns, stated without its recursion, what   *)
(* Assignment and ResolveEgress depend on, and what an order of the list   *)
(* or one more container changes.                                          *)
EXTENDS Plan, FunctionTheorems, FiniteSetTheorems, SequenceTheorems, WellFoundedInduction, TLAPS

\* Induction, for a set of numbers: a least number that is missing would be 0
\* or follow one that is not missing.
LEMMA NatSets ==
  ASSUME NEW T, 0 \in T, \A n \in Nat : n \in T => n + 1 \in T
  PROVE  Nat \subseteq T
<1> DEFINE missing == Nat \ T
<1> SUFFICES ASSUME missing # {} PROVE FALSE
  OBVIOUS
<1> DEFINE below == {p \in Nat \X Nat : p[1] < p[2]}
<1>0. IsWellFoundedOn(below, Nat)
  BY NatLessThanWellFounded DEF OpToRel
<1>1. PICK m \in missing : \A k \in missing : ~ <<k, m>> \in below
  BY <1>0, WFMin
<1>2. m \in Nat /\ m \notin T
  OBVIOUS
<1>3. m # 0 /\ m - 1 \in Nat /\ (m - 1) + 1 = m
  BY <1>2
<1>4. m - 1 \notin T
  BY <1>2, <1>3
<1>5. <<m - 1, m>> \in below
  BY <1>2, <1>3
<1> QED BY <1>1, <1>3, <1>4, <1>5

\* InsertAt, element by element.
LEMMA InsertAtProperties ==
  ASSUME NEW S, NEW s \in Seq(S), NEW k \in 1 .. Len(s) + 1, NEW e \in S
  PROVE  /\ InsertAt(s, k, e) \in Seq(S)
         /\ DOMAIN InsertAt(s, k, e) = 1 .. Len(s) + 1
         /\ \A i \in 1 .. Len(s) + 1 :
              InsertAt(s, k, e)[i] = IF i < k THEN s[i] ELSE IF i = k THEN e ELSE s[i - 1]
<1> DEFINE u == SubSeq(s, 1, k - 1)
           v == SubSeq(s, k, Len(s))
<1>0. Len(s) \in Nat
  BY LenProperties
<1>1. /\ u \in Seq(S) /\ Len(u) = k - 1
      /\ \A i \in 1 .. k - 1 : u[i] = s[i]
  BY <1>0, SubSeqProperties
<1>2. /\ v \in Seq(S) /\ Len(v) = Len(s) - k + 1
      /\ \A i \in 1 .. Len(s) - k + 1 : v[i] = s[k + i - 1]
  BY <1>0, SubSeqProperties
<1>3. <<e>> \in Seq(S) /\ Len(<<e>>) = 1 /\ <<e>>[1] = e
  OBVIOUS
<1> HIDE DEF u, v
<1>4. /\ u \o <<e>> \in Seq(S) /\ Len(u \o <<e>>) = k
      /\ \A i \in 1 .. k : (u \o <<e>>)[i] = IF i < k THEN s[i] ELSE e
  BY <1>0, <1>1, <1>3, ConcatProperties
<1>5. /\ u \o <<e>> \o v \in Seq(S) /\ Len(u \o <<e>> \o v) = Len(s) + 1
      /\ \A i \in 1 .. Len(s) + 1 : (u \o <<e>> \o v)[i] =
           IF i < k THEN s[i] ELSE IF i = k THEN e ELSE s[i - 1]
  <2> DEFINE w == u \o <<e>>
  <2>1. w \in Seq(S) /\ Len(w) = k /\ \A i \in 1 .. k : w[i] = IF i < k THEN s[i] ELSE e
    BY <1>4
  <2> HIDE DEF w
  <2>2. /\ w \o v \in Seq(S) /\ Len(w \o v) = Len(s) + 1
        /\ \A i \in 1 .. Len(s) + 1 : (w \o v)[i] = IF i <= k THEN w[i] ELSE v[i - k]
    <3>1. /\ w \o v \in Seq(S) /\ Len(w \o v) = Len(w) + Len(v)
          /\ \A i \in 1 .. Len(w) + Len(v) :
               (w \o v)[i] = IF i <= Len(w) THEN w[i] ELSE v[i - Len(w)]
      BY <1>2, <2>1, ConcatProperties
    <3>2. Len(w) = k /\ Len(w) + Len(v) = Len(s) + 1
      BY <1>0, <1>2, <2>1
    <3> QED BY <3>1, <3>2
  <2>3. ASSUME NEW i \in 1 .. Len(s) + 1
        PROVE  (w \o v)[i] = IF i < k THEN s[i] ELSE IF i = k THEN e ELSE s[i - 1]
    <3>1. CASE i <= k
      BY <1>0, <2>1, <2>2, <3>1
    <3>2. CASE ~(i <= k)
      <4>1. i - k \in 1 .. Len(s) - k + 1 /\ k + (i - k) - 1 = i - 1
        BY <1>0, <3>2
      <4> QED BY <1>0, <1>2, <2>2, <3>2, <4>1
    <3> QED BY <3>1, <3>2
  <2> QED BY <2>2, <2>3 DEF w
<1>6. InsertAt(s, k, e) = u \o <<e>> \o v
  BY DEF InsertAt, u, v
<1> QED BY <1>5, <1>6, LenProperties

\* RemoveAt, element by element.
LEMMA RemoveAtProperties ==
  ASSUME NEW S, NEW s \in Seq(S), NEW k \in 1 .. Len(s)
  PROVE  /\ RemoveAt(s, k) \in Seq(S)
         /\ DOMAIN RemoveAt(s, k) = 1 .. Len(s) - 1
         /\ \A i \in 1 .. Len(s) - 1 :
              RemoveAt(s, k)[i] = IF i < k THEN s[i] ELSE s[i + 1]
<1> DEFINE u == SubSeq(s, 1, k - 1)
           v == SubSeq(s, k + 1, Len(s))
<1>0. Len(s) \in Nat
  BY LenProperties
<1>1. /\ u \in Seq(S) /\ Len(u) = k - 1
      /\ \A i \in 1 .. k - 1 : u[i] = s[i]
  BY <1>0, SubSeqProperties
<1>2. /\ v \in Seq(S) /\ Len(v) = Len(s) - k
      /\ \A i \in 1 .. Len(s) - k : v[i] = s[k + i]
  BY <1>0, SubSeqProperties
<1> HIDE DEF u, v
<1>3. /\ u \o v \in Seq(S) /\ Len(u \o v) = Len(s) - 1
      /\ \A i \in 1 .. Len(s) - 1 : (u \o v)[i] = IF i < k THEN s[i] ELSE s[i + 1]
  <2>1. /\ u \o v \in Seq(S) /\ Len(u \o v) = Len(s) - 1
        /\ \A i \in 1 .. Len(s) - 1 : (u \o v)[i] = IF i <= k - 1 THEN u[i] ELSE v[i - (k - 1)]
    <3>1. /\ u \o v \in Seq(S) /\ Len(u \o v) = Len(u) + Len(v)
          /\ \A i \in 1 .. Len(u) + Len(v) :
               (u \o v)[i] = IF i <= Len(u) THEN u[i] ELSE v[i - Len(u)]
      BY <1>1, <1>2, ConcatProperties
    <3>2. Len(u) = k - 1 /\ Len(u) + Len(v) = Len(s) - 1
      BY <1>0, <1>1, <1>2
    <3> QED BY <3>1, <3>2
  <2>2. ASSUME NEW i \in 1 .. Len(s) - 1
        PROVE  (u \o v)[i] = IF i < k THEN s[i] ELSE s[i + 1]
    <3>1. CASE i < k
      BY <1>0, <1>1, <2>1, <3>1
    <3>2. CASE ~(i < k)
      <4>1. i - (k - 1) \in 1 .. Len(s) - k /\ k + (i - (k - 1)) = i + 1
        BY <1>0, <3>2
      <4> QED BY <1>0, <1>2, <2>1, <3>2, <4>1
    <3> QED BY <3>1, <3>2
  <2> QED BY <2>1, <2>2
<1>4. RemoveAt(s, k) = u \o v
  BY DEF RemoveAt, u, v
<1> QED BY <1>3, <1>4, LenProperties

----------------------------------------------------------------------------
(* Merge: the gateways after each container of the list.                   *)

Merging(config, targets, n, f) ==
  f = [k \in 0 .. n |-> IF k = 0 THEN config ELSE Admit(f[k - 1], targets[k])]

LEMMA MergingExists ==
  ASSUME NEW config, NEW targets
  PROVE  \A n \in Nat : \E f : Merging(config, targets, n, f)
<1> DEFINE T == {n \in Nat : \E f : Merging(config, targets, n, f)}
<1>1. 0 \in T
  <2>1. Merging(config, targets, 0, [k \in 0 .. 0 |-> config])
    BY DEF Merging
  <2> QED BY <2>1
<1>2. ASSUME NEW n \in Nat, n \in T PROVE n + 1 \in T
  <2>1. PICK f : Merging(config, targets, n, f)
    BY <1>2
  <2> DEFINE g == [k \in 0 .. n + 1 |-> IF k = 0 THEN config ELSE Admit(f[k - 1], targets[k])]
  <2>2. \A k \in 0 .. n : f[k] = IF k = 0 THEN config ELSE Admit(f[k - 1], targets[k])
    BY <2>1 DEF Merging
  <2>3. \A k \in 0 .. n : k \in 0 .. n + 1
    BY <1>2
  <2>4. \A k \in 0 .. n : g[k] = f[k]
    BY <2>2, <2>3
  <2>5. \A k \in 0 .. n + 1 : k = 0 \/ k - 1 \in 0 .. n
    BY <1>2
  <2>6. g = [k \in 0 .. n + 1 |-> IF k = 0 THEN config ELSE Admit(g[k - 1], targets[k])]
    BY <2>4, <2>5, Zenon
  <2> HIDE DEF g
  <2>7. Merging(config, targets, n + 1, g)
    BY <2>6 DEF Merging
  <2> QED BY <1>2, <2>7
<1> HIDE DEF T
<1>3. Nat \subseteq T
  BY <1>1, <1>2, NatSets
<1> QED BY <1>3 DEF T

LEMMA MergeRecursive ==
  ASSUME NEW config, NEW targets, Len(targets) \in Nat
  PROVE  \E f : Merging(config, targets, Len(targets), f) /\ Merge(config, targets) = f[Len(targets)]
<1> DEFINE f == CHOOSE f : Merging(config, targets, Len(targets), f)
<1>1. Merging(config, targets, Len(targets), f)
  BY MergingExists
<1>2. Merge(config, targets) = f[Len(targets)]
  BY DEF Merge, Merging
<1> QED BY <1>1, <1>2

\* The container at k is the first that claims its name well-formed.
Claims(config, targets, k) ==
  LET n == Declares(targets[k])
  IN  /\ n # None /\ WellFormed(targets[k])
      /\ \A i \in DOMAIN config : config[i].name # n
      /\ \A j \in 1 .. k - 1 : Declares(targets[j]) = n => ~WellFormed(targets[j])

DistinctNames(gs) == \A i, j \in DOMAIN gs : i # j => gs[i].name # gs[j].name

\* What gs is after the first n containers.
MergedTo(config, targets, n, gs) ==
  /\ Len(config) <= Len(gs) /\ \A i \in 1 .. Len(config) : gs[i] = config[i]
  /\ \A i \in Len(config) + 1 .. Len(gs) :
       \E k \in 1 .. n : Claims(config, targets, k) /\ gs[i] = DiscoveredGateway(targets[k])
  /\ \A k \in 1 .. n : Declares(targets[k]) # None /\ WellFormed(targets[k]) =>
       \E i \in DOMAIN gs : gs[i].name = Declares(targets[k])
  /\ DistinctNames(gs)

LEMMA DiscoveredName == \A t : DiscoveredGateway(t).name = Declares(t)
  BY DEF DiscoveredGateway

LEMMA AdmitMerges ==
  ASSUME NEW G, NEW config \in Seq(G), NEW targets, NEW n \in Nat, NEW gs \in Seq(G),
         MergedTo(config, targets, n, gs), DiscoveredGateway(targets[n + 1]) \in G
  PROVE  LET hs == Admit(gs, targets[n + 1])
         IN  hs \in Seq(G) /\ MergedTo(config, targets, n + 1, hs)
<1> DEFINE t == targets[n + 1]  g == DiscoveredGateway(t)
<1>1. /\ Len(gs) \in Nat /\ DOMAIN gs = 1 .. Len(gs)
      /\ Len(config) \in Nat /\ DOMAIN config = 1 .. Len(config)
  BY LenProperties
<1>2. \A k \in 1 .. n + 1 : k \in 1 .. n \/ k = n + 1
  OBVIOUS
<1>3. CASE Declares(t) = None \/ (\E i \in DOMAIN gs : gs[i].name = Declares(t)) \/ ~WellFormed(t)
  <2>1. Admit(gs, t) = gs
    BY <1>3 DEF Admit
  <2>2. Declares(t) # None /\ WellFormed(t) => \E i \in DOMAIN gs : gs[i].name = Declares(t)
    BY <1>3
  <2>3. MergedTo(config, targets, n + 1, gs)
    BY <1>2, <2>2 DEF MergedTo
  <2> QED BY <2>1, <2>3
<1>4. CASE Declares(t) # None /\ (\A i \in DOMAIN gs : gs[i].name # Declares(t)) /\ WellFormed(t)
  <2> DEFINE hs == Append(gs, g)
  <2>1. Admit(gs, t) = hs
    BY <1>4 DEF Admit
  <2>2. /\ hs \in Seq(G) /\ Len(hs) = Len(gs) + 1 /\ DOMAIN hs = 1 .. Len(gs) + 1
        /\ \A i \in 1 .. Len(gs) : hs[i] = gs[i]
        /\ hs[Len(gs) + 1] = g
    BY AppendProperties, LenProperties
  <2> HIDE DEF hs
  <2>3. Claims(config, targets, n + 1)
    <3>1. \A i \in DOMAIN config : config[i].name # Declares(t)
      BY <1>1, <1>4 DEF MergedTo
    <3>2. \A j \in 1 .. n : Declares(targets[j]) = Declares(t) => ~WellFormed(targets[j])
      BY <1>4 DEF MergedTo
    <3> QED BY <1>4, <3>1, <3>2 DEF Claims
  <2>4. g.name = Declares(t)
    BY DiscoveredName
  <2>5. Len(config) <= Len(hs) /\ \A i \in 1 .. Len(config) : hs[i] = config[i]
    BY <1>1, <2>2 DEF MergedTo
  <2>6. ASSUME NEW i \in Len(config) + 1 .. Len(hs)
        PROVE  \E k \in 1 .. n + 1 : Claims(config, targets, k)
                                    /\ hs[i] = DiscoveredGateway(targets[k])
    <3>1. CASE i = Len(hs)
      BY <1>1, <2>2, <2>3, <3>1
    <3>2. CASE i # Len(hs)
      <4>1. i \in Len(config) + 1 .. Len(gs) /\ hs[i] = gs[i]
        BY <1>1, <2>2, <3>2
      <4> QED BY <1>2, <4>1 DEF MergedTo
    <3> QED BY <3>1, <3>2
  <2>7. ASSUME NEW k \in 1 .. n + 1, Declares(targets[k]) # None /\ WellFormed(targets[k])
        PROVE  \E i \in DOMAIN hs : hs[i].name = Declares(targets[k])
    <3>1. CASE k \in 1 .. n
      <4>1. PICK i \in DOMAIN gs : gs[i].name = Declares(targets[k])
        BY <2>7, <3>1 DEF MergedTo
      <4>2. i \in DOMAIN hs /\ hs[i] = gs[i]
        BY <1>1, <2>2
      <4> QED BY <4>1, <4>2
    <3>2. CASE k = n + 1
      <4>1. Len(gs) + 1 \in DOMAIN hs /\ hs[Len(gs) + 1].name = Declares(targets[k])
        BY <1>1, <2>2, <2>4, <3>2
      <4> QED BY <4>1
    <3> QED BY <1>2, <3>1, <3>2
  <2>8. DistinctNames(hs)
    <3> SUFFICES ASSUME NEW i \in DOMAIN hs, NEW j \in DOMAIN hs, i < j
                 PROVE  hs[i].name # hs[j].name
      BY <1>1, <2>2 DEF DistinctNames
    <3>1. i \in DOMAIN gs /\ hs[i] = gs[i]
      BY <1>1, <2>2
    <3>2. CASE j \in DOMAIN gs
      <4>1. hs[j] = gs[j]
        BY <1>1, <2>2, <3>2
      <4> QED BY <3>1, <3>2, <4>1 DEF MergedTo, DistinctNames
    <3>3. CASE j = Len(gs) + 1
      BY <1>4, <2>2, <2>4, <3>1, <3>3
    <3> QED BY <1>1, <2>2, <3>2, <3>3
  <2> QED BY <2>1, <2>2, <2>5, <2>6, <2>7, <2>8 DEF MergedTo
<1> QED BY <1>3, <1>4

LEMMA MergeProperties ==
  ASSUME NEW G, NEW config \in Seq(G), DistinctNames(config),
         NEW targets, Len(targets) \in Nat,
         \A k \in 1 .. Len(targets) : DiscoveredGateway(targets[k]) \in G
  PROVE  /\ Merge(config, targets) \in Seq(G)
         /\ MergedTo(config, targets, Len(targets), Merge(config, targets))
<1> DEFINE m == Len(targets)
<1>1. PICK f : Merging(config, targets, m, f) /\ Merge(config, targets) = f[m]
  BY MergeRecursive
<1>2. \A k \in 0 .. m : f[k] = IF k = 0 THEN config ELSE Admit(f[k - 1], targets[k])
  BY <1>1 DEF Merging
<1> DEFINE T == {n \in Nat : n <= m => f[n] \in Seq(G) /\ MergedTo(config, targets, n, f[n])}
<1>3. 0 \in T
  <2>1. f[0] = config
    BY <1>2
  <2>2. MergedTo(config, targets, 0, config)
    BY LenProperties DEF MergedTo
  <2> QED BY <2>1, <2>2
<1>4. ASSUME NEW n \in Nat, n \in T PROVE n + 1 \in T
  <2> SUFFICES ASSUME n + 1 <= m
               PROVE  f[n + 1] \in Seq(G) /\ MergedTo(config, targets, n + 1, f[n + 1])
    OBVIOUS
  <2>1. f[n] \in Seq(G) /\ MergedTo(config, targets, n, f[n])
    BY <1>4
  <2>2. n + 1 \in 0 .. m /\ n + 1 # 0 /\ (n + 1) - 1 = n /\ n + 1 \in 1 .. m
    OBVIOUS
  <2>3. f[n + 1] = Admit(f[n], targets[n + 1])
    BY <1>2, <2>2
  <2> QED BY <2>1, <2>2, <2>3, AdmitMerges
<1> HIDE DEF T
<1>5. m \in T
  BY <1>3, <1>4, NatSets
<1> QED BY <1>1, <1>5 DEF T

LEMMA NamesCounted ==
  ASSUME NEW G, NEW gs \in Seq(G), DistinctNames(gs)
  PROVE  LET names == {gs[i].name : i \in DOMAIN gs}
         IN  IsFiniteSet(names) /\ Cardinality(names) = Len(gs)
<1> DEFINE names == {gs[i].name : i \in DOMAIN gs}
           name  == [i \in 1 .. Len(gs) |-> gs[i].name]
<1>1. Len(gs) \in Nat /\ DOMAIN gs = 1 .. Len(gs)
  BY LenProperties
<1>2. name \in Bijection(1 .. Len(gs), names)
  <2>1. name \in [1 .. Len(gs) -> names]
    BY <1>1
  <2>2. \A i, j \in 1 .. Len(gs) : name[i] = name[j] => i = j
    BY <1>1 DEF DistinctNames
  <2>3. \A n \in names : \E i \in 1 .. Len(gs) : name[i] = n
    BY <1>1
  <2> HIDE DEF name, names
  <2> QED BY <2>1, <2>2, <2>3, Fun_IsBij
<1>3. ExistsBijection(1 .. Len(gs), names)
  BY <1>2 DEF ExistsBijection
<1> HIDE DEF names
<1> QED BY <1>1, <1>3, FS_CountingElements, FS_NatBijection DEF names

----------------------------------------------------------------------------
(* Assignment: what the order of the gateways decides.                     *)

LEMMA FirstProperties ==
  ASSUME NEW I \in SUBSET Nat, I # {}
  PROVE  First(I) \in I /\ \A j \in I : First(I) <= j
<1> DEFINE below == {p \in Nat \X Nat : p[1] < p[2]}
<1>1. IsWellFoundedOn(below, Nat)
  BY NatLessThanWellFounded DEF OpToRel
<1>2. PICK m \in I : \A j \in I : ~ <<j, m>> \in below
  BY <1>1, WFMin
<1>3. ASSUME NEW j \in I PROVE m <= j
  <2>1. j \in Nat /\ m \in Nat /\ (j < m => <<j, m>> \in below)
    OBVIOUS
  <2> QED BY <1>2, <2>1
<1> QED BY <1>3 DEF First

Selects(g, t) == \E s \in g.members : SelectorMatches(s, t)

\* A container that asks for nothing is assigned by its selectors.
LEMMA SelectorAssignment ==
  ASSUME NEW gs, Len(gs) \in Nat, DOMAIN gs = 1 .. Len(gs), NEW t,
         Declares(t) = None, ~OptsIn(t)
  PROVE  /\ (\A i \in DOMAIN gs : ~Selects(gs[i], t)) => Assignment(gs, t) = Direct
         /\ \A i \in DOMAIN gs : (\A j \in DOMAIN gs : Selects(gs[j], t) <=> j = i)
              => Assignment(gs, t) = gs[i].name
         /\ \A i, j \in DOMAIN gs : Selects(gs[i], t) /\ Selects(gs[j], t) /\ i # j
              => Assignment(gs, t) = Conflict
<1> DEFINE matched == {i \in DOMAIN gs : \E s \in gs[i].members : SelectorMatches(s, t)}
<1>1. Assignment(gs, t) = IF matched = {} THEN Direct
                          ELSE IF Cardinality(matched) = 1 THEN gs[First(matched)].name
                          ELSE Conflict
  BY DEF Assignment
<1>2. matched = {i \in DOMAIN gs : Selects(gs[i], t)}
  BY DEF Selects
<1> HIDE DEF matched
<1>3. ASSUME \A i \in DOMAIN gs : ~Selects(gs[i], t) PROVE Assignment(gs, t) = Direct
  <2>1. matched = {}
    BY <1>2, <1>3
  <2> QED BY <1>1, <2>1
<1>4. ASSUME NEW i \in DOMAIN gs, \A j \in DOMAIN gs : Selects(gs[j], t) <=> j = i
      PROVE  Assignment(gs, t) = gs[i].name
  <2>1. matched = {i}
    BY <1>2, <1>4
  <2>2. Cardinality(matched) = 1
    BY <2>1, FS_Singleton
  <2>3. First(matched) = i
    BY <2>1 DEF First
  <2> QED BY <1>1, <2>1, <2>2, <2>3
<1>5. ASSUME NEW i \in DOMAIN gs, NEW j \in DOMAIN gs,
             Selects(gs[i], t), Selects(gs[j], t), i # j
      PROVE  Assignment(gs, t) = Conflict
  <2>1. i \in matched /\ j \in matched
    BY <1>2, <1>5
  <2>2. IsFiniteSet(matched)
    <3>1. IsFiniteSet(1 .. Len(gs))
      BY FS_Interval
    <3>2. matched \in SUBSET (1 .. Len(gs))
      BY <1>2
    <3> QED BY <3>1, <3>2, FS_Subset
  <2>3. Cardinality(matched) # 1
    <3> SUFFICES ASSUME Cardinality(matched) = 1 PROVE FALSE
      OBVIOUS
    <3>1. PICK x : matched = {x}
      BY <2>2, FS_Singleton
    <3> QED BY <1>5, <2>1, <3>1
  <2> QED BY <1>1, <2>1, <2>3
<1> QED BY <1>3, <1>4, <1>5

\* A container that is a member of a gateway declares none, and is assigned
\* to it by its own request or by the one gateway whose selectors match.
LEMMA AssignedName ==
  ASSUME NEW gs, Len(gs) \in Nat, DOMAIN gs = 1 .. Len(gs), NEW t,
         NEW n \in GatewayName, Assignment(gs, t) = n
  PROVE  /\ Declares(t) = None
         /\ OptsIn(t) => Resolve(gs, t.via) = n
         /\ ~OptsIn(t) => \E i \in DOMAIN gs :
              gs[i].name = n /\ \A j \in DOMAIN gs : Selects(gs[j], t) <=> j = i
<1>1. n \notin {IsGateway, Unresolved, Conflict, Direct}
  BY PlanAssumption
<1>2. Declares(t) = None
  BY <1>1 DEF Assignment
<1>3. ASSUME OptsIn(t) PROVE Resolve(gs, t.via) = n
  BY <1>1, <1>2, <1>3 DEF Assignment
<1>4. ASSUME ~OptsIn(t)
      PROVE  \E i \in DOMAIN gs :
               gs[i].name = n /\ \A j \in DOMAIN gs : Selects(gs[j], t) <=> j = i
  <2>1. PICK i \in DOMAIN gs : Selects(gs[i], t)
    BY <1>1, <1>2, <1>4, SelectorAssignment
  <2>2. \A j \in DOMAIN gs : Selects(gs[j], t) <=> j = i
    BY <1>1, <1>2, <1>4, <2>1, SelectorAssignment
  <2>3. gs[i].name = n
    BY <1>2, <1>4, <2>2, SelectorAssignment
  <2> QED BY <2>2, <2>3
<1> QED BY <1>2, <1>3, <1>4

\* Lists of gateways that are one another's reorderings, with at most one
\* default.
Reordered(gs, hs) ==
  /\ Len(gs) \in Nat /\ DOMAIN gs = 1 .. Len(gs) /\ DistinctNames(gs)
  /\ Len(hs) = Len(gs) /\ DOMAIN hs = 1 .. Len(gs) /\ DistinctNames(hs)
  /\ \A i \in DOMAIN gs : \E j \in DOMAIN hs : hs[j] = gs[i]
  /\ \A j \in DOMAIN hs : \E i \in DOMAIN gs : hs[j] = gs[i]
  /\ \A i, j \in DOMAIN gs : gs[i].default /\ gs[j].default => i = j

LEMMA ReorderedSymmetric ==
  ASSUME NEW gs, NEW hs, Reordered(gs, hs)
  PROVE  Reordered(hs, gs)
<1>1. ASSUME NEW i \in DOMAIN hs, NEW j \in DOMAIN hs, hs[i].default, hs[j].default
      PROVE  i = j
  <2>1. PICK k \in DOMAIN gs : hs[i] = gs[k]
    BY DEF Reordered
  <2>2. PICK l \in DOMAIN gs : hs[j] = gs[l]
    BY DEF Reordered
  <2>3. k = l
    BY <1>1, <2>1, <2>2 DEF Reordered
  <2>4. DistinctNames(hs)
    BY DEF Reordered
  <2> QED BY <2>1, <2>2, <2>3, <2>4 DEF DistinctNames
<1> QED BY <1>1 DEF Reordered

LEMMA ReorderedResolve ==
  ASSUME NEW gs, NEW hs, Reordered(gs, hs), NEW via
  PROVE  Resolve(gs, via) = Resolve(hs, via)
<1>1. Reordered(hs, gs)
  BY ReorderedSymmetric
<1>2. CASE via # None
  <2>1. (\E i \in DOMAIN gs : gs[i].name = via) <=> (\E i \in DOMAIN hs : hs[i].name = via)
    BY DEF Reordered
  <2> QED BY <1>2, <2>1 DEF Resolve
<1>3. CASE via = None
  <2>1. CASE \E i \in DOMAIN gs : gs[i].default
    <3>1. PICK i \in DOMAIN gs : gs[i].default
      BY <2>1
    <3>2. PICK j \in DOMAIN hs : hs[j] = gs[i]
      BY DEF Reordered
    <3>3. {k \in DOMAIN gs : gs[k].default} = {i}
      BY <3>1 DEF Reordered
    <3>4. {k \in DOMAIN hs : hs[k].default} = {j}
      <4>1. hs[j].default
        BY <3>1, <3>2
      <4>2. \A k \in DOMAIN hs : hs[k].default => k = j
        BY <1>1, <4>1 DEF Reordered
      <4> QED BY <4>1, <4>2
    <3>5. First({i}) = i /\ First({j}) = j
      BY DEF Reordered, First
    <3>6. Resolve(gs, via) = gs[i].name
      BY <1>3, <3>3, <3>5 DEF Resolve
    <3>7. Resolve(hs, via) = hs[j].name
      BY <1>3, <3>4, <3>5 DEF Resolve
    <3> QED BY <3>2, <3>6, <3>7
  <2>2. CASE ~ \E i \in DOMAIN gs : gs[i].default
    <3>1. {k \in DOMAIN gs : gs[k].default} = {} /\ {k \in DOMAIN hs : hs[k].default} = {}
      BY <2>2 DEF Reordered
    <3>2. Len(hs) = Len(gs) /\ (Len(gs) = 1 => hs[1] = gs[1])
      BY DEF Reordered
    <3> QED BY <1>3, <3>1, <3>2 DEF Resolve
  <2> QED BY <2>1, <2>2
<1> QED BY <1>2, <1>3

LEMMA ReorderedAssignment ==
  ASSUME NEW gs, NEW hs, Reordered(gs, hs), NEW t
  PROVE  Assignment(gs, t) = Assignment(hs, t)
<1>1. /\ Len(gs) \in Nat /\ DOMAIN gs = 1 .. Len(gs)
      /\ Len(hs) \in Nat /\ DOMAIN hs = 1 .. Len(hs)
      /\ DistinctNames(gs) /\ DistinctNames(hs)
  BY DEF Reordered
<1>2. CASE Declares(t) # None \/ OptsIn(t)
  <2>1. Resolve(gs, t.via) = Resolve(hs, t.via)
    BY ReorderedResolve
  <2> QED BY <1>2, <2>1 DEF Assignment
<1>3. CASE Declares(t) = None /\ ~OptsIn(t)
  <2>1. CASE \A i \in DOMAIN gs : ~Selects(gs[i], t)
    <3>1. \A i \in DOMAIN hs : ~Selects(hs[i], t)
      BY <2>1 DEF Reordered
    <3>2. Assignment(gs, t) = Direct
      BY <1>1, <1>3, <2>1, SelectorAssignment
    <3>3. Assignment(hs, t) = Direct
      BY <1>1, <1>3, <3>1, SelectorAssignment
    <3> QED BY <3>2, <3>3
  <2>2. CASE \E i \in DOMAIN gs : \A j \in DOMAIN gs : Selects(gs[j], t) <=> j = i
    <3>1. PICK i \in DOMAIN gs : \A j \in DOMAIN gs : Selects(gs[j], t) <=> j = i
      BY <2>2
    <3>2. PICK k \in DOMAIN hs : hs[k] = gs[i]
      BY DEF Reordered
    <3>3. \A j \in DOMAIN hs : Selects(hs[j], t) <=> j = k
      <4> TAKE j \in DOMAIN hs
      <4>1. PICK l \in DOMAIN gs : hs[j] = gs[l]
        BY DEF Reordered
      <4>2. l = i <=> j = k
        BY <1>1, <3>2, <4>1 DEF DistinctNames
      <4> QED BY <3>1, <4>1, <4>2
    <3>4. Assignment(gs, t) = gs[i].name
      BY <1>1, <1>3, <3>1, SelectorAssignment
    <3>5. Assignment(hs, t) = hs[k].name
      BY <1>1, <1>3, <3>3, SelectorAssignment
    <3> QED BY <3>2, <3>4, <3>5
  <2>3. CASE \E i, j \in DOMAIN gs : Selects(gs[i], t) /\ Selects(gs[j], t) /\ i # j
    <3>1. PICK i \in DOMAIN gs, j \in DOMAIN gs :
            Selects(gs[i], t) /\ Selects(gs[j], t) /\ i # j
      BY <2>3
    <3>2. PICK k \in DOMAIN hs : hs[k] = gs[i]
      BY DEF Reordered
    <3>3. PICK l \in DOMAIN hs : hs[l] = gs[j]
      BY DEF Reordered
    <3>4. k # l
      BY <1>1, <3>1, <3>2, <3>3 DEF DistinctNames
    <3>5. Assignment(gs, t) = Conflict
      BY <1>1, <1>3, <3>1, SelectorAssignment
    <3>6. Assignment(hs, t) = Conflict
      BY <1>1, <1>3, <3>1, <3>2, <3>3, <3>4, SelectorAssignment
    <3> QED BY <3>5, <3>6
  <2> QED BY <2>1, <2>2, <2>3
<1> QED BY <1>2, <1>3

----------------------------------------------------------------------------
(* ResolveEgress: a gateway is reached by the container it names.          *)

Named(sel, ts) == {k \in DOMAIN ts : sel \in {ts[k].name, ts[k].service}}

LEMMA ContainerIp ==
  ASSUME NEW sel, NEW ts
  PROVE  /\ Named(sel, ts) = {} => GatewayContainerIp(sel, ts) = Unavailable
         /\ Named(sel, ts) # {} => GatewayContainerIp(sel, ts) = Ipv4(ts[First(Named(sel, ts))].addrs)
<1>1. ASSUME Named(sel, ts) = {} PROVE GatewayContainerIp(sel, ts) = Unavailable
  BY <1>1 DEF Named, GatewayContainerIp
<1>2. ASSUME Named(sel, ts) # {}
      PROVE  GatewayContainerIp(sel, ts) = Ipv4(ts[First(Named(sel, ts))].addrs)
  BY <1>2, Zenon DEF Named, GatewayContainerIp
<1> QED BY <1>1, <1>2

LEMMA OneEgress ==
  ASSUME NEW g, ValidGateway(g)
  PROVE  g.egress.interface # None \/ g.egress.nextHop # None \/ g.egress.container # None
<1> SUFFICES ASSUME g.egress.interface = None, g.egress.nextHop = None, g.egress.container = None
             PROVE  FALSE
  OBVIOUS
<1>1. {k \in {"interface", "container", "nextHop"} : g.egress[k] # None} = {}
  OBVIOUS
<1> QED BY <1>1, FS_EmptySet DEF ValidGateway

LEMMA OnlyEgress ==
  ASSUME NEW g, ValidGateway(g), g.egress.interface # None
  PROVE  g.egress.nextHop = None
<1> DEFINE set == {k \in {"interface", "container", "nextHop"} : g.egress[k] # None}
<1>1. IsFiniteSet(set)
  <2>1. IsFiniteSet({"interface", "container", "nextHop"})
    <3> DEFINE one == {"interface"}  two == one \cup {"container"}  three == two \cup {"nextHop"}
    <3>1. {"interface", "container", "nextHop"} = three
      OBVIOUS
    <3>2. IsFiniteSet(one)
      BY FS_Singleton
    <3> HIDE DEF one
    <3>3. IsFiniteSet(two)
      BY <3>2, FS_AddElement
    <3> HIDE DEF two
    <3>4. IsFiniteSet(three)
      BY <3>3, FS_AddElement
    <3> QED BY <3>1, <3>4
  <2> QED BY <2>1, FS_Subset
<1>2. Cardinality(set) = 1
  BY DEF ValidGateway
<1>3. \E x : set = {x}
  <2> HIDE DEF set
  <2> QED BY <1>1, <1>2, FS_Singleton
<1>4. "interface" \in set
  OBVIOUS
<1>5. "nextHop" \notin set
  BY <1>3, <1>4
<1> QED BY <1>5

LEMMA SameEgress ==
  ASSUME NEW g, ValidGateway(g), NEW ts, NEW us,
         g.egress.container # None =>
           GatewayContainerIp(g.egress.container, ts) = GatewayContainerIp(g.egress.container, us)
  PROVE  ResolveEgress(g, ts) = ResolveEgress(g, us)
  BY OneEgress DEF ResolveEgress

\* Where at most one container has a name, its place in the list is the same
\* to who looks for it.
LEMMA ReorderedIp ==
  ASSUME NEW ts, DOMAIN ts \in SUBSET Nat, NEW us, DOMAIN us \in SUBSET Nat,
         ToSet(ts) = ToSet(us), NEW sel,
         \A s, t \in ToSet(ts) : sel \in {s.name, s.service} /\ sel \in {t.name, t.service} => s = t
  PROVE  GatewayContainerIp(sel, ts) = GatewayContainerIp(sel, us)
<1>1. \A vs : \A k \in Named(sel, vs) : vs[k] \in ToSet(vs) /\ sel \in {vs[k].name, vs[k].service}
  BY DEF ToSet, Named
<1>2. Named(sel, ts) = {} <=> Named(sel, us) = {}
  <2>1. (\E t \in ToSet(ts) : sel \in {t.name, t.service}) <=> Named(sel, ts) # {}
    BY DEF ToSet, Named
  <2>2. (\E t \in ToSet(us) : sel \in {t.name, t.service}) <=> Named(sel, us) # {}
    BY DEF ToSet, Named
  <2> QED BY <2>1, <2>2
<1>3. CASE Named(sel, ts) = {}
  <2>1. GatewayContainerIp(sel, ts) = Unavailable
    BY <1>3, ContainerIp
  <2>2. GatewayContainerIp(sel, us) = Unavailable
    BY <1>2, <1>3, ContainerIp
  <2> QED BY <2>1, <2>2
<1>4. CASE Named(sel, ts) # {}
  <2>1. First(Named(sel, ts)) \in Named(sel, ts)
    BY <1>4, FirstProperties DEF Named
  <2>2. First(Named(sel, us)) \in Named(sel, us)
    BY <1>2, <1>4, FirstProperties DEF Named
  <2>3. ts[First(Named(sel, ts))] = us[First(Named(sel, us))]
    BY <1>1, <2>1, <2>2
  <2>4. GatewayContainerIp(sel, ts) = Ipv4(ts[First(Named(sel, ts))].addrs)
    BY <1>4, ContainerIp
  <2>5. GatewayContainerIp(sel, us) = Ipv4(us[First(Named(sel, us))].addrs)
    BY <1>2, <1>4, ContainerIp
  <2> QED BY <2>3, <2>4, <2>5
<1> QED BY <1>3, <1>4

----------------------------------------------------------------------------
(* One more container in the list.                                         *)

Extends(ts, us, k, e) ==
  /\ Len(ts) \in Nat /\ DOMAIN ts = 1 .. Len(ts)
  /\ Len(us) = Len(ts) + 1 /\ DOMAIN us = 1 .. Len(ts) + 1 /\ k \in 1 .. Len(ts) + 1
  /\ \A i \in 1 .. Len(ts) + 1 :
       us[i] = IF i < k THEN ts[i] ELSE IF i = k THEN e ELSE ts[i - 1]

\* A container that declares no gateway changes none.
LEMMA MergeExtended ==
  ASSUME NEW config, NEW ts, NEW us, NEW k, NEW e, Extends(ts, us, k, e), Declares(e) = None
  PROVE  Merge(config, us) = Merge(config, ts)
<1> DEFINE m == Len(ts)
<1>0. m \in Nat /\ Len(us) = m + 1 /\ k \in 1 .. m + 1
  BY DEF Extends
<1>1. PICK f : Merging(config, ts, m, f) /\ Merge(config, ts) = f[m]
  BY <1>0, MergeRecursive
<1>2. PICK g : Merging(config, us, m + 1, g) /\ Merge(config, us) = g[m + 1]
  <2>1. Len(us) \in Nat
    BY <1>0
  <2>2. \E g : Merging(config, us, Len(us), g) /\ Merge(config, us) = g[Len(us)]
    BY <2>1, MergeRecursive
  <2> QED BY <1>0, <2>2
<1>3. f[0] = config /\ \A n \in 1 .. m : f[n] = Admit(f[n - 1], ts[n])
  BY <1>0, <1>1 DEF Merging
<1>4. g[0] = config /\ \A n \in 1 .. m + 1 : g[n] = Admit(g[n - 1], us[n])
  BY <1>0, <1>2 DEF Merging
<1>5. \A n \in 1 .. m + 1 : us[n] = IF n < k THEN ts[n] ELSE IF n = k THEN e ELSE ts[n - 1]
  BY DEF Extends
<1>6. g[k] = g[k - 1]
  <2>1. \A gs : Admit(gs, e) = gs
    BY DEF Admit
  <2>2. g[k] = Admit(g[k - 1], e)
    BY <1>0, <1>4, <1>5
  <2> QED BY <2>1, <2>2
<1> DEFINE T == {n \in Nat : /\ n <= k - 1 => g[n] = f[n]
                             /\ k - 1 <= n /\ n <= m => g[n + 1] = f[n]}
<1> HIDE DEF m
<1>7. 0 \in T
  <2>1. k - 1 <= 0 => k = 1
    BY <1>0
  <2> QED BY <1>0, <1>3, <1>4, <1>6, <2>1
<1>8. ASSUME NEW n \in Nat, n \in T PROVE n + 1 \in T
  <2>1. n + 1 <= k - 1 => g[n + 1] = f[n + 1]
    <3> SUFFICES ASSUME n + 1 <= k - 1 PROVE g[n + 1] = f[n + 1]
      OBVIOUS
    <3>1. g[n + 1] = Admit(g[n], us[n + 1]) /\ f[n + 1] = Admit(f[n], ts[n + 1])
      <4>1. n + 1 \in 1 .. m /\ n + 1 \in 1 .. m + 1 /\ (n + 1) - 1 = n
        BY <1>0
      <4> QED BY <1>3, <1>4, <4>1
    <3>2. us[n + 1] = ts[n + 1] /\ g[n] = f[n]
      BY <1>0, <1>5, <1>8
    <3> QED BY <3>1, <3>2
  <2>2. k - 1 <= n + 1 /\ n + 1 <= m => g[n + 2] = f[n + 1]
    <3> SUFFICES ASSUME k - 1 <= n + 1, n + 1 <= m PROVE g[n + 2] = f[n + 1]
      OBVIOUS
    <3>1. CASE k - 1 = n + 1
      <4>1. g[n + 1] = f[n + 1]
        BY <1>0, <2>1, <3>1
      <4>2. k = n + 2
        BY <1>0, <3>1
      <4>3. g[n + 2] = g[n + 1]
        BY <1>6, <3>1, <4>2
      <4> QED BY <4>1, <4>3
    <3>2. CASE k - 1 <= n
      <4>1. n + 2 \in 1 .. m + 1 /\ (n + 2) - 1 = n + 1 /\ n + 1 \in 1 .. m /\ (n + 1) - 1 = n
            /\ ~(n + 2 < k) /\ n + 2 # k
        BY <1>0, <3>2
      <4>2. g[n + 2] = Admit(g[n + 1], us[n + 2])
        BY <1>4, <4>1
      <4>3. us[n + 2] = ts[n + 1]
        BY <1>5, <4>1
      <4>4. f[n + 1] = Admit(f[n], ts[n + 1])
        BY <1>3, <4>1
      <4>5. g[n + 1] = f[n]
        BY <1>0, <1>8, <3>2
      <4> QED BY <4>2, <4>3, <4>4, <4>5
    <3> QED BY <1>0, <3>1, <3>2
  <2>3. (n + 1) + 1 = n + 2 /\ n + 1 \in Nat
    OBVIOUS
  <2> QED BY <2>1, <2>2, <2>3
<1> HIDE DEF T
<1>9. m \in T
  BY <1>0, <1>7, <1>8, NatSets
<1>10. g[m + 1] = f[m]
  BY <1>0, <1>9 DEF T
<1> QED BY <1>1, <1>2, <1>10

\* Nor does a container change which address a name stands for, unless it is
\* its own.
LEMMA IpExtended ==
  ASSUME NEW ts, NEW us, NEW k, NEW e, Extends(ts, us, k, e),
         NEW sel, sel \notin {e.name, e.service}
  PROVE  GatewayContainerIp(sel, us) = GatewayContainerIp(sel, ts)
<1> DEFINE at(i) == IF i < k THEN i ELSE i + 1
<1>1. /\ Named(sel, ts) \in SUBSET Nat /\ Named(sel, us) \in SUBSET Nat
      /\ Named(sel, ts) \in SUBSET (1 .. Len(ts)) /\ Named(sel, us) \in SUBSET (1 .. Len(ts) + 1)
  BY DEF Named, Extends
<1>2. Len(ts) \in Nat /\ k \in 1 .. Len(ts) + 1
  BY DEF Extends
<1>3. \A i \in Named(sel, ts) : at(i) \in Named(sel, us) /\ us[at(i)] = ts[i]
  <2> TAKE i \in Named(sel, ts)
  <2>1. i \in 1 .. Len(ts) /\ sel \in {ts[i].name, ts[i].service}
    BY DEF Named, Extends
  <2>2. at(i) \in 1 .. Len(ts) + 1 /\ us[at(i)] = ts[i]
    BY <1>2, <2>1 DEF Extends
  <2> HIDE DEF at
  <2> QED BY <2>1, <2>2 DEF Named, Extends
<1>4. \A j \in Named(sel, us) : \E i \in Named(sel, ts) : j = at(i)
  <2> TAKE j \in Named(sel, us)
  <2>1. j \in 1 .. Len(ts) + 1 /\ sel \in {us[j].name, us[j].service}
    BY DEF Named, Extends
  <2>2. j # k
    BY <2>1 DEF Extends
  <2> DEFINE i == IF j < k THEN j ELSE j - 1
  <2>3. i \in 1 .. Len(ts) /\ j = at(i) /\ us[j] = ts[i]
    BY <1>2, <2>1, <2>2 DEF Extends
  <2> HIDE DEF i, at
  <2>4. i \in Named(sel, ts)
    BY <2>1, <2>3 DEF Named, Extends
  <2> QED BY <2>3, <2>4
<1>5. CASE Named(sel, ts) = {}
  <2>1. Named(sel, us) = {}
    BY <1>4, <1>5
  <2> QED BY <1>5, <2>1, ContainerIp
<1>6. CASE Named(sel, ts) # {}
  <2> DEFINE a == First(Named(sel, ts))  b == First(Named(sel, us))
  <2>1. Named(sel, us) # {}
    BY <1>3, <1>6
  <2>2. a \in Named(sel, ts) /\ \A i \in Named(sel, ts) : a <= i
    BY <1>1, <1>6, FirstProperties
  <2>3. b \in Named(sel, us) /\ \A j \in Named(sel, us) : b <= j
    BY <1>1, <2>1, FirstProperties
  <2> HIDE DEF a, b
  <2>4. b = at(a)
    <3>1. b <= at(a)
      BY <1>3, <2>2, <2>3
    <3>2. PICK i \in Named(sel, ts) : b = at(i)
      BY <1>4, <2>3
    <3>3. a <= i
      BY <2>2, <3>2
    <3>4. a \in Nat /\ i \in Nat
      BY <1>1, <2>2, <3>2
    <3> QED BY <1>2, <3>1, <3>2, <3>3, <3>4
  <2>5. us[b] = ts[a]
    BY <1>3, <2>2, <2>4
  <2>6. GatewayContainerIp(sel, ts) = Ipv4(ts[a].addrs)
    BY <1>6, ContainerIp DEF a
  <2>7. GatewayContainerIp(sel, us) = Ipv4(us[b].addrs)
    BY <2>1, ContainerIp DEF b
  <2> QED BY <2>5, <2>6, <2>7
<1> QED BY <1>5, <1>6

\* What an egress resolves to when it is found by a container: an address of
\* a container of that name.
LEMMA IpOfNamed ==
  ASSUME NEW ts, DOMAIN ts \in SUBSET Nat, \A k \in DOMAIN ts : DOMAIN ts[k].addrs \in SUBSET Nat,
         NEW sel, GatewayContainerIp(sel, ts) # Unavailable
  PROVE  \E t \in ToSet(ts) : /\ sel \in {t.name, t.service}
                              /\ GatewayContainerIp(sel, ts) \in ToSet(t.addrs) \cap Addr4
<1>1. Named(sel, ts) # {} /\ Named(sel, ts) \in SUBSET Nat
  BY ContainerIp DEF Named
<1> DEFINE k == First(Named(sel, ts))
<1>2. k \in DOMAIN ts /\ sel \in {ts[k].name, ts[k].service}
  BY <1>1, FirstProperties DEF Named
<1>3. GatewayContainerIp(sel, ts) = Ipv4(ts[k].addrs)
  BY <1>1, ContainerIp
<1> HIDE DEF k
<1> DEFINE addrs == ts[k].addrs
           found == {i \in DOMAIN addrs : addrs[i] \in Addr4}
<1>4. found # {} /\ Ipv4(addrs) = addrs[First(found)]
  BY <1>3 DEF Ipv4
<1>5. found \in SUBSET Nat
  BY <1>2
<1>6. First(found) \in found
  <2> HIDE DEF found
  <2> QED BY <1>4, <1>5, FirstProperties
<1>7. Ipv4(addrs) \in ToSet(addrs) \cap Addr4
  BY <1>4, <1>6 DEF ToSet
<1>8. ts[k] \in ToSet(ts)
  BY <1>2 DEF ToSet
<1> QED BY <1>2, <1>3, <1>7, <1>8
=============================================================================
