--------------------------- MODULE RulesetProofs ---------------------------
(* Theorems about Ruleset: what the script of any plan does to a packet.   *)
EXTENDS Ruleset, ContainersProofs

----------------------------------------------------------------------------
(* Sequences put end to end.                                               *)

LEMMA ConcatElements ==
  ASSUME NEW S, NEW u \in Seq(S), NEW v \in Seq(S)
  PROVE  /\ u \o v \in Seq(S)
         /\ ToSet(u \o v) = ToSet(u) \cup ToSet(v)
<1> DEFINE w == u \o v
           m == Len(u)
           n == Len(v)
<1>1. /\ m \in Nat /\ DOMAIN u = 1 .. m /\ n \in Nat /\ DOMAIN v = 1 .. n
  BY LenProperties
<1>2. w \in Seq(S) /\ Len(w) = m + n
  BY ConcatProperties
<1>3. \A i \in 1 .. m + n : w[i] = IF i <= m THEN u[i] ELSE v[i - m]
  BY ConcatProperties
<1>4. DOMAIN w = 1 .. m + n
  BY <1>2, LenProperties
<1> HIDE DEF w, m, n
<1>5. \A i \in 1 .. m : i \in DOMAIN w /\ w[i] = u[i]
  BY <1>1, <1>3, <1>4
<1>6. \A i \in 1 .. n : i + m \in DOMAIN w /\ w[i + m] = v[i]
  <2> TAKE i \in 1 .. n
  <2>1. i + m \in 1 .. m + n /\ ~(i + m <= m) /\ (i + m) - m = i
    BY <1>1
  <2> QED BY <1>3, <1>4, <2>1
<1>7. \A i \in DOMAIN w : \/ i \in 1 .. m /\ w[i] = u[i]
                          \/ i - m \in 1 .. n /\ w[i] = v[i - m] /\ i = (i - m) + m
  BY <1>1, <1>3, <1>4
<1>8. ToSet(w) = ToSet(u) \cup ToSet(v)
  <2>1. ASSUME NEW x \in ToSet(w) PROVE x \in ToSet(u) \cup ToSet(v)
    BY <1>1, <1>7, <2>1 DEF ToSet
  <2>2. ASSUME NEW x \in ToSet(u) PROVE x \in ToSet(w)
    BY <1>1, <1>5 DEF ToSet
  <2>3. ASSUME NEW x \in ToSet(v) PROVE x \in ToSet(w)
    BY <1>1, <1>6 DEF ToSet
  <2> QED BY <2>1, <2>2, <2>3
<1> QED BY <1>2, <1>8 DEF w

Flattening(ss, n, f) ==
  f = [i \in 1 .. n |-> IF i = 1 THEN ss[i] ELSE f[i - 1] \o ss[i]]

LEMMA FlatteningExists ==
  ASSUME NEW ss
  PROVE  \A n \in Nat : \E f : Flattening(ss, n, f)
<1> DEFINE T == {n \in Nat : \E f : Flattening(ss, n, f)}
<1>1. 0 \in T
  <2>1. Flattening(ss, 0, [i \in 1 .. 0 |-> ss])
    BY DEF Flattening
  <2> QED BY <2>1
<1>2. ASSUME NEW n \in Nat, n \in T PROVE n + 1 \in T
  <2>1. PICK f : Flattening(ss, n, f)
    BY <1>2
  <2> DEFINE g == [i \in 1 .. n + 1 |-> IF i = 1 THEN ss[i] ELSE f[i - 1] \o ss[i]]
  <2>2. \A i \in 1 .. n : f[i] = IF i = 1 THEN ss[i] ELSE f[i - 1] \o ss[i]
    BY <2>1 DEF Flattening
  <2>3. \A i \in 1 .. n : i \in 1 .. n + 1
    BY <1>2
  <2>4. \A i \in 1 .. n : g[i] = f[i]
    BY <2>2, <2>3
  <2>5. \A i \in 1 .. n + 1 : i = 1 \/ i - 1 \in 1 .. n
    BY <1>2
  <2>6. g = [i \in 1 .. n + 1 |-> IF i = 1 THEN ss[i] ELSE g[i - 1] \o ss[i]]
    BY <2>4, <2>5, Zenon
  <2> HIDE DEF g
  <2>7. Flattening(ss, n + 1, g)
    BY <2>6 DEF Flattening
  <2> QED BY <1>2, <2>7
<1> HIDE DEF T
<1>3. Nat \subseteq T
  BY <1>1, <1>2, NatSets
<1> QED BY <1>3 DEF T

LEMMA FlattenRecursive ==
  ASSUME NEW ss, Len(ss) \in Nat \ {0}
  PROVE  \E f : Flattening(ss, Len(ss), f) /\ FlattenSeq(ss) = f[Len(ss)]
<1> DEFINE f == CHOOSE f : Flattening(ss, Len(ss), f)
<1>1. Flattening(ss, Len(ss), f)
  BY FlatteningExists
<1>2. FlattenSeq(ss) = f[Len(ss)]
  BY DEF FlattenSeq, Flattening
<1> QED BY <1>1, <1>2

\* FlattenSeq has the elements of all its parts.
LEMMA FlattenElements ==
  ASSUME NEW S, NEW ss, Len(ss) \in Nat, DOMAIN ss = 1 .. Len(ss),
         \A i \in DOMAIN ss : ss[i] \in Seq(S)
  PROVE  ToSet(FlattenSeq(ss)) = UNION {ToSet(ss[i]) : i \in DOMAIN ss}
<1> DEFINE part(n) == UNION {ToSet(ss[i]) : i \in 1 .. n}
<1>1. CASE Len(ss) = 0
  <2>1. FlattenSeq(ss) = ss /\ DOMAIN ss = {}
    BY <1>1 DEF FlattenSeq
  <2> QED BY <2>1 DEF ToSet
<1>2. CASE Len(ss) # 0
  <2>1. PICK f : Flattening(ss, Len(ss), f) /\ FlattenSeq(ss) = f[Len(ss)]
    BY <1>2, FlattenRecursive
  <2>2. \A i \in 1 .. Len(ss) : f[i] = IF i = 1 THEN ss[i] ELSE f[i - 1] \o ss[i]
    BY <2>1 DEF Flattening
  <2> DEFINE Built(n) == /\ f[n] \in Seq(S)
                         /\ ToSet(f[n]) = part(n)
             T == {n \in Nat : n + 1 <= Len(ss) => Built(n + 1)}
  <2>3. 0 \in T
    <3>1. f[1] = ss[1] /\ 1 \in DOMAIN ss
      BY <1>2, <2>2
    <3>2. part(1) = ToSet(ss[1])
      OBVIOUS
    <3>3. Built(1)
      BY <3>1, <3>2
    <3> HIDE DEF Built
    <3> QED BY <3>3
  <2>4. ASSUME NEW n \in Nat, n \in T PROVE n + 1 \in T
    <3> SUFFICES ASSUME n + 2 <= Len(ss) PROVE Built(n + 2)
      <4> HIDE DEF Built
      <4>1. (n + 1) + 1 = n + 2 /\ n + 1 \in Nat
        OBVIOUS
      <4> QED BY <4>1
    <3>1. Built(n + 1)
      <4> HIDE DEF Built
      <4>1. n + 1 <= Len(ss)
        OBVIOUS
      <4> QED BY <2>4, <4>1
    <3>2. f[n + 2] = f[n + 1] \o ss[n + 2]
      <4>1. n + 2 \in 1 .. Len(ss) /\ n + 2 # 1 /\ (n + 2) - 1 = n + 1
        OBVIOUS
      <4> QED BY <2>2, <4>1
    <3>3. n + 2 \in DOMAIN ss /\ \A i \in 1 .. n + 1 : i \in DOMAIN ss /\ i # n + 2
      OBVIOUS
    <3>4. part(n + 2) = part(n + 1) \cup ToSet(ss[n + 2])
      <4>1. 1 .. n + 2 = 1 .. n + 1 \cup {n + 2}
        OBVIOUS
      <4> QED BY <4>1, Zenon
    <3>5. /\ f[n + 2] \in Seq(S)
          /\ ToSet(f[n + 2]) = part(n + 1) \cup ToSet(ss[n + 2])
      BY <3>1, <3>2, <3>3, ConcatElements
    <3> HIDE DEF part
    <3> QED BY <3>4, <3>5
  <2> HIDE DEF T
  <2>5. \A n \in Nat : n \in T
    BY <2>3, <2>4, NatSets
  <2>6. Built(Len(ss))
    <3> HIDE DEF Built
    <3>1. Len(ss) - 1 \in Nat /\ (Len(ss) - 1) + 1 = Len(ss) /\ Len(ss) <= Len(ss)
      BY <1>2
    <3> QED BY <2>5, <3>1 DEF T
  <2> QED BY <2>1, <2>6
<1> QED BY <1>1, <1>2

----------------------------------------------------------------------------
(* The parts of a script.                                                  *)

Definitions(g, p) ==
  {Definition("via", g, Members4(p))}
  \cup (IF Locals4(g) = {} THEN {} ELSE {Definition("local", g, Locals4(g))})
  \cup (IF Members6(p) = {} THEN {}
        ELSE {Definition("via6", g, Members6(p))}
             \cup (IF Locals6(g) = {} THEN {} ELSE {Definition("local6", g, Locals6(g))}))

Snats(g, p) ==
  IF SnatEnabled(g) /\ p.egress # Unavailable
  THEN {[mark |-> p.mark, out |-> g.egress.interface]} ELSE {}

Kills(g, p) ==
  (IF Members6(p) = {} THEN {}
   ELSE {DropRule(SetName("via6", g), Clause("local6", g, Locals6(g)), None, None)})
  \cup (IF g.egress.interface # None \/ p.egress = Unavailable
        THEN {DropRule(None, None, p.mark, g.egress.interface)} ELSE {})

LEMMA Short ==
  ASSUME NEW S
  PROVE  /\ << >> \in Seq(S) /\ ToSet(<< >>) = {}
         /\ \A x \in S : <<x>> \in Seq(S) /\ ToSet(<<x>>) = {x}
<1>1. << >> \in Seq(S) /\ DOMAIN << >> = {}
  BY EmptySeq
<1>2. ASSUME NEW x \in S PROVE <<x>> \in Seq(S) /\ ToSet(<<x>>) = {x}
  BY DEF ToSet
<1> QED BY <1>1, <1>2 DEF ToSet

LEMMA ExclusionProperties ==
  ASSUME NEW S, NEW kind, NEW g, NEW nets, nets # {} => Definition(kind, g, nets) \in S
  PROVE  /\ Exclusion(kind, g, nets) \in Seq(S)
         /\ ToSet(Exclusion(kind, g, nets)) =
              IF nets = {} THEN {} ELSE {Definition(kind, g, nets)}
<1>1. CASE nets = {}
  BY <1>1, Short DEF Exclusion
<1>2. CASE nets # {}
  BY <1>2, Short DEF Exclusion
<1> QED BY <1>1, <1>2

LEMMA SetsProperties ==
  ASSUME NEW g, NEW p, NEW S, Definitions(g, p) \subseteq S
  PROVE  Sets(g, p) \in Seq(S) /\ ToSet(Sets(g, p)) = Definitions(g, p)
<1> DEFINE via4 == Definition("via", g, Members4(p))
           via6 == Definition("via6", g, Members6(p))
           loc4 == Exclusion("local", g, Locals4(g))
           loc6 == Exclusion("local6", g, Locals6(g))
           one4 == <<via4>>
           one6 == <<via6>>
           rest == IF Members6(p) = {} THEN << >> ELSE one6 \o loc6
           part == one4 \o loc4
           all  == part \o rest
<1>1. /\ via4 \in S
      /\ Locals4(g) # {} => Definition("local", g, Locals4(g)) \in S
      /\ Members6(p) # {} => via6 \in S
      /\ Members6(p) # {} /\ Locals6(g) # {} => Definition("local6", g, Locals6(g)) \in S
  BY DEF Definitions
<1> HIDE DEF via4, via6
<1>2. /\ one4 \in Seq(S) /\ ToSet(one4) = {via4}
      /\ Members6(p) # {} => one6 \in Seq(S) /\ ToSet(one6) = {via6}
  BY <1>1, Short
<1>3. /\ loc4 \in Seq(S)
      /\ ToSet(loc4) = IF Locals4(g) = {} THEN {} ELSE {Definition("local", g, Locals4(g))}
  BY <1>1, ExclusionProperties
<1>4. Members6(p) # {} =>
        /\ loc6 \in Seq(S)
        /\ ToSet(loc6) = IF Locals6(g) = {} THEN {} ELSE {Definition("local6", g, Locals6(g))}
  BY <1>1, ExclusionProperties
<1>0. Sets(g, p) = all
  BY DEF Sets, via4, via6
<1> HIDE DEF loc4, loc6, one4, one6
<1>5. /\ rest \in Seq(S)
      /\ ToSet(rest) = IF Members6(p) = {} THEN {}
                       ELSE {via6} \cup (IF Locals6(g) = {} THEN {}
                                         ELSE {Definition("local6", g, Locals6(g))})
  <2>1. CASE Members6(p) = {}
    BY <2>1, Short
  <2>2. CASE Members6(p) # {}
    <3>1. /\ one6 \o loc6 \in Seq(S)
          /\ ToSet(one6 \o loc6) = ToSet(one6) \cup ToSet(loc6)
      BY <1>2, <1>4, <2>2, ConcatElements
    <3> QED BY <1>2, <1>4, <2>2, <3>1
  <2> QED BY <2>1, <2>2
<1> HIDE DEF rest
<1>6. part \in Seq(S) /\ ToSet(part) = {via4} \cup ToSet(loc4)
  BY <1>2, <1>3, ConcatElements
<1> HIDE DEF part
<1>7. all \in Seq(S) /\ ToSet(all) = ToSet(part) \cup ToSet(rest)
  BY <1>5, <1>6, ConcatElements
<1> HIDE DEF all
<1>8. ToSet(all) = Definitions(g, p)
  BY <1>3, <1>5, <1>6, <1>7 DEF Definitions, via4, via6
<1> QED BY <1>0, <1>7, <1>8

LEMMA SnatsProperties ==
  ASSUME NEW g, NEW p, NEW S, Snats(g, p) \subseteq S
  PROVE  SnatRules(g, p) \in Seq(S) /\ ToSet(SnatRules(g, p)) = Snats(g, p)
<1>1. CASE SnatEnabled(g) /\ p.egress # Unavailable
  BY <1>1, Short DEF SnatRules, Snats
<1>2. CASE ~(SnatEnabled(g) /\ p.egress # Unavailable)
  BY <1>2, Short DEF SnatRules, Snats
<1> QED BY <1>1, <1>2

LEMMA KillsProperties ==
  ASSUME NEW g, NEW p, NEW S, Kills(g, p) \subseteq S
  PROVE  KillRules(g, p) \in Seq(S) /\ ToSet(KillRules(g, p)) = Kills(g, p)
<1> DEFINE r6 == DropRule(SetName("via6", g), Clause("local6", g, Locals6(g)), None, None)
           r4 == DropRule(None, None, p.mark, g.egress.interface)
           stops == g.egress.interface # None \/ p.egress = Unavailable
           u == IF Members6(p) = {} THEN << >> ELSE <<r6>>
           v == IF stops THEN <<r4>> ELSE << >>
<1>1. (Members6(p) # {} => r6 \in S) /\ (stops => r4 \in S)
  BY DEF Kills
<1>2. KillRules(g, p) = u \o v
  BY DEF KillRules
<1>3. Kills(g, p) = (IF Members6(p) = {} THEN {} ELSE {r6}) \cup (IF stops THEN {r4} ELSE {})
  BY DEF Kills
<1> HIDE DEF r6, r4, stops
<1>4. u \in Seq(S) /\ ToSet(u) = IF Members6(p) = {} THEN {} ELSE {r6}
  <2>1. CASE Members6(p) = {}
    BY <2>1, Short
  <2>2. CASE Members6(p) # {}
    BY <1>1, <2>2, Short
  <2> QED BY <2>1, <2>2
<1>5. v \in Seq(S) /\ ToSet(v) = IF stops THEN {r4} ELSE {}
  <2>1. CASE stops
    BY <1>1, <2>1, Short
  <2>2. CASE ~stops
    BY <2>2, Short
  <2> QED BY <2>1, <2>2
<1> HIDE DEF u, v
<1>6. u \o v \in Seq(S) /\ ToSet(u \o v) = ToSet(u) \cup ToSet(v)
  BY <1>4, <1>5, ConcatElements
<1> QED BY <1>2, <1>3, <1>4, <1>5, <1>6

LEMMA ScriptParts ==
  ASSUME NEW gs, Len(gs) \in Nat, DOMAIN gs = 1 .. Len(gs), NEW plan,
         NEW s, s = Script(gs, plan)
  PROVE  /\ ToSet(s.sets)  = UNION {Definitions(gs[i], plan[i]) : i \in DOMAIN gs}
         /\ ToSet(s.snats) = UNION {Snats(gs[i], plan[i]) : i \in DOMAIN gs}
         /\ ToSet(s.kills) = UNION {Kills(gs[i], plan[i]) : i \in DOMAIN gs}
         /\ DOMAIN s.marks = DOMAIN gs
         /\ \A i \in DOMAIN gs : s.marks[i] = MarkRule(gs[i], plan[i])
<1> DEFINE sets  == [i \in DOMAIN gs |-> Sets(gs[i], plan[i])]
           snats == [i \in DOMAIN gs |-> SnatRules(gs[i], plan[i])]
           kills == [i \in DOMAIN gs |-> KillRules(gs[i], plan[i])]
<1>1. /\ s.sets = FlattenSeq(sets) /\ s.snats = FlattenSeq(snats) /\ s.kills = FlattenSeq(kills)
      /\ s.marks = [i \in DOMAIN gs |-> MarkRule(gs[i], plan[i])]
  BY DEF Script
<1> DEFINE S == UNION {Definitions(gs[i], plan[i]) : i \in DOMAIN gs}
           N == UNION {Snats(gs[i], plan[i]) : i \in DOMAIN gs}
           K == UNION {Kills(gs[i], plan[i]) : i \in DOMAIN gs}
<1>2. /\ Len(sets) = Len(gs) /\ DOMAIN sets = DOMAIN gs
      /\ Len(snats) = Len(gs) /\ DOMAIN snats = DOMAIN gs
      /\ Len(kills) = Len(gs) /\ DOMAIN kills = DOMAIN gs
  OBVIOUS
<1>3. \A i \in DOMAIN gs :
        /\ sets[i] \in Seq(S) /\ ToSet(sets[i]) = Definitions(gs[i], plan[i])
  <2> TAKE i \in DOMAIN gs
  <2>1. Definitions(gs[i], plan[i]) \subseteq S
    OBVIOUS
  <2>2. sets[i] = Sets(gs[i], plan[i])
    OBVIOUS
  <2> HIDE DEF sets, S
  <2> QED BY <2>1, <2>2, SetsProperties
<1>4. \A i \in DOMAIN gs : snats[i] \in Seq(N) /\ ToSet(snats[i]) = Snats(gs[i], plan[i])
  <2> TAKE i \in DOMAIN gs
  <2>1. Snats(gs[i], plan[i]) \subseteq N
    OBVIOUS
  <2>2. snats[i] = SnatRules(gs[i], plan[i])
    OBVIOUS
  <2> HIDE DEF snats, N
  <2> QED BY <2>1, <2>2, SnatsProperties
<1>5. \A i \in DOMAIN gs : kills[i] \in Seq(K) /\ ToSet(kills[i]) = Kills(gs[i], plan[i])
  <2> TAKE i \in DOMAIN gs
  <2>1. Kills(gs[i], plan[i]) \subseteq K
    OBVIOUS
  <2>2. kills[i] = KillRules(gs[i], plan[i])
    OBVIOUS
  <2> HIDE DEF kills, K
  <2> QED BY <2>1, <2>2, KillsProperties
<1> HIDE DEF sets, snats, kills
<1>6. ToSet(s.sets) = S
  <2>1. ToSet(FlattenSeq(sets)) = UNION {ToSet(sets[i]) : i \in DOMAIN sets}
    <3> HIDE DEF S
    <3> QED BY <1>2, <1>3, FlattenElements
  <2>2. {ToSet(sets[i]) : i \in DOMAIN sets} = {Definitions(gs[i], plan[i]) : i \in DOMAIN gs}
    BY <1>2, <1>3
  <2> QED BY <1>1, <2>1, <2>2
<1>7. ToSet(s.snats) = N
  <2>1. ToSet(FlattenSeq(snats)) = UNION {ToSet(snats[i]) : i \in DOMAIN snats}
    <3> HIDE DEF N
    <3> QED BY <1>2, <1>4, FlattenElements
  <2>2. {ToSet(snats[i]) : i \in DOMAIN snats} = {Snats(gs[i], plan[i]) : i \in DOMAIN gs}
    BY <1>2, <1>4
  <2> QED BY <1>1, <2>1, <2>2
<1>8. ToSet(s.kills) = K
  <2>1. ToSet(FlattenSeq(kills)) = UNION {ToSet(kills[i]) : i \in DOMAIN kills}
    <3> HIDE DEF K
    <3> QED BY <1>2, <1>5, FlattenElements
  <2>2. {ToSet(kills[i]) : i \in DOMAIN kills} = {Kills(gs[i], plan[i]) : i \in DOMAIN gs}
    BY <1>2, <1>5
  <2> QED BY <1>1, <2>1, <2>2
<1> QED BY <1>1, <1>6, <1>7, <1>8

----------------------------------------------------------------------------
(* What each rule matches.                                                 *)

LEMMA HeldByName ==
  ASSUME NEW s, NEW name, NEW x
  PROVE  Holds(s, name, x) <=> \E e \in ToSet(s.sets) : e.name = name /\ x \in e.elems
  BY DEF Holds, ToSet

HeldIn(g, p, kind, x) == \E e \in Definitions(g, p) : e.name = SetName(kind, g) /\ x \in e.elems

Same(gs, i, j) == Sanitized[gs[i].name] = Sanitized[gs[j].name]

\* A set named for a gateway, if there is one, holds what the gateways of that
\* identifier put in.
LEMMA HeldBySame ==
  ASSUME NEW gs, Len(gs) \in Nat, DOMAIN gs = 1 .. Len(gs), NEW plan,
         NEW s, s = Script(gs, plan), NEW i \in DOMAIN gs, NEW kind, NEW x
  PROVE  Holds(s, SetName(kind, gs[i]), x) <=>
           \E j \in DOMAIN gs : Same(gs, i, j) /\ HeldIn(gs[j], plan[j], kind, x)
<1>1. ToSet(s.sets) = UNION {Definitions(gs[j], plan[j]) : j \in DOMAIN gs}
  BY ScriptParts
<1>2. \A g, p : \A e \in Definitions(g, p) : e.name[2] = Sanitized[g.name]
  <2>1. \A k, g, elems : Definition(k, g, elems).name[2] = Sanitized[g.name]
    BY DEF Definition, SetName
  <2> QED BY <2>1 DEF Definitions
<1>3. \A j \in DOMAIN gs : /\ SetName(kind, gs[j])[2] = Sanitized[gs[j].name]
                           /\ Same(gs, i, j) => SetName(kind, gs[i]) = SetName(kind, gs[j])
  BY DEF SetName, Same
<1>4. \A j \in DOMAIN gs : \A e \in Definitions(gs[j], plan[j]) :
        e.name = SetName(kind, gs[i]) => Same(gs, i, j)
  BY <1>2, <1>3 DEF Same
<1> QED BY <1>1, <1>3, <1>4, HeldByName DEF HeldIn

LEMMA KindsHeld ==
  ASSUME NEW g, NEW p, NEW x
  PROVE  /\ HeldIn(g, p, "via", x) <=> x \in Members4(p)
         /\ HeldIn(g, p, "local", x) <=> x \in Locals4(g)
         /\ HeldIn(g, p, "via6", x) <=> x \in Members6(p)
         /\ HeldIn(g, p, "local6", x) <=> Members6(p) # {} /\ x \in Locals6(g)
<1>1. \A k, l \in {"via", "local", "via6", "local6"} : \A elems :
        /\ Definition(k, g, elems).elems = elems
        /\ Definition(k, g, elems).name = SetName(l, g) <=> k = l
  BY DEF Definition, SetName
<1>2. \A elems : /\ Definition("via", g, elems).elems = elems
                 /\ Definition("local", g, elems).elems = elems
                 /\ Definition("via6", g, elems).elems = elems
                 /\ Definition("local6", g, elems).elems = elems
  BY <1>1
<1> QED BY <1>1, <1>2 DEF Definitions, HeldIn

\* What the mark rule of gateway i, and the IPv6 drop rule if it has one, match.
Marked4(gs, plan, i, a, d) ==
  /\ \E j \in DOMAIN gs : Same(gs, i, j) /\ a \in Members4(plan[j])
  /\ \/ Locals4(gs[i]) = {}
     \/ \A j \in DOMAIN gs : Same(gs, i, j) => d \notin Locals4(gs[j])
Dropped6(gs, plan, i, a, d) ==
  /\ Members6(plan[i]) # {}
  /\ \E j \in DOMAIN gs : Same(gs, i, j) /\ a \in Members6(plan[j])
  /\ \/ Locals6(gs[i]) = {}
     \/ \A j \in DOMAIN gs : Same(gs, i, j) /\ Members6(plan[j]) # {} => d \notin Locals6(gs[j])

LEMMA RulesMatch ==
  ASSUME NEW gs, Len(gs) \in Nat, DOMAIN gs = 1 .. Len(gs), NEW plan,
         NEW s, s = Script(gs, plan), NEW i \in DOMAIN gs, gs[i].name \in GatewayName,
         NEW a, NEW d
  PROVE  /\ Matches(s, s.marks[i], a, d) <=> Marked4(gs, plan, i, a, d)
         /\ Members6(plan[i]) # {} =>
              (Matches(s, DropRule(SetName("via6", gs[i]), Clause("local6", gs[i], Locals6(gs[i])),
                                   None, None), a, d)
                 <=> Dropped6(gs, plan, i, a, d))
<1> DEFINE g == gs[i]
           r6 == DropRule(SetName("via6", g), Clause("local6", g, Locals6(g)), None, None)
<1>1. \A kind \in {"via", "local", "via6", "local6"} : SetName(kind, g) # None
  BY RulesetAssumption DEF SetName
<1>2. /\ Holds(s, SetName("via", gs[i]), a) <=>
           \E j \in DOMAIN gs : Same(gs, i, j) /\ HeldIn(gs[j], plan[j], "via", a)
      /\ Holds(s, SetName("local", gs[i]), d) <=>
           \E j \in DOMAIN gs : Same(gs, i, j) /\ HeldIn(gs[j], plan[j], "local", d)
      /\ Holds(s, SetName("via6", gs[i]), a) <=>
           \E j \in DOMAIN gs : Same(gs, i, j) /\ HeldIn(gs[j], plan[j], "via6", a)
      /\ Holds(s, SetName("local6", gs[i]), d) <=>
           \E j \in DOMAIN gs : Same(gs, i, j) /\ HeldIn(gs[j], plan[j], "local6", d)
  BY HeldBySame
<1>3. /\ Holds(s, SetName("via", gs[i]), a) <=>
           \E j \in DOMAIN gs : Same(gs, i, j) /\ a \in Members4(plan[j])
      /\ Holds(s, SetName("local", gs[i]), d) <=>
           \E j \in DOMAIN gs : Same(gs, i, j) /\ d \in Locals4(gs[j])
      /\ Holds(s, SetName("via6", gs[i]), a) <=>
           \E j \in DOMAIN gs : Same(gs, i, j) /\ a \in Members6(plan[j])
      /\ Holds(s, SetName("local6", gs[i]), d) <=>
           \E j \in DOMAIN gs : Same(gs, i, j) /\ Members6(plan[j]) # {} /\ d \in Locals6(gs[j])
  BY <1>2, KindsHeld
<1>4. s.marks[i] = MarkRule(gs[i], plan[i])
  BY ScriptParts
<1>5. Matches(s, s.marks[i], a, d) <=> Marked4(gs, plan, i, a, d)
  <2>1. s.marks[i].src = SetName("via", g) /\ s.marks[i].except = Clause("local", g, Locals4(g))
    BY <1>4 DEF MarkRule
  <2>2. CASE Locals4(g) = {}
    BY <1>1, <1>3, <2>1, <2>2 DEF Matches, Clause, Marked4
  <2>3. CASE Locals4(g) # {}
    BY <1>1, <1>3, <2>1, <2>3 DEF Matches, Clause, Marked4
  <2> QED BY <2>2, <2>3
<1>6. ASSUME Members6(plan[i]) # {}
      PROVE  Matches(s, r6, a, d) <=> Dropped6(gs, plan, i, a, d)
  <2>1. r6.src = SetName("via6", g) /\ r6.except = Clause("local6", g, Locals6(g))
    BY DEF DropRule
  <2> HIDE DEF r6
  <2>2. CASE Locals6(g) = {}
    BY <1>1, <1>3, <1>6, <2>1, <2>2 DEF Matches, Clause, Dropped6
  <2>3. CASE Locals6(g) # {}
    BY <1>1, <1>3, <1>6, <2>1, <2>3 DEF Matches, Clause, Dropped6
  <2> QED BY <2>2, <2>3
<1> QED BY <1>5, <1>6 DEF g

DropsOf(gs, plan, i, mark, a, d, out) ==
  \/ Dropped6(gs, plan, i, a, d)
  \/ /\ gs[i].egress.interface # None \/ plan[i].egress = Unavailable
     /\ plan[i].mark = mark
     /\ gs[i].egress.interface = None \/ gs[i].egress.interface # out
SnatsOf(gs, plan, i, mark, out) ==
  /\ SnatEnabled(gs[i]) /\ plan[i].egress # Unavailable
  /\ plan[i].mark = mark
  /\ gs[i].egress.interface \in {None, out}

\* The kill-switch chain and the masquerade chain, gateway by gateway.
LEMMA ChainsMatch ==
  ASSUME NEW gs, Len(gs) \in Nat, DOMAIN gs = 1 .. Len(gs), NEW plan,
         NEW s, s = Script(gs, plan), Names(gs) \subseteq GatewayName,
         \A i \in DOMAIN gs : plan[i].mark # None,
         NEW a, NEW d, NEW out
  PROVE  /\ Drops(s, a, d, out) <=>
              \E i \in DOMAIN gs : DropsOf(gs, plan, i, MarkSet(s, a, d), a, d, out)
         /\ Masquerades(s, a, d, out) <=>
              \E i \in DOMAIN gs : SnatsOf(gs, plan, i, MarkSet(s, a, d), out)
<1> DEFINE Hits(r) == /\ Matches(s, r, a, d) /\ r.mark \in {None, MarkSet(s, a, d)}
                      /\ r.out = None \/ r.out # out
           r6(i) == DropRule(SetName("via6", gs[i]), Clause("local6", gs[i], Locals6(gs[i])),
                             None, None)
           r4(i) == DropRule(None, None, plan[i].mark, gs[i].egress.interface)
<1>1. Drops(s, a, d, out) <=> \E r \in ToSet(s.kills) : Hits(r)
  BY DEF Drops, ToSet
<1>2. (\E r \in ToSet(s.kills) : Hits(r)) <=>
        \E i \in DOMAIN gs : \E r \in Kills(gs[i], plan[i]) : Hits(r)
  <2> HIDE DEF Hits
  <2>1. ToSet(s.kills) = UNION {Kills(gs[i], plan[i]) : i \in DOMAIN gs}
    BY ScriptParts
  <2> QED BY <2>1
<1>3. ASSUME NEW i \in DOMAIN gs
      PROVE  (\E r \in Kills(gs[i], plan[i]) : Hits(r)) <=>
               DropsOf(gs, plan, i, MarkSet(s, a, d), a, d, out)
  <2>1. ASSUME Members6(plan[i]) # {}
        PROVE  Hits(r6(i)) <=> Dropped6(gs, plan, i, a, d)
    <3>1. gs[i].name \in GatewayName
      BY DEF Names
    <3>2. Matches(s, r6(i), a, d) <=> Dropped6(gs, plan, i, a, d)
      BY <2>1, <3>1, RulesMatch
    <3>3. r6(i).mark = None /\ r6(i).out = None
      BY DEF DropRule
    <3> HIDE DEF r6
    <3> QED BY <3>2, <3>3
  <2>2. Hits(r4(i)) <=> /\ plan[i].mark = MarkSet(s, a, d)
                        /\ gs[i].egress.interface = None \/ gs[i].egress.interface # out
    <3>1. /\ r4(i).src = None /\ r4(i).except = None
          /\ r4(i).mark = plan[i].mark /\ r4(i).out = gs[i].egress.interface
      BY DEF DropRule
    <3> HIDE DEF r4
    <3> QED BY <3>1 DEF Matches
  <2>3. Kills(gs[i], plan[i]) =
          (IF Members6(plan[i]) = {} THEN {} ELSE {r6(i)})
          \cup (IF gs[i].egress.interface # None \/ plan[i].egress = Unavailable
                THEN {r4(i)} ELSE {})
    BY DEF Kills
  <2> HIDE DEF Hits, r6, r4
  <2>4. Dropped6(gs, plan, i, a, d) => Members6(plan[i]) # {}
    BY DEF Dropped6
  <2> QED BY <2>1, <2>2, <2>3, <2>4 DEF DropsOf
<1>4. Drops(s, a, d, out) <=>
        \E i \in DOMAIN gs : DropsOf(gs, plan, i, MarkSet(s, a, d), a, d, out)
  <2> HIDE DEF Hits
  <2> QED BY <1>1, <1>2, <1>3
<1> DEFINE Masks(r) == r.mark = MarkSet(s, a, d) /\ r.out \in {None, out}
<1>5. Masquerades(s, a, d, out) <=> \E r \in ToSet(s.snats) : Masks(r)
  BY DEF Masquerades, ToSet
<1>6. (\E r \in ToSet(s.snats) : Masks(r)) <=>
        \E i \in DOMAIN gs : \E r \in Snats(gs[i], plan[i]) : Masks(r)
  <2> HIDE DEF Masks
  <2>1. ToSet(s.snats) = UNION {Snats(gs[i], plan[i]) : i \in DOMAIN gs}
    BY ScriptParts
  <2> QED BY <2>1
<1>7. ASSUME NEW i \in DOMAIN gs
      PROVE  (\E r \in Snats(gs[i], plan[i]) : Masks(r)) <=>
               SnatsOf(gs, plan, i, MarkSet(s, a, d), out)
  <2> DEFINE rule == [mark |-> plan[i].mark, out |-> gs[i].egress.interface]
  <2>1. rule.mark = plan[i].mark /\ rule.out = gs[i].egress.interface
    OBVIOUS
  <2>2. Snats(gs[i], plan[i]) =
          IF SnatEnabled(gs[i]) /\ plan[i].egress # Unavailable THEN {rule} ELSE {}
    BY DEF Snats
  <2> HIDE DEF rule
  <2> QED BY <2>1, <2>2 DEF SnatsOf
<1> HIDE DEF Masks
<1> QED BY <1>4, <1>5, <1>6, <1>7

----------------------------------------------------------------------------
(* The script of a listing.                                                *)

LEMMA LocalsTyped ==
  ASSUME NEW g \in Candidates, ValidGateway(g)
  PROVE  /\ Locals(g) \subseteq Net4 \cup Net6
         /\ g.egress.interface # None => g.egress.interface # Unavailable
<1>1. g.locals \subseteq Net4 \cup Net6
      /\ (g.egress.interface # None => g.egress.interface # Unavailable)
  <2>1. CASE g \in ToSet(Config)
    BY <2>1, RulesetAssumption DEF ToSet
  <2>2. ASSUME NEW t \in Instances, g = DiscoveredGateway(t)
        PROVE  g.locals \subseteq Net4 \cup Net6 /\ g.egress.interface = None
    <3>0. PICK c \in Declared : \E as \in Leases[c.name] : t = Leased(c, as)
      BY DEF Instances
    <3>1. PICK as \in Leases[c.name] : t = Leased(c, as)
      BY <3>0
    <3>2. t.addrs = as /\ t.knobs = c.knobs
      BY <3>1, LeasedProperties
    <3>3. c.knobs.locals \subseteq Net4 \cup Net6 \cup {Bad}
      BY ContainersAssumption DEF Container
    <3>4. g.locals = t.knobs.locals /\ g.egress.interface = None
      BY <2>2 DEF DiscoveredGateway
    <3>5. Bad \notin g.locals
      BY DEF ValidGateway
    <3> QED BY <3>2, <3>3, <3>4, <3>5
  <2> QED BY <2>1, <2>2 DEF Candidates
<1> QED BY <1>1, GatewaysAssumption DEF Locals

LEMMA OneOwner ==
  ASSUME NEW ts, Listed(ts), NEW gs, NEW g, NEW t \in ToSet(ts), NEW a \in ToSet(t.addrs)
  PROVE  a \in Members(gs, g, ts) <=> Assignment(gs, t) = g.name
<1>1. PICK k \in DOMAIN ts : ts[k] = t
  BY DEF ToSet
<1>2. \A j \in DOMAIN ts : j # k => ToSet(ts[j].addrs) \cap ToSet(ts[k].addrs) = {}
  BY DEF Listed, Disjoint, Apart
<1>3. \A j \in DOMAIN ts : a \in ToSet(ts[j].addrs) => j = k
  BY <1>1, <1>2
<1>4. a \in Members(gs, g, ts) <=>
        \E j \in DOMAIN ts : Assignment(gs, ts[j]) = g.name /\ a \in ToSet(ts[j].addrs)
  BY DEF Members
<1> QED BY <1>1, <1>3, <1>4

\* Of finitely many gateways one is the last.
LEMMA LatestExists ==
  ASSUME NEW n \in Nat, NEW H \in SUBSET (1 .. n)
  PROVE  /\ H = {} <=> Latest(H) = {}
         /\ Latest(H) \subseteq H
         /\ \A i, j \in Latest(H) : i = j
<1> DEFINE T == {k \in Nat : \A G \in SUBSET (1 .. k) : G # {} => Latest(G) # {}}
<1>1. 0 \in T
  <2>1. \A G \in SUBSET (1 .. 0) : G = {}
    OBVIOUS
  <2> QED BY <2>1
<1>2. ASSUME NEW k \in Nat, k \in T PROVE k + 1 \in T
  <2> SUFFICES ASSUME NEW G \in SUBSET (1 .. k + 1), G # {} PROVE Latest(G) # {}
    OBVIOUS
  <2>1. CASE k + 1 \in G
    <3>1. \A j \in G : j <= k + 1
      OBVIOUS
    <3> QED BY <2>1, <3>1 DEF Latest
  <2>2. CASE k + 1 \notin G
    <3>1. G \in SUBSET (1 .. k)
      BY <2>2
    <3> QED BY <1>2, <3>1
  <2> QED BY <2>1, <2>2
<1> HIDE DEF T
<1>3. n \in T
  BY <1>1, <1>2, NatSets
<1>4. H # {} => Latest(H) # {}
  BY <1>3 DEF T
<1>5. \A i, j \in Latest(H) : i = j
  BY DEF Latest
<1> QED BY <1>4, <1>5 DEF Latest

\* The mark that a packet leaves the mark chain with is that of the last rule
\* that matches it.
Hits(s, a, d) == {i \in DOMAIN s.marks : Matches(s, s.marks[i], a, d)}

LEMMA LatestMark ==
  ASSUME NEW n \in Nat, NEW s, DOMAIN s.marks = 1 .. n, NEW a, NEW d
  PROVE  /\ Latest(Hits(s, a, d)) = {} => MarkSet(s, a, d) = None
         /\ \A i \in Latest(Hits(s, a, d)) : MarkSet(s, a, d) = s.marks[i].mark
<1> DEFINE hits == Hits(s, a, d)
<1>0. hits = Hits(s, a, d)
  OBVIOUS
<1>1. hits \in SUBSET (1 .. n)
  BY DEF Hits
<1>2. MarkSet(s, a, d) =
        IF hits = {} THEN None ELSE s.marks[CHOOSE k \in hits : \A j \in hits : j <= k].mark
  BY DEF MarkSet, Hits
<1> HIDE DEF hits
<1>3. ASSUME NEW i \in Latest(hits) PROVE MarkSet(s, a, d) = s.marks[i].mark
  <2>1. i \in hits /\ \A j \in hits : j <= i
    BY <1>3 DEF Latest
  <2> DEFINE c == CHOOSE k \in hits : \A j \in hits : j <= k
  <2>2. c \in hits /\ \A l \in hits : l <= c
    BY <2>1
  <2>3. MarkSet(s, a, d) = s.marks[c].mark
    BY <1>2, <2>1
  <2> HIDE DEF c
  <2>4. i <= c /\ c <= i /\ i \in Nat /\ c \in Nat
    BY <1>1, <2>1, <2>2
  <2>5. i = c
    BY <2>4
  <2> QED BY <2>3, <2>5
<1>4. Latest(hits) = {} => hits = {}
  BY <1>1, LatestExists
<1> QED BY <1>0, <1>2, <1>3, <1>4

\* Every reference of a script is to a set that it defines.
LEMMA Referenced ==
  ASSUME NEW gs, Len(gs) \in Nat, DOMAIN gs = 1 .. Len(gs), NEW plan,
         NEW s, s = Script(gs, plan)
  PROVE  References(s) \ {None} \subseteq {s.sets[k].name : k \in DOMAIN s.sets}
<1>1. {s.sets[k].name : k \in DOMAIN s.sets} = {e.name : e \in ToSet(s.sets)}
  BY DEF ToSet
<1>2. \A i \in DOMAIN gs : Definitions(gs[i], plan[i]) \subseteq ToSet(s.sets)
  <2>1. ToSet(s.sets) = UNION {Definitions(gs[i], plan[i]) : i \in DOMAIN gs}
    BY ScriptParts
  <2> QED BY <2>1
<1>3. \A kind, g, elems : Definition(kind, g, elems).name = SetName(kind, g)
  BY DEF Definition
<1>4. \A i \in DOMAIN gs :
        LET names == {e.name : e \in Definitions(gs[i], plan[i])}
        IN  /\ {s.marks[i].src, s.marks[i].except} \subseteq names \cup {None}
            /\ \A r \in Kills(gs[i], plan[i]) : {r.src, r.except} \subseteq names \cup {None}
  <2> TAKE i \in DOMAIN gs
  <2> DEFINE g == gs[i]  p == plan[i]  names == {e.name : e \in Definitions(g, p)}
  <2>1. s.marks[i] = MarkRule(g, p)
    BY ScriptParts
  <2>2. \A e \in Definitions(g, p) : e.name \in names
    OBVIOUS
  <2> HIDE DEF g, p, names
  <2>3. /\ SetName("via", g) \in names
        /\ Locals4(g) # {} => SetName("local", g) \in names
        /\ Members6(p) # {} => SetName("via6", g) \in names
        /\ Members6(p) # {} /\ Locals6(g) # {} => SetName("local6", g) \in names
    <3>1. /\ Definition("via", g, Members4(p)) \in Definitions(g, p)
          /\ Locals4(g) # {} => Definition("local", g, Locals4(g)) \in Definitions(g, p)
          /\ Members6(p) # {} => Definition("via6", g, Members6(p)) \in Definitions(g, p)
          /\ Members6(p) # {} /\ Locals6(g) # {} =>
               Definition("local6", g, Locals6(g)) \in Definitions(g, p)
      BY DEF Definitions
    <3> QED BY <1>3, <2>2, <3>1
  <2>4. {s.marks[i].src, s.marks[i].except} \subseteq names \cup {None}
    BY <2>1, <2>3 DEF MarkRule, Clause
  <2>5. \A r \in Kills(g, p) : {r.src, r.except} \subseteq names \cup {None}
    BY <2>3 DEF Kills, DropRule, Clause
  <2> QED BY <2>4, <2>5 DEF g, p, names
<1>5. \A i \in DOMAIN gs : {e.name : e \in Definitions(gs[i], plan[i])}
                             \subseteq {e.name : e \in ToSet(s.sets)}
  BY <1>2
<1>6. ASSUME NEW k \in DOMAIN s.kills
      PROVE  {s.kills[k].src, s.kills[k].except} \subseteq {e.name : e \in ToSet(s.sets)} \cup {None}
  <2>1. s.kills[k] \in ToSet(s.kills)
    BY DEF ToSet
  <2>2. ToSet(s.kills) = UNION {Kills(gs[i], plan[i]) : i \in DOMAIN gs}
    BY ScriptParts
  <2>3. PICK i \in DOMAIN gs : s.kills[k] \in Kills(gs[i], plan[i])
    BY <2>1, <2>2
  <2> DEFINE r == s.kills[k]  own == {e.name : e \in Definitions(gs[i], plan[i])}
  <2>4. {r.src, r.except} \subseteq own \cup {None}
    BY <1>4, <2>3
  <2>5. own \subseteq {e.name : e \in ToSet(s.sets)}
    BY <1>5
  <2> QED BY <2>4, <2>5
<1>7. ASSUME NEW i \in DOMAIN s.marks
      PROVE  {s.marks[i].src, s.marks[i].except} \subseteq {e.name : e \in ToSet(s.sets)} \cup {None}
  <2>1. i \in DOMAIN gs
    BY ScriptParts
  <2> QED BY <1>4, <1>5, <2>1
<1>8. \A x \in References(s) : x \in {e.name : e \in ToSet(s.sets)} \cup {None}
  <2> HIDE DEF ToSet
  <2>1. \A x \in References(s) : \/ \E i \in DOMAIN s.marks : x \in {s.marks[i].src, s.marks[i].except}
                               \/ \E k \in DOMAIN s.kills : x \in {s.kills[k].src, s.kills[k].except}
    BY DEF References
  <2> QED BY <1>6, <1>7, <2>1
<1> QED BY <1>1, <1>8

\* What the chains do with one packet, in terms of the twins of the gateway that
\* the container of address a is assigned to.
Packet(gs, plan, s, own, a, d, out) ==
  LET twins == Twins(gs, own)
      hits  == {i \in DOMAIN gs : Marked4(gs, plan, i, a, d)}
  IN  /\ \A i \in DOMAIN gs :
           /\ plan[i].mark # None
           /\ \A j \in DOMAIN gs : plan[i].mark = plan[j].mark => i = j
           /\ gs[i].egress.interface # None => plan[i].egress # Unavailable
           /\ Marked4(gs, plan, i, a, d) <=>
                /\ a \in Addr4 /\ i \in twins
                /\ Locals4(gs[i]) = {} \/ \A j \in twins : d \notin Locals4(gs[j])
           /\ Dropped6(gs, plan, i, a, d) <=>
                /\ a \in Addr6 /\ i \in twins /\ Members6(plan[i]) # {}
                /\ \/ Locals6(gs[i]) = {}
                   \/ \A j \in twins : Members6(plan[j]) # {} => d \notin Locals6(gs[j])
           /\ a \in Addr4 => (d \in Locals(gs[i]) <=> d \in Locals4(gs[i]))
           /\ a \in Addr6 => (d \in Locals(gs[i]) <=> d \in Locals6(gs[i]))
      /\ \A i \in own : a \in Addr6 => Members6(plan[i]) # {}
      /\ Latest(hits) = {} => MarkSet(s, a, d) = None
      /\ \A i \in Latest(hits) : MarkSet(s, a, d) = plan[i].mark
      /\ Drops(s, a, d, out) <=>
           \E i \in DOMAIN gs : DropsOf(gs, plan, i, MarkSet(s, a, d), a, d, out)
      /\ Masquerades(s, a, d, out) <=>
           \E i \in DOMAIN gs : SnatsOf(gs, plan, i, MarkSet(s, a, d), out)

LEMMA PacketsSeen ==
  ASSUME NEW ts, Listed(ts), NEW gs, gs = Merge(Config, ts), UniqueRouting(gs),
         NEW plan, plan = Compile(Config, ts), NEW s, s = Script(gs, plan),
         NEW t \in ToSet(ts), NEW f \in Families, NEW a \in ToSet(t.addrs) \cap f[1],
         NEW d \in f[2] \cup {Internet}, NEW out
  PROVE  Packet(gs, plan, s, Gateway(gs, t), a, d, out)
<1> DEFINE own == Gateway(gs, t)  twins == Twins(gs, own)
<1>1. Len(gs) \in Nat /\ DOMAIN gs = 1 .. Len(gs) /\ Names(gs) \subseteq GatewayName
  BY MergedProperties
<1>types. gs \in Seq(Candidates) /\ \A i \in DOMAIN gs : ValidGateway(gs[i])
  BY MergedProperties
<1>2. \A i \in DOMAIN gs : /\ plan[i].mark = MarkValue(gs[i])
                           /\ plan[i].egress = ResolveEgress(gs[i], ts)
                           /\ plan[i].members = Members(gs, gs[i], ts)
  BY DEF Compile
<1>3. \A i \in DOMAIN gs : plan[i].mark # None
  <2> TAKE i \in DOMAIN gs
  <2>1. gs[i].name \in GatewayName
    BY <1>1 DEF Names
  <2>2. AutoMark[gs[i].name] \in Mark /\ None \notin Mark
    BY <2>1, GatewaysAssumption
  <2> QED BY <1>2, <2>2 DEF MarkValue
<1>4. \A i, j \in DOMAIN gs : plan[i].mark = plan[j].mark => i = j
  BY <1>2 DEF UniqueRouting
<1>5. \A i \in DOMAIN gs : a \in plan[i].members <=> i \in own
  BY <1>2, OneOwner DEF Gateway
<1>6. \A i \in DOMAIN gs : /\ Locals(gs[i]) \subseteq Net4 \cup Net6
                           /\ gs[i].egress.interface # None => plan[i].egress # Unavailable
  <2> TAKE i \in DOMAIN gs
  <2>1. gs[i] \in Candidates /\ ValidGateway(gs[i])
    BY <1>1, <1>types, ElementOfSeq
  <2>2. Locals(gs[i]) \subseteq Net4 \cup Net6
    BY <2>1, LocalsTyped
  <2>3. gs[i].egress.interface # None => gs[i].egress.interface # Unavailable
    BY <2>1, LocalsTyped
  <2>4. gs[i].egress.interface # None => plan[i].egress = gs[i].egress.interface
    BY <1>2, <2>1, OnlyEgress DEF ResolveEgress
  <2> QED BY <2>2, <2>3, <2>4
<1>7. \/ a \in Addr4 /\ a \notin Addr6 /\ d \in Net4 \cup {Internet}
      \/ a \in Addr6 /\ a \notin Addr4 /\ d \in Net6 \cup {Internet}
  BY RulesetAssumption DEF Families
<1>8. /\ own \subseteq twins /\ twins \subseteq DOMAIN gs
      /\ \A i \in twins, j \in DOMAIN gs : Same(gs, i, j) <=> j \in twins
      /\ \A i \in DOMAIN gs, j \in own : Same(gs, i, j) => i \in twins
  <2>1. own \subseteq DOMAIN gs /\ \A i, j \in own : gs[i].name = gs[j].name
    BY DEF Gateway
  <2>2. own \subseteq twins /\ twins \subseteq DOMAIN gs
    BY <2>1 DEF Twins
  <2>3. \A i \in twins, j \in own : Sanitized[gs[i].name] = Sanitized[gs[j].name]
    BY <2>1 DEF Twins
  <2>4. \A i \in twins : \E j \in own : Sanitized[gs[i].name] = Sanitized[gs[j].name]
    BY DEF Twins
  <2>5. \A i \in DOMAIN gs, j \in own :
          Sanitized[gs[i].name] = Sanitized[gs[j].name] => i \in twins
    BY DEF Twins
  <2> HIDE DEF own, twins
  <2> QED BY <2>1, <2>2, <2>3, <2>4, <2>5 DEF Same
<1>9. \A i \in DOMAIN gs : /\ a \in Members4(plan[i]) <=> a \in Addr4 /\ i \in own
                           /\ a \in Members6(plan[i]) <=> a \in Addr6 /\ i \in own
  BY <1>5 DEF Members4, Members6
<1>0. own = Gateway(gs, t) /\ twins = Twins(gs, own) /\ \A i \in twins : \E j \in own : Same(gs, i, j)
  BY DEF Twins, Same
<1> HIDE DEF own, twins
<1>10. \A i \in DOMAIN gs :
         /\ Marked4(gs, plan, i, a, d) <=>
              /\ a \in Addr4 /\ i \in twins
              /\ Locals4(gs[i]) = {} \/ \A j \in twins : d \notin Locals4(gs[j])
         /\ Dropped6(gs, plan, i, a, d) <=>
              /\ a \in Addr6 /\ i \in twins /\ Members6(plan[i]) # {}
              /\ \/ Locals6(gs[i]) = {}
                 \/ \A j \in twins : Members6(plan[j]) # {} => d \notin Locals6(gs[j])
  <2> TAKE i \in DOMAIN gs
  <2>1. /\ (\E j \in DOMAIN gs : Same(gs, i, j) /\ a \in Members4(plan[j]))
             <=> a \in Addr4 /\ i \in twins
        /\ (\E j \in DOMAIN gs : Same(gs, i, j) /\ a \in Members6(plan[j]))
             <=> a \in Addr6 /\ i \in twins
    BY <1>0, <1>8, <1>9
  <2>2. ASSUME i \in twins
        PROVE  /\ (\A j \in DOMAIN gs : Same(gs, i, j) => d \notin Locals4(gs[j]))
                    <=> \A j \in twins : d \notin Locals4(gs[j])
               /\ (\A j \in DOMAIN gs : Same(gs, i, j) /\ Members6(plan[j]) # {}
                                          => d \notin Locals6(gs[j]))
                    <=> \A j \in twins : Members6(plan[j]) # {} => d \notin Locals6(gs[j])
    BY <1>8, <2>2
  <2>3. Marked4(gs, plan, i, a, d) <=>
          /\ a \in Addr4 /\ i \in twins
          /\ Locals4(gs[i]) = {} \/ \A j \in twins : d \notin Locals4(gs[j])
    BY <2>1, <2>2 DEF Marked4
  <2>4. Dropped6(gs, plan, i, a, d) <=>
          /\ a \in Addr6 /\ i \in twins /\ Members6(plan[i]) # {}
          /\ \/ Locals6(gs[i]) = {}
             \/ \A j \in twins : Members6(plan[j]) # {} => d \notin Locals6(gs[j])
    BY <2>1, <2>2 DEF Dropped6
  <2> QED BY <2>3, <2>4
<1>11. \A i \in DOMAIN gs : /\ a \in Addr4 => (d \in Locals(gs[i]) <=> d \in Locals4(gs[i]))
                            /\ a \in Addr6 => (d \in Locals(gs[i]) <=> d \in Locals6(gs[i]))
  <2> TAKE i \in DOMAIN gs
  <2>1. a \in Addr4 => (d \in Locals(gs[i]) <=> d \in Locals4(gs[i]))
    BY <1>6, <1>7, RulesetAssumption, GatewaysAssumption DEF Locals4
  <2>2. a \in Addr6 => (d \in Locals(gs[i]) <=> d \in Locals6(gs[i]))
    BY <1>6, <1>7, RulesetAssumption, GatewaysAssumption DEF Locals6
  <2> QED BY <2>1, <2>2
<1>12. \A i \in own : a \in Addr6 => Members6(plan[i]) # {}
  BY <1>8, <1>9
<1> DEFINE hits == {i \in DOMAIN gs : Marked4(gs, plan, i, a, d)}
<1>13. DOMAIN s.marks = DOMAIN gs /\ \A i \in DOMAIN gs : s.marks[i].mark = plan[i].mark
  <2>1. DOMAIN s.marks = DOMAIN gs /\ \A i \in DOMAIN gs : s.marks[i] = MarkRule(gs[i], plan[i])
    BY <1>1, ScriptParts
  <2>2. \A g, p : MarkRule(g, p).mark = p.mark
    BY DEF MarkRule
  <2> QED BY <2>1, <2>2
<1>14. hits = Hits(s, a, d)
  <2>1. ASSUME NEW i \in DOMAIN gs PROVE Matches(s, s.marks[i], a, d) <=> Marked4(gs, plan, i, a, d)
    <3>1. gs[i].name \in GatewayName
      BY <1>1 DEF Names
    <3> QED BY <1>1, <3>1, RulesMatch
  <2> QED BY <1>13, <2>1 DEF Hits
<1>15. hits = {i \in DOMAIN gs : Marked4(gs, plan, i, a, d)} /\ hits \subseteq DOMAIN gs
  OBVIOUS
<1> HIDE DEF hits
<1>16. /\ Latest(hits) = {} => MarkSet(s, a, d) = None
       /\ \A i \in Latest(hits) : MarkSet(s, a, d) = s.marks[i].mark
  <2>1. Len(gs) \in Nat /\ DOMAIN s.marks = 1 .. Len(gs)
    BY <1>1, <1>13
  <2> QED BY <1>14, <2>1, LatestMark
<1>17. \A i \in Latest(hits) : MarkSet(s, a, d) = plan[i].mark
  BY <1>13, <1>15, <1>16 DEF Latest
<1>18. /\ Drops(s, a, d, out) <=>
            \E i \in DOMAIN gs : DropsOf(gs, plan, i, MarkSet(s, a, d), a, d, out)
       /\ Masquerades(s, a, d, out) <=>
            \E i \in DOMAIN gs : SnatsOf(gs, plan, i, MarkSet(s, a, d), out)
  BY <1>1, <1>3, ChainsMatch
<1> QED BY <1>0, <1>3, <1>4, <1>6, <1>10, <1>11, <1>12, <1>15, <1>16, <1>17, <1>18 DEF Packet

\* The chains read by the mark that was set, which is that of by or of none, and
\* by whether an IPv6 rule drops.
LEMMA ReadByMark ==
  ASSUME NEW gs, NEW plan, NEW s, NEW own, NEW a, NEW d, NEW out,
         Packet(gs, plan, s, own, a, d, out),
         a \in Addr4 \/ a \in Addr6, ~(a \in Addr4 /\ a \in Addr6),
         NEW by \in SUBSET DOMAIN gs, \A i, j \in by : i = j,
         a \in Addr4 => by = Latest({i \in DOMAIN gs : Marked4(gs, plan, i, a, d)}),
         a \in Addr6 => (by # {} <=> \E i \in DOMAIN gs : Dropped6(gs, plan, i, a, d))
  PROVE  GoesBy(gs, plan, s, by, a, d, out)
<1> DEFINE hits == {i \in DOMAIN gs : Marked4(gs, plan, i, a, d)}
<1>1. /\ \A i \in DOMAIN gs : /\ plan[i].mark # None
                              /\ \A j \in DOMAIN gs : plan[i].mark = plan[j].mark => i = j
                              /\ gs[i].egress.interface # None => plan[i].egress # Unavailable
                              /\ Marked4(gs, plan, i, a, d) => a \in Addr4
                              /\ Dropped6(gs, plan, i, a, d) => a \in Addr6
      /\ Latest(hits) = {} => MarkSet(s, a, d) = None
      /\ \A i \in Latest(hits) : MarkSet(s, a, d) = plan[i].mark
      /\ Drops(s, a, d, out) <=>
           \E i \in DOMAIN gs : DropsOf(gs, plan, i, MarkSet(s, a, d), a, d, out)
      /\ Masquerades(s, a, d, out) <=>
           \E i \in DOMAIN gs : SnatsOf(gs, plan, i, MarkSet(s, a, d), out)
  BY DEF Packet
<1>2. a \in Addr6 => Latest(hits) = {}
  BY <1>1 DEF Latest
<1>3. a \in Addr4 => by = Latest(hits)
  OBVIOUS
<1> HIDE DEF hits
<1>4. \A i \in DOMAIN gs : plan[i].mark = MarkSet(s, a, d) <=> a \in Addr4 /\ i \in by
  BY <1>1, <1>2, <1>3
<1>5. /\ a \in Addr4 => \A i \in by : MarkSet(s, a, d) = plan[i].mark
      /\ by = {} \/ a \notin Addr4 => MarkSet(s, a, d) = None
  BY <1>1, <1>2, <1>3
<1>6. \A m \in Mark : MarkSet(s, a, d) = m <=> a \in Addr4 /\ \E i \in by : plan[i].mark = m
  <2>1. None \notin Mark
    BY GatewaysAssumption
  <2> QED BY <1>5, <2>1
<1>7. Drops(s, a, d, out) <=>
        \E i \in by : \/ a \in Addr6
                      \/ plan[i].egress = Unavailable
                      \/ gs[i].egress.interface # None /\ gs[i].egress.interface # out
  <2>1. CASE a \in Addr6
    <3>1. Drops(s, a, d, out) <=> \E i \in DOMAIN gs : Dropped6(gs, plan, i, a, d)
      BY <1>1, <1>4, <2>1 DEF DropsOf
    <3> QED BY <2>1, <3>1
  <2>2. CASE a \in Addr4
    <3>1. \A i \in DOMAIN gs : ~Dropped6(gs, plan, i, a, d)
      BY <1>1, <2>2
    <3>2. \A i \in DOMAIN gs :
            DropsOf(gs, plan, i, MarkSet(s, a, d), a, d, out) <=>
              i \in by /\ (\/ plan[i].egress = Unavailable
                           \/ gs[i].egress.interface # None /\ gs[i].egress.interface # out)
      BY <1>1, <1>4, <2>2, <3>1 DEF DropsOf
    <3> QED BY <1>1, <2>2, <3>2
  <2> QED BY <2>1, <2>2
<1>8. Masquerades(s, a, d, out) <=>
        \E i \in by : /\ a \in Addr4 /\ SnatEnabled(gs[i])
                      /\ plan[i].egress # Unavailable
                      /\ gs[i].egress.interface \in {None, out}
  <2>1. \A i \in DOMAIN gs : SnatsOf(gs, plan, i, MarkSet(s, a, d), out)
          <=> i \in by /\ /\ a \in Addr4 /\ SnatEnabled(gs[i])
                          /\ plan[i].egress # Unavailable
                          /\ gs[i].egress.interface \in {None, out}
    BY <1>4 DEF SnatsOf
  <2> QED BY <1>1, <2>1
<1> QED BY <1>6, <1>7, <1>8 DEF GoesBy

LEMMA PacketsTreated ==
  ASSUME NEW n \in Nat, NEW gs, DOMAIN gs = 1 .. n, NEW plan, NEW s, NEW own,
         NEW a, NEW d, NEW out, own \subseteq DOMAIN gs,
         Packet(gs, plan, s, own, a, d, out),
         a \in Addr4 \/ a \in Addr6, ~(a \in Addr4 /\ a \in Addr6)
  PROVE  Treated(gs, plan, s, own, a, d, out)
<1> DEFINE twins == Twins(gs, own)
           hits  == {i \in DOMAIN gs : Marked4(gs, plan, i, a, d)}
           drops == \E i \in DOMAIN gs : Dropped6(gs, plan, i, a, d)
           by    == IF a \in Addr4 THEN Latest(hits) ELSE IF drops THEN Latest(twins) ELSE {}
<1>1. own \subseteq twins /\ twins \in SUBSET (1 .. n) /\ hits \in SUBSET (1 .. n)
  BY DEF Twins
<1>2. \A i \in DOMAIN gs :
        /\ Marked4(gs, plan, i, a, d) <=>
             /\ a \in Addr4 /\ i \in twins
             /\ Locals4(gs[i]) = {} \/ \A j \in twins : d \notin Locals4(gs[j])
        /\ Dropped6(gs, plan, i, a, d) <=>
             /\ a \in Addr6 /\ i \in twins /\ Members6(plan[i]) # {}
             /\ \/ Locals6(gs[i]) = {}
                \/ \A j \in twins : Members6(plan[j]) # {} => d \notin Locals6(gs[j])
        /\ a \in Addr4 => (d \in Locals(gs[i]) <=> d \in Locals4(gs[i]))
        /\ a \in Addr6 => (d \in Locals(gs[i]) <=> d \in Locals6(gs[i]))
  BY DEF Packet
<1>3. \A i \in own : a \in Addr6 => Members6(plan[i]) # {}
  BY DEF Packet
<1>4. \A i \in twins : \E j \in own : TRUE
  BY DEF Twins
<1>5. \A i \in DOMAIN gs : i \in hits <=> Marked4(gs, plan, i, a, d)
  OBVIOUS
<1>6. drops <=> \E i \in DOMAIN gs : Dropped6(gs, plan, i, a, d)
  OBVIOUS
<1>0. hits = {i \in DOMAIN gs : Marked4(gs, plan, i, a, d)} /\ twins = Twins(gs, own)
  OBVIOUS
<1> HIDE DEF twins, hits, drops
<1>7. /\ Latest(hits) \subseteq hits /\ (hits = {} <=> Latest(hits) = {})
      /\ \A i, j \in Latest(hits) : i = j
  BY <1>1, LatestExists
<1>8. /\ Latest(twins) \subseteq twins /\ (twins = {} <=> Latest(twins) = {})
      /\ \A i, j \in Latest(twins) : i = j
  BY <1>1, LatestExists
<1>9. hits \subseteq twins
  BY <1>1, <1>2, <1>5
<1>10. drops => twins # {}
  BY <1>2, <1>6
<1>11. by \in SUBSET DOMAIN gs /\ by \subseteq twins /\ \A i, j \in by : i = j
  BY <1>1, <1>7, <1>8, <1>9
<1>12. by \in {{}} \cup {{i} : i \in twins}
  BY <1>11
<1>13. ASSUME \A i \in twins : d \in Locals(gs[i]) PROVE by = {}
  <2>1. CASE a \in Addr4
    <3>1. \A i \in hits : FALSE
      BY <1>1, <1>2, <1>5, <1>9, <1>13, <2>1
    <3> QED BY <1>7, <2>1, <3>1
  <2>2. CASE a \in Addr6
    <3>1. ~drops
      BY <1>1, <1>2, <1>6, <1>13, <2>2
    <3> QED BY <2>2, <3>1
  <2> QED BY <2>1, <2>2
<1>14. ASSUME \A i \in twins : d \notin Locals(gs[i]) PROVE by = Latest(twins)
  <2>1. CASE a \in Addr4
    <3>1. \A i \in twins : i \in hits
      BY <1>1, <1>2, <1>5, <1>14, <2>1
    <3>2. hits = twins
      BY <1>9, <3>1
    <3> QED BY <2>1, <3>2
  <2>2. CASE a \in Addr6
    <3>1. twins # {} => drops
      <4> SUFFICES ASSUME twins # {} PROVE drops
        OBVIOUS
      <4>1. PICK i \in own : TRUE
        BY <1>4
      <4>2. i \in DOMAIN gs /\ i \in twins /\ Members6(plan[i]) # {}
        BY <1>1, <1>3, <2>2, <4>1
      <4>3. \A j \in twins : d \notin Locals6(gs[j])
        BY <1>1, <1>2, <1>14, <2>2
      <4> QED BY <1>2, <1>6, <2>2, <4>2, <4>3
    <3> QED BY <1>8, <2>2, <3>1
  <2> QED BY <2>1, <2>2
<1>15. GoesBy(gs, plan, s, by, a, d, out)
  <2>1. a \in Addr4 => by = Latest({i \in DOMAIN gs : Marked4(gs, plan, i, a, d)})
    BY <1>0
  <2>2. a \in Addr6 => (by # {} <=> \E i \in DOMAIN gs : Dropped6(gs, plan, i, a, d))
    BY <1>6, <1>8, <1>10
  <2> HIDE DEF by
  <2> QED BY <1>11, <2>1, <2>2, ReadByMark
<1> HIDE DEF by
<1> QED BY <1>0, <1>12, <1>13, <1>14, <1>15 DEF Treated

\* Whatever containers run under whatever file and labels, the script of a plan
\* whose gateways share no mark and no table refers to what it defines, and
\* treats a packet as the gateway of the container that sent it says or, where
\* gateways share an identifier, as the last of those that have it.
THEOREM ScriptCorrect == Spec => []ScriptMeansPlan
<1>1. AllListed => ScriptMeansPlan
  <2> SUFFICES ASSUME AllListed PROVE ScriptMeansPlan
    OBVIOUS
  <2> DEFINE gs == Merged  plan == Compiled  s == Script(gs, plan)
  <2>1. Listed(targets) /\ Running = ToSet(targets)
    BY DEF AllListed, Running
  <2>2. gs = Merge(Config, targets) /\ plan = Compile(Config, targets) /\ s = Script(gs, plan)
    BY DEF Merged, Compiled
  <2>3. Len(gs) \in Nat /\ DOMAIN gs = 1 .. Len(gs)
    BY <2>1, <2>2, MergedProperties
  <2> HIDE DEF gs, plan, s
  <2>4. References(s) \ {None} \subseteq {s.sets[k].name : k \in DOMAIN s.sets}
    BY <2>2, <2>3, Referenced
  <2>5. ASSUME UniqueRouting(gs), NEW t \in Running, NEW f \in Families,
               NEW a \in ToSet(t.addrs) \cap f[1], NEW d \in f[2] \cup {Internet},
               NEW out \in Outs(gs)
        PROVE  Treated(gs, plan, s, Gateway(gs, t), a, d, out)
    <3>1. Packet(gs, plan, s, Gateway(gs, t), a, d, out)
      BY <2>1, <2>2, <2>5, PacketsSeen
    <3>2. a \in Addr4 \/ a \in Addr6
      BY DEF Families
    <3>3. ~(a \in Addr4 /\ a \in Addr6)
      BY RulesetAssumption
    <3>4. Gateway(gs, t) \subseteq DOMAIN gs
      BY DEF Gateway
    <3> QED BY <2>3, <3>1, <3>2, <3>3, <3>4, PacketsTreated
  <2> QED BY <2>4, <2>5 DEF ScriptMeansPlan, gs, plan, s
<1>2. Spec => []AllListed
  BY AlwaysListed
<1> QED BY <1>1, <1>2, PTL
=============================================================================
