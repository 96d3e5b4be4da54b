------------------------------ MODULE Ruleset ------------------------------
(***************************************************************************)
(* The script that nft::build_script (src/enforce/nft.rs) writes for a     *)
(* plan: named sets and, in three chains, rules that refer to the sets by  *)
(* name.  A name is <<kind, identifier>>, the identifier being what        *)
(* sanitize makes of the gateway's name.                                   *)
(***************************************************************************)
EXTENDS Containers

CONSTANTS
  Sanitized,  \* the nft identifier of each gateway name
  Internet    \* a destination in nobody's local subnets

ASSUME RulesetAssumption ==
  /\ GatewayName \subseteq DOMAIN Sanitized
  /\ Internet \notin Net4 \cup Net6
  /\ Addr4 \cap Addr6 = {}
  /\ \A i \in DOMAIN Config : /\ Config[i].locals \subseteq Net4 \cup Net6
                             /\ Config[i].egress.interface # Unavailable
  /\ \A kind \in {"via", "via6", "local", "local6"}, n \in GatewayName :
       None # <<kind, Sanitized[n]>>

----------------------------------------------------------------------------
(* One gateway's part of the script.                                       *)

SetName(kind, g) == <<kind, Sanitized[g.name]>>

\* emit_set, and excl_clause, which emits nothing when nothing is excluded.
Definition(kind, g, elems) == [name |-> SetName(kind, g), elems |-> elems]
Exclusion(kind, g, nets)   == IF nets = {} THEN << >> ELSE <<Definition(kind, g, nets)>>
Clause(kind, g, nets)      == IF nets = {} THEN None ELSE SetName(kind, g)

Members4(p) == p.members \cap Addr4
Members6(p) == p.members \cap Addr6
Locals4(g)  == Locals(g) \cap Net4
Locals6(g)  == Locals(g) \cap Net6

\* Mutant of Sets: the IPv6 exclusions take the name of the IPv4 ones.
SetsOneLocal(g, p) ==
  <<Definition("via", g, Members4(p))>> \o Exclusion("local", g, Locals4(g))
  \o IF Members6(p) = {} THEN << >>
     ELSE <<Definition("via6", g, Members6(p))>> \o Exclusion("local", g, Locals6(g))

Sets(g, p) ==
  <<Definition("via", g, Members4(p))>> \o Exclusion("local", g, Locals4(g))
  \o IF Members6(p) = {} THEN << >>
     ELSE <<Definition("via6", g, Members6(p))>> \o Exclusion("local6", g, Locals6(g))

MarkRule(g, p) == [src |-> SetName("via", g), except |-> Clause("local", g, Locals4(g)),
                   mark |-> p.mark]

\* Rules of the other two chains: src, except, mark and out are None where a
\* rule does not look; a drop rule's out is the one interface it lets through.
SnatRules(g, p) ==
  IF SnatEnabled(g) /\ p.egress # Unavailable
  THEN <<[mark |-> p.mark, out |-> g.egress.interface]>> ELSE << >>

DropRule(src, except, mark, out) ==
  [src |-> src, except |-> except, mark |-> mark, out |-> out]

KillRules(g, p) ==
  (IF Members6(p) = {} THEN << >>
   ELSE <<DropRule(SetName("via6", g), Clause("local6", g, Locals6(g)), None, None)>>)
  \o IF g.egress.interface # None \/ p.egress = Unavailable
     THEN <<DropRule(None, None, p.mark, g.egress.interface)>>
     ELSE << >>

\* build_script.  gs are the merged gateways that the plan was compiled from.
Script(gs, plan) ==
  [sets  |-> FlattenSeq([i \in DOMAIN gs |-> Sets(gs[i], plan[i])]),
   marks |-> [i \in DOMAIN gs |-> MarkRule(gs[i], plan[i])],
   snats |-> FlattenSeq([i \in DOMAIN gs |-> SnatRules(gs[i], plan[i])]),
   kills |-> FlattenSeq([i \in DOMAIN gs |-> KillRules(gs[i], plan[i])])]

----------------------------------------------------------------------------
(* What nft does with a script: sets are looked up by name, every rule of  *)
(* a chain is tried, and the last mark that is set stays.                  *)

Holds(s, name, x) == \E k \in DOMAIN s.sets : s.sets[k].name = name /\ x \in s.sets[k].elems

Matches(s, r, src, dst) == /\ r.src = None \/ Holds(s, r.src, src)
                           /\ r.except = None \/ ~Holds(s, r.except, dst)

MarkSet(s, src, dst) ==
  LET hits == {i \in DOMAIN s.marks : Matches(s, s.marks[i], src, dst)}
  IN  IF hits = {} THEN None
      ELSE s.marks[CHOOSE i \in hits : \A j \in hits : j <= i].mark

Drops(s, src, dst, out) ==
  \E k \in DOMAIN s.kills : LET r == s.kills[k]
                            IN  /\ Matches(s, r, src, dst)
                                /\ r.mark \in {None, MarkSet(s, src, dst)}
                                /\ r.out = None \/ r.out # out

Masquerades(s, src, dst, out) ==
  \E k \in DOMAIN s.snats : /\ s.snats[k].mark = MarkSet(s, src, dst)
                            /\ s.snats[k].out \in {None, out}

----------------------------------------------------------------------------
\* Two gateways whose names differ only in characters that sanitize replaces are
\* twins: they share their sets.  Latest is the one whose rule comes last.
Twins(gs, own) ==
  {i \in DOMAIN gs : \E j \in own : Sanitized[gs[i].name] = Sanitized[gs[j].name]}
Latest(I) == {i \in I : \A j \in I : j <= i}
Gateway(gs, t) == {i \in DOMAIN gs : gs[i].name = Assignment(gs, t)}

References(s) == {s.marks[i].src : i \in DOMAIN s.marks}
                 \cup {s.marks[i].except : i \in DOMAIN s.marks}
                 \cup {s.kills[k].src : k \in DOMAIN s.kills}
                 \cup {s.kills[k].except : k \in DOMAIN s.kills}

Families == {<<Addr4, Net4>>, <<Addr6, Net6>>}
Outs(gs) == {gs[i].egress.interface : i \in DOMAIN gs} \cup {"eth0"}

\* A packet goes the way of gateway by (or of none): IPv4 is marked for it, and
\* dropped unless it leaves by the interface egress; IPv6 is dropped.
GoesBy(gs, plan, s, by, a, d, out) ==
  LET iface(i) == gs[i].egress.interface
  IN  /\ \A m \in Mark : MarkSet(s, a, d) = m <=>
           a \in Addr4 /\ \E i \in by : plan[i].mark = m
      /\ Drops(s, a, d, out) <=>
           \E i \in by : \/ a \in Addr6
                         \/ plan[i].egress = Unavailable
                         \/ iface(i) # None /\ iface(i) # out
      /\ Masquerades(s, a, d, out) <=>
           \E i \in by : /\ a \in Addr4 /\ SnatEnabled(gs[i])
                         /\ plan[i].egress # Unavailable
                         /\ iface(i) \in {None, out}

\* What a container assigned to the gateways own sends to d: left alone when d
\* is a local subnet of them all, treated by the last of own's twins when it is
\* one of none, and one or the other when it is local to some.
Treated(gs, plan, s, own, a, d, out) ==
  LET twins == Twins(gs, own)
  IN  \E by \in {{}} \cup {{i} : i \in twins} :
        /\ (\A i \in twins : d \in Locals(gs[i])) => by = {}
        /\ (\A i \in twins : d \notin Locals(gs[i])) => by = Latest(twins)
        /\ GoesBy(gs, plan, s, by, a, d, out)

\* nft rejects a script that refers to a set it does not define, and the rules
\* of a gateway must look at the addresses and subnets of that gateway and
\* family.  Of gateways that share no mark and no table (compile refuses those
\* before it builds a script): every set that is referred to is defined, and
\* whatever a container sends, from any of its addresses to a local subnet or to
\* the internet, is treated as the gateway it was assigned to says and as no
\* other, or, where that gateway shares its identifier, as the last of those
\* that have it.  Enforce!Fate rests on this.
ScriptMeansPlan ==
  LET gs == Merged  plan == Compiled  s == Script(gs, plan)
  IN  UniqueRouting(gs) =>
        /\ References(s) \ {None} \subseteq {s.sets[k].name : k \in DOMAIN s.sets}
        /\ \A t \in Running, f \in Families : \A a \in ToSet(t.addrs) \cap f[1] :
             \A d \in f[2] \cup {Internet}, out \in Outs(gs) :
               Treated(gs, plan, s, Gateway(gs, t), a, d, out)
=============================================================================
