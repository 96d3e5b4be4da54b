------------------------- MODULE EnforceDownProofs -------------------------
(* Theorems about hosts on which nobody runs `degc down` while the daemon  *)
(* runs: the blackhole outlives the rule, `down` restores what             *)
(* gateways.yaml names, and Enforce implements FailClosed.                 *)
EXTENDS EnforceProofs

Cleaned(d) == /\ Config[d] \notin rules
              /\ Config[d][2] \notin floor
              /\ live[Config[d][2]] = NoRoute

\* The daemon and `down` take turns, so each finds the host as the other left
\* it.  A rule that looks up a table of gateways.yaml is that gateway's own,
\* because every plan starts with those gateways and shares no table: deleting
\* the one rule leaves none that would fall into the flushed table.
Turns ==
  /\ dpc # "off" => pc = "off"
  /\ pc \in Programming => nft = plan
  /\ dpc \in {"rule", "flush", "done"} => nft = << >>

Floors ==
  /\ \A r \in rules : r[2] \in Table => r[2] \in floor
  /\ pc \in {"rule", "live"} => plan[gi].table \in floor
  /\ \A r \in rules, d \in DOMAIN Config : r[2] = Config[d][2] => r = Config[d]

Removed ==
  /\ dpc \in {"rule", "flush"} => \A d \in DOMAIN Config : d < di => Cleaned(d)
  /\ dpc = "flush" => Config[di] \notin rules
  /\ dpc = "done" => \A d \in DOMAIN Config : Cleaned(d)

Exclusive == Turns /\ Floors /\ Removed

LEMMA ExclusiveInit == Init => Exclusive
<1> SUFFICES ASSUME Init PROVE Exclusive
  OBVIOUS
<1>1. Turns /\ Removed
  BY DEF Init, Turns, Removed, Programming
<1>2. \A r \in rules : r[2] = ForeignTable
  BY DEF Init
<1>3. Floors
  BY <1>2, ConfigFacts, EnforceAssumption DEF Init, Floors
<1> QED BY <1>1, <1>3 DEF Exclusive

LEMMA ExclusiveStep ==
  ~Overlap /\ TypeOK /\ Routable /\ Exclusive /\ [Next]_vars => Exclusive'
<1> SUFFICES ASSUME ~Overlap, TypeOK, Routable, Exclusive, [Next]_vars
             PROVE  Exclusive'
  OBVIOUS
<1> USE DEF Checked, Programming
\* Steps that leave the kernel alone.
<1>1. ASSUME UNCHANGED <<dpc, di, nft, rules, floor, live>>, dpc # "off" => pc' = "off",
             pc' \notin Programming
      PROVE  Exclusive'
  BY <1>1 DEF Exclusive, Turns, Floors, Removed, Cleaned
\* A failed reconcile.
<1>2. ASSUME Fail, pc # "off", UNCHANGED <<dpc, di, nft, rules, floor, live>>
      PROVE  Exclusive'
  <2>1. dpc = "off" /\ pc' \notin Programming
    BY <1>2 DEF Fail, Exclusive, Turns
  <2> QED BY <1>1, <1>2, <2>1
\* Steps of neither process.
<1>3. ASSUME UNCHANGED <<pc, plan, gi, dpc, di, nft, rules, floor>>,
             \A t \in Table : live'[t] \in {live[t], NoRoute}
      PROVE  Exclusive'
  <2>1. ASSUME NEW d \in DOMAIN Config, Cleaned(d) PROVE Cleaned(d)'
    <3>1. Config[d][2] \in Table
      BY ConfigFacts
    <3> QED BY <1>3, <2>1, <3>1 DEF Cleaned
  <2> QED BY <1>3, <2>1 DEF Exclusive, Turns, Floors, Removed
<1>4. CASE UNCHANGED vars
  BY <1>3, <1>4 DEF vars, daemon, down, kernel
<1>5. CASE Start \/ Wake \/ Shutdown \/ Crash
  BY <1>1, <1>5 DEF Start, Wake, Shutdown, Crash, down, kernel, Exclusive, Turns
<1>6. ASSUME NEW p \in World, List(p) PROVE Exclusive'
  <2>1. CASE UniqueRouting(p)
    BY <1>1, <1>6, <2>1 DEF List, down, kernel, Exclusive, Turns
  <2>2. CASE ~UniqueRouting(p)
    BY <1>2, <1>6, <2>2 DEF List, down, kernel
  <2> QED BY <2>1, <2>2
<1>7. CASE ListFails \/ NftRejected \/ IpFails
  BY <1>2, <1>7 DEF ListFails, NftRejected, IpFails, down, kernel
<1>8. CASE Preflight
  <2>1. CASE Fail
    BY <1>2, <1>8, <2>1 DEF Preflight, down, kernel
  <2>2. CASE pc' \in {"nft", "blind"}
    BY <1>1, <1>8, <2>2 DEF Preflight, down, kernel, Exclusive, Turns
  <2> QED BY <1>8, <2>1, <2>2 DEF Preflight
<1>9. CASE NftApply
  <2>1. /\ dpc = "off" /\ dpc' = "off" /\ UNCHANGED <<rules, floor>>
        /\ nft' = plan /\ pc' \in {"idle", "floor"} /\ (pc' = "floor" => plan' = plan)
    BY <1>9 DEF NftApply, Finish, down, Exclusive, Turns
  <2> QED BY <2>1 DEF Exclusive, Turns, Floors, Removed
<1>10. CASE ReplaceBlackhole
  <2>1. /\ dpc = "off" /\ dpc' = "off" /\ UNCHANGED <<rules, nft, plan, gi>>
        /\ pc \in Programming /\ pc' = "rule" /\ floor' = floor \cup {plan[gi].table}
    BY <1>10 DEF ReplaceBlackhole, down, Exclusive, Turns
  <2> QED BY <2>1 DEF Exclusive, Turns, Floors, Removed
<1>11. CASE AddRule
  <2>1. /\ dpc = "off" /\ dpc' = "off" /\ UNCHANGED <<floor, nft, plan, gi>>
        /\ pc = "rule" /\ pc' = "live"
        /\ rules' = rules \cup {<<plan[gi].mark, plan[gi].table>>}
        /\ UniqueRouting(plan) /\ plan \in Plans /\ gi \in DOMAIN plan
    BY <1>11 DEF AddRule, down, Exclusive, Turns, Routable, TypeOK
  <2>2. Turns' /\ Removed'
    BY <2>1 DEF Exclusive, Turns, Removed
  <2>3. \A r \in rules' : r[2] \in Table => r[2] \in floor'
    BY <2>1 DEF Exclusive, Floors
  <2>4. ASSUME NEW d \in DOMAIN Config, plan[gi].table = Config[d][2]
        PROVE  <<plan[gi].mark, plan[gi].table>> = Config[d]
    <3>1. plan \in World
      BY <2>1, EmptyDomain DEF Plans
    <3>2. d \in DOMAIN plan /\ Config[d] = <<plan[d].mark, plan[d].table>>
      BY <3>1, EnforceAssumption
    <3>3. d = gi
      BY <2>1, <2>4, <3>2 DEF UniqueRouting
    <3> QED BY <3>2, <3>3
  <2>5. \A r \in rules', d \in DOMAIN Config : r[2] = Config[d][2] => r = Config[d]
    BY <2>1, <2>4 DEF Exclusive, Floors
  <2> QED BY <2>1, <2>2, <2>3, <2>5 DEF Exclusive, Floors
<1>12. CASE SetDefault
  <2>1. CASE plan[gi].egress \notin up \cup {Unavailable}
    BY <1>2, <1>12, <2>1 DEF SetDefault, down
  <2>2. CASE plan[gi].egress \in up \cup {Unavailable}
    <3>1. /\ dpc = "off" /\ dpc' = "off" /\ UNCHANGED <<rules, floor, nft>>
          /\ pc = "live"
          /\ \/ pc' = "idle"
             \/ pc' = "floor" /\ plan' = plan
      BY <1>12, <2>2 DEF SetDefault, NextGateway, Finish, down, Exclusive, Turns
    <3> QED BY <3>1 DEF Exclusive, Turns, Floors, Removed
  <2> QED BY <2>1, <2>2
<1>22. CASE AddRuleRefused
  <2>1. /\ dpc = "off" /\ dpc' = "off" /\ UNCHANGED <<rules, floor, nft, plan, gi>>
        /\ pc = "rule" /\ pc' = "live"
    BY <1>22 DEF AddRuleRefused, down, kernel, Exclusive, Turns
  <2> QED BY <2>1 DEF Exclusive, Turns, Floors, Removed
<1>13. CASE DownStart
  BY <1>13 DEF DownStart, daemon, kernel, Exclusive, Turns, Floors, Removed
<1>14. CASE DownAborts \/ DownExit
  BY <1>14 DEF DownAborts, DownExit, daemon, kernel, Exclusive, Turns, Floors, Removed
<1>15. CASE DownNft
  <2>1. /\ pc = "off" /\ UNCHANGED <<pc, rules, floor>> /\ nft' = << >>
        /\ \/ dpc' = "done" /\ Config = << >>
           \/ dpc' = "rule" /\ di' = 1
    BY <1>15 DEF DownNft, daemon, Exclusive, Turns
  <2>2. Removed'
    BY <2>1, ConfigFacts, EmptyDomain DEF Removed
  <2> QED BY <2>1, <2>2 DEF Exclusive, Turns, Floors
<1>16. CASE DownRule
  <2>1. /\ pc = "off" /\ UNCHANGED <<pc, floor, nft, live, di>>
        /\ dpc = "rule" /\ dpc' = "flush" /\ rules' = rules \ {Config[di]}
    BY <1>16 DEF DownRule, daemon, Exclusive, Turns
  <2> QED BY <2>1 DEF Exclusive, Turns, Floors, Removed, Cleaned
<1>17. CASE DownFlush
  <2> DEFINE t == Config[di][2]
  <2>1. /\ pc = "off" /\ UNCHANGED <<pc, nft, rules>> /\ dpc = "flush"
        /\ floor' = floor \ {t} /\ live' = [live EXCEPT ![t] = NoRoute]
        /\ IF di < Len(Config) THEN dpc' = "rule" /\ di' = di + 1
           ELSE dpc' = "done" /\ di' = 0
        /\ di \in DOMAIN Config /\ t \in Table
    BY <1>17, ConfigFacts DEF DownFlush, daemon, Exclusive, Turns, TypeOK
  <2>2. Turns'
    BY <2>1 DEF Exclusive, Turns
  <2>3. Floors'
    BY <2>1 DEF Exclusive, Floors, Removed
  <2>4. ASSUME NEW d \in DOMAIN Config, d <= di PROVE Cleaned(d)'
    <3>1. live'[t] = NoRoute /\ \A u \in Table : live'[u] \in {live[u], NoRoute}
      BY <2>1 DEF TypeOK
    <3>2. CASE d = di
      BY <2>1, <3>1, <3>2 DEF Exclusive, Removed, Cleaned
    <3>3. CASE d < di
      <4>1. Cleaned(d) /\ Config[d][2] \in Table
        BY <2>1, <3>3, ConfigFacts DEF Exclusive, Removed
      <4> QED BY <2>1, <3>1, <4>1 DEF Cleaned
    <3> QED BY <2>1, <2>4, <3>2, <3>3, ConfigFacts
  <2>5. Removed'
    <3>1. CASE di < Len(Config)
      <4>1. dpc' = "rule" /\ \A d \in DOMAIN Config : d < di' => d <= di
        BY <2>1, <3>1, ConfigFacts
      <4> QED BY <2>4, <4>1 DEF Removed
    <3>2. CASE ~(di < Len(Config))
      <4>1. dpc' = "done" /\ \A d \in DOMAIN Config : d <= di
        BY <2>1, <3>2, ConfigFacts
      <4> QED BY <2>4, <4>1 DEF Removed
    <3> QED BY <3>1, <3>2
  <2> QED BY <2>2, <2>3, <2>5 DEF Exclusive
<1>18. ASSUME NEW e \in Egress, EgressDown(e) PROVE Exclusive'
  BY <1>3, <1>18 DEF EgressDown, daemon, down
<1>19. ASSUME NEW e \in Egress, EgressUp(e) PROVE Exclusive'
  BY <1>3, <1>19 DEF EgressUp, daemon, down, kernel
<1>20. ASSUME NEW t \in Table, ForeignRoute(t) PROVE Exclusive'
  BY <1>3, <1>20 DEF ForeignRoute, daemon, down, kernel
<1>21. CASE Reboot
  <2>1. \A r \in rules' : r[2] = ForeignTable
    BY <1>21 DEF Reboot
  <2>2. Floors'
    BY <1>21, <2>1, ConfigFacts, EnforceAssumption DEF Reboot, Floors
  <2> QED BY <1>21, <2>2 DEF Reboot, Exclusive, Turns, Removed
<1> QED
  BY <1>4, <1>5, <1>6, <1>7, <1>8, <1>9, <1>10, <1>11, <1>12, <1>13, <1>14, <1>15,
     <1>16, <1>17, <1>18, <1>19, <1>20, <1>21, <1>22
  DEF Next, Daemon, Reconcile, Down, DownStep, Host

\* The blackhole of a table is in place whenever some rule looks the table up.
THEOREM FloorOutlivesRule == Spec => []RuleHasFloor
<1>1. CASE Overlap
  BY <1>1, PTL DEF RuleHasFloor
<1>2. CASE ~Overlap
  <2>1. Exclusive => RuleHasFloor
    BY DEF Exclusive, Floors, RuleHasFloor
  <2>2. TypeOK /\ Routable /\ Exclusive /\ [Next]_vars => Exclusive'
    BY <1>2, ExclusiveStep
  <2> QED BY <2>1, <2>2, TypeInit, TypeStep, RoutableInit, RoutableStep, ExclusiveInit,
             PTL DEF Spec
<1> QED BY <1>1, <1>2

\* A `degc down` that runs to its end restores what gateways.yaml names.
THEOREM DownComplete == Spec => []DownRestores
<1>1. CASE Overlap
  BY <1>1, PTL DEF DownRestores
<1>2. CASE ~Overlap
  <2>1. Exclusive => DownRestores
    BY DEF Exclusive, Turns, Removed, Cleaned, DownRestores
  <2>2. TypeOK /\ Routable /\ Exclusive /\ [Next]_vars => Exclusive'
    BY <1>2, ExclusiveStep
  <2> QED BY <2>1, <2>2, TypeInit, TypeStep, RoutableInit, RoutableStep, ExclusiveInit,
             PTL DEF Spec
<1> QED BY <1>1, <1>2

----------------------------------------------------------------------------
(* Enforce implements FailClosed.                                          *)

LEMMA RefineInit == Init => FC!Init
<1> SUFFICES ASSUME Init PROVE Published = {} /\ Covered = {} /\ sighted = FALSE
  BY DEF FC!Init
<1>1. \A r \in rules : r[2] = ForeignTable
  BY DEF Init
<1>2. Covered = {}
  BY <1>1, EnforceAssumption DEF Covered
<1> QED BY <1>2, EmptyDomain DEF Init, Published

LEMMA RefineStep ==
  ~Overlap /\ TypeOK /\ Routable /\ Exclusive /\ [Next]_vars => [FC!Next]_FC!vars
<1> SUFFICES ASSUME ~Overlap, TypeOK, Routable, Exclusive, [Next]_vars
             PROVE  \/ FC!Next
                    \/ Published' = Published /\ Covered' = Covered /\ sighted' = sighted
  BY DEF FC!vars
<1> USE DEF Checked, Programming, history
\* Most steps change neither nft, nor the rules, nor the blackholes.
<1>1. ASSUME UNCHANGED <<nft, rules, floor>>
      PROVE  Published' = Published /\ Covered' = Covered
  BY <1>1 DEF Published, Covered
\* A new nft table is published in one step.
<1>2. ASSUME UNCHANGED <<rules, floor>>, nft' \in Plans, UniqueRouting(nft'),
             sighted' \in BOOLEAN,
             sighted' =>
               \A i \in DOMAIN nft' : Lookups(nft'[i].mark) \subseteq {nft'[i].table}
      PROVE  FC!Publish
  <2>1. Covered' = Covered
    BY <1>2 DEF Covered
  <2>2. ASSUME NEW r \in Published'
        PROVE  \E i \in DOMAIN nft' : /\ r = <<nft'[i].mark, nft'[i].table>>
                                     /\ r \in Mark \X Table
    BY <1>2, PlanFacts DEF Published, Gateway
  <2>3. \A r, s \in Published' : (r[1] = s[1]) <=> (r[2] = s[2])
    BY <1>2, <2>2 DEF UniqueRouting
  <2>4. ASSUME sighted', NEW r \in Published', NEW c \in Covered, r[1] = c[1]
        PROVE  r[2] = c[2]
    <3>1. c = <<c[1], c[2]>> /\ c \in rules /\ c[2] \in Table
      BY DEF Covered, TypeOK
    <3>2. c[2] \in Lookups(c[1])
      BY <3>1 DEF Lookups
    <3> QED BY <1>2, <2>2, <2>4, <3>2
  <2> QED BY <1>2, <2>1, <2>2, <2>3, <2>4 DEF FC!Publish
<1>3. CASE UNCHANGED vars
  BY <1>1, <1>3 DEF vars, kernel
<1>4. CASE Start \/ Wake \/ Shutdown \/ Crash \/ ListFails \/ NftRejected \/ IpFails
           \/ SetDefault \/ AddRuleRefused
  <2>1. UNCHANGED <<nft, rules, floor, sighted>>
    BY <1>4
    DEF Start, Wake, Shutdown, Crash, ListFails, NftRejected, IpFails, SetDefault,
        AddRuleRefused, Fail, kernel
  <2> QED BY <1>1, <2>1
<1>15. CASE Preflight
  <2>1. UNCHANGED <<nft, rules, floor, sighted>>
    BY <1>15 DEF Preflight, Fail, kernel
  <2> QED BY <1>1, <2>1
<1>5. ASSUME NEW p \in World, List(p) PROVE UNCHANGED <<nft, rules, floor, sighted>>
  BY <1>5 DEF List, Fail, kernel
<1>6. CASE NftApply
  <2>1. /\ nft' = plan /\ UNCHANGED <<rules, floor>> /\ plan \in Plans
        /\ sighted' = (pc = "nft")
    BY <1>6 DEF NftApply, TypeOK
  <2>2. UniqueRouting(plan) /\ (pc = "nft" => Owned(plan))
    BY <1>6 DEF NftApply, Routable
  <2>3. sighted' => \A i \in DOMAIN nft' : Lookups(nft'[i].mark) \subseteq {nft'[i].table}
    BY <2>1, <2>2 DEF Owned
  <2> QED BY <1>2, <2>1, <2>2, <2>3 DEF FC!Next
<1>7. CASE ReplaceBlackhole
  <2>1. UNCHANGED <<nft, rules, sighted>> /\ floor' = floor \cup {plan[gi].table}
    BY <1>7 DEF ReplaceBlackhole
  <2>2. Covered' = Covered
    BY <2>1 DEF Covered, Exclusive, Floors
  <2> QED BY <2>1, <2>2 DEF Published
<1>8. CASE AddRule
  <2> DEFINE r == <<plan[gi].mark, plan[gi].table>>
  <2>1. /\ UNCHANGED <<nft, floor, sighted>> /\ rules' = rules \cup {r}
        /\ nft = plan /\ gi \in DOMAIN plan /\ plan[gi].table \in floor /\ floor \subseteq Table
    BY <1>8 DEF AddRule, TypeOK, Exclusive, Turns, Floors
  <2>2. r \in Published /\ Published' = Published
    BY <2>1 DEF Published
  <2>3. Covered' = Covered \cup {r}
    BY <2>1 DEF Covered
  <2> QED BY <2>1, <2>2, <2>3 DEF FC!Next, FC!Cover
<1>9. CASE DownStart \/ DownAborts \/ DownExit
  BY <1>1, <1>9 DEF DownStart, DownAborts, DownExit, kernel
<1>10. CASE DownNft
  <2>1. nft' = << >> /\ UNCHANGED <<rules, floor, sighted>>
    BY <1>10 DEF DownNft
  <2>2. Published' = {} /\ Covered' = Covered
    BY <2>1, EmptyDomain DEF Published, Covered
  <2> QED BY <2>1, <2>2 DEF FC!Next, FC!Withdraw
<1>11. CASE DownRule \/ DownFlush
  <2>1. /\ nft = << >> /\ nft' = nft /\ rules' \subseteq rules /\ floor' \subseteq floor
        /\ sighted' = sighted
    BY <1>11 DEF DownRule, DownFlush, Exclusive, Turns
  <2>2. Published = {} /\ Published' = Published
    BY <2>1, EmptyDomain DEF Published
  <2>3. Covered' \subseteq Covered
    BY <2>1 DEF Covered
  <2> QED BY <2>1, <2>2, <2>3 DEF FC!Next, FC!Uncover
<1>12. ASSUME NEW e \in Egress, EgressDown(e) \/ EgressUp(e)
       PROVE  UNCHANGED <<nft, rules, floor, sighted>>
  BY <1>12 DEF EgressDown, EgressUp, kernel
<1>13. ASSUME NEW t \in Table, ForeignRoute(t) PROVE UNCHANGED <<nft, rules, floor, sighted>>
  BY <1>13 DEF ForeignRoute, kernel
<1>14. CASE Reboot
  <2>1. \A r \in rules' : r[2] = ForeignTable
    BY <1>14 DEF Reboot
  <2>2. Covered' = {}
    BY <2>1, EnforceAssumption DEF Covered
  <2>3. Published' = {}
    BY <1>14, EmptyDomain DEF Reboot, Published
  <2> QED BY <1>14, <2>2, <2>3 DEF FC!Next, FC!Reboot, Reboot
<1> QED
  BY <1>1, <1>3, <1>4, <1>5, <1>6, <1>7, <1>8, <1>9, <1>10, <1>11, <1>12, <1>13, <1>14, <1>15
  DEF Next, Daemon, Reconcile, Down, DownStep, Host

\* degc keeps the promise of FailClosed on every host on which `degc down` and
\* the daemon take turns: a mark loses its rule or its blackhole only while no
\* packet is marked, and none is taken that degc was shown to lead elsewhere.
THEOREM Implements == ~Overlap => (Spec => Abstract)
<1> SUFFICES ASSUME ~Overlap PROVE Spec => Abstract
  OBVIOUS
<1>1. TypeOK /\ Routable /\ Exclusive /\ [Next]_vars => Exclusive'
  BY ExclusiveStep
<1>2. TypeOK /\ Routable /\ Exclusive /\ [Next]_vars => [FC!Next]_FC!vars
  BY RefineStep
<1> QED
  BY <1>1, <1>2, RefineInit, TypeInit, TypeStep, RoutableInit, RoutableStep, ExclusiveInit,
     PTL DEF Spec, Abstract, FC!Spec
=============================================================================
