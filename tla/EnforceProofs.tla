--------------------------- MODULE EnforceProofs ---------------------------
(* Theorems about Enforce, for every set of marks, tables, egresses,       *)
(* addresses and plans that satisfies EnforceAssumption.                   *)
EXTENDS Enforce, SequenceTheorems, TLAPS

----------------------------------------------------------------------------
(* Every variable keeps its type.                                          *)

LEMMA EmptyDomain == DOMAIN << >> = {}
  OBVIOUS

LEMMA PlanFacts ==
  /\ << >> \in Plans
  /\ \A p \in Plans : /\ Len(p) \in Nat /\ DOMAIN p = 1 .. Len(p)
                      /\ \A i \in DOMAIN p : p[i] \in Gateway
                      /\ p # << >> => 1 \in DOMAIN p
<1>1. << >> \in Seq(Gateway)
  BY EmptySeq
<1>2. ASSUME NEW p \in Plans
      PROVE  /\ Len(p) \in Nat /\ DOMAIN p = 1 .. Len(p)
             /\ \A i \in DOMAIN p : p[i] \in Gateway
             /\ p # << >> => 1 \in DOMAIN p
  <2>1. p \in Seq(Gateway)
    BY <1>1, EnforceAssumption DEF Plans
  <2>2. /\ Len(p) \in Nat /\ p \in [1 .. Len(p) -> Gateway]
        /\ DOMAIN p = 1 .. Len(p)
    BY <2>1, LenProperties
  <2>3. p # << >> => Len(p) \in Nat \ {0}
    BY <2>1, EmptySeq
  <2> QED BY <2>2, <2>3
<1> QED BY <1>2 DEF Plans

LEMMA ConfigFacts ==
  /\ Len(Config) \in Nat /\ DOMAIN Config = 1 .. Len(Config)
  /\ \A d \in DOMAIN Config : Config[d] \in Mark \X Table
  /\ Config # << >> => 1 \in DOMAIN Config
<1>1. Config \in Seq(Mark \X Table)
  BY EnforceAssumption
<1>2. /\ Len(Config) \in Nat /\ Config \in [1 .. Len(Config) -> Mark \X Table]
      /\ DOMAIN Config = 1 .. Len(Config)
  BY <1>1, LenProperties
<1>3. Config # << >> => Len(Config) \in Nat \ {0}
  BY <1>1, EmptySeq
<1> QED BY <1>2, <1>3

LEMMA FailTyped == TypeOK /\ Fail => /\ pc' \in {"idle", "off"}
                                     /\ started' \in BOOLEAN
                                     /\ plan' \in Plans /\ gi' \in Nat
                                     /\ intact' \in BOOLEAN /\ sighted' \in BOOLEAN
  BY DEF TypeOK, Fail, Plans, Programming

LEMMA TypeInit == Init => TypeOK
  BY EnforceAssumption, PlanFacts DEF Init, TypeOK, Plans, Programming, Egress

LEMMA TypeStep == TypeOK /\ [Next]_vars => TypeOK'
<1> SUFFICES ASSUME TypeOK, [Next]_vars PROVE TypeOK'
  OBVIOUS
<1> USE PlanFacts DEF TypeOK, Programming, Checked, history
<1>1. CASE UNCHANGED vars
  BY <1>1 DEF vars, daemon, down, kernel, env
<1>2. CASE Start \/ Wake \/ Shutdown \/ Crash
  BY <1>2 DEF Start, Wake, Shutdown, Crash, daemon, down, kernel, env
<1>3. ASSUME NEW p \in World, List(p) PROVE TypeOK'
  BY <1>3, FailTyped DEF List, daemon, down, kernel, env, Plans
<1>4. CASE ListFails \/ NftRejected \/ IpFails
  BY <1>4, FailTyped DEF ListFails, NftRejected, IpFails, down, kernel, env
<1>5. CASE Preflight
  <2>1. CASE Fail
    BY <1>5, <2>1, FailTyped DEF Preflight, down, kernel, env
  <2>2. CASE pc' \in {"nft", "blind"} /\ UNCHANGED <<started, plan, gi, history>>
    BY <1>5, <2>2 DEF Preflight, down, kernel, env
  <2> QED BY <1>5, <2>1, <2>2 DEF Preflight
<1>6. CASE NftApply
  <2>1. CASE plan = << >>
    BY <1>6, <2>1 DEF NftApply, Finish, down, env
  <2>2. CASE plan # << >>
    <3>1. gi' \in Nat /\ gi' \in DOMAIN plan'
      BY <1>6, <2>2 DEF NftApply
    <3> QED BY <1>6, <2>2, <3>1 DEF NftApply, down, env
  <2> QED BY <2>1, <2>2
<1>7. CASE ReplaceBlackhole
  <2>1. plan[gi] \in Gateway
    BY <1>7 DEF ReplaceBlackhole
  <2> QED BY <1>7, <2>1 DEF ReplaceBlackhole, down, env, Gateway
<1>8. CASE AddRule
  <2>1. plan[gi] \in Gateway
    BY <1>8 DEF AddRule
  <2> QED BY <1>8, <2>1 DEF AddRule, down, env, Gateway
<1>14. CASE AddRuleRefused
  BY <1>14 DEF AddRuleRefused, down, kernel, env
<1>9. CASE SetDefault
  <2>1. plan[gi] \in Gateway
    BY <1>9 DEF SetDefault
  <2>2. CASE plan[gi].egress \in up \cup {Unavailable}
    <3>1. live' \in [Table -> Egress \cup {NoRoute}]
      BY <1>9, <2>1, <2>2 DEF SetDefault, Gateway
    <3>0. NextGateway
      BY <1>9, <2>2 DEF SetDefault
    <3>2. pc' \in {"floor", "idle"} /\ gi' \in Nat /\ plan' \in Plans /\ started' \in BOOLEAN
      <4>1. CASE gi < Len(plan)
        BY <3>0, <4>1 DEF NextGateway
      <4>2. CASE ~(gi < Len(plan))
        BY <3>0, <4>2 DEF NextGateway, Finish
      <4> QED BY <4>1, <4>2
    <3>3. pc' \in Programming => gi' \in DOMAIN plan'
      <4>1. gi \in 1 .. Len(plan) /\ Len(plan) \in Nat
        BY <1>9 DEF SetDefault
      <4>2. gi < Len(plan) => gi + 1 \in 1 .. Len(plan)
        BY <4>1
      <4> QED BY <1>9, <2>2, <4>2 DEF SetDefault, NextGateway, Finish
    <3> QED BY <1>9, <2>2, <3>1, <3>2, <3>3 DEF SetDefault, down, env
  <2>3. CASE plan[gi].egress \notin up \cup {Unavailable}
    BY <1>9, <2>3, FailTyped DEF SetDefault, down, env
  <2> QED BY <2>2, <2>3
<1>10. CASE Down
  <2>1. CASE DownStart \/ DownAborts \/ DownExit
    BY <1>10, <2>1 DEF DownStart, DownAborts, DownExit, daemon, kernel, env
  <2>2. CASE DownNft
    <3>1. CASE Config = << >>
      BY <2>2, <3>1 DEF DownNft, daemon, env
    <3>2. CASE Config # << >>
      <4>1. di' \in Nat /\ di' \in DOMAIN Config
        BY <2>2, <3>2, ConfigFacts DEF DownNft
      <4> QED BY <2>2, <3>2, <4>1 DEF DownNft, daemon, env
    <3> QED BY <3>1, <3>2
  <2>3. CASE DownRule
    BY <2>3 DEF DownRule, daemon, env
  <2>4. CASE DownFlush
    <3>1. Config[di][2] \in Table
      BY <2>4, ConfigFacts DEF DownFlush
    <3>2. di < Len(Config) => di + 1 \in DOMAIN Config
      BY <2>4, ConfigFacts DEF DownFlush
    <3>3. live' \in [Table -> Egress \cup {NoRoute}] /\ floor' \subseteq Table
      BY <2>4, <3>1 DEF DownFlush
    <3>4. /\ dpc' \in {"rule", "done"} /\ di' \in Nat
          /\ dpc' = "rule" => di' \in DOMAIN Config
      BY <2>4, <3>2 DEF DownFlush
    <3> QED BY <2>4, <3>3, <3>4 DEF DownFlush, daemon, env
  <2> QED BY <1>10, <2>1, <2>2, <2>3, <2>4 DEF Down, DownStep
<1>11. ASSUME NEW e \in Egress, EgressDown(e) \/ EgressUp(e) PROVE TypeOK'
  BY <1>11 DEF EgressDown, EgressUp, daemon, down, kernel
<1>12. ASSUME NEW t \in Table, ForeignRoute(t) PROVE TypeOK'
  BY <1>12 DEF ForeignRoute, daemon, down, kernel
<1>13. CASE Reboot
  BY <1>13, EnforceAssumption DEF Reboot, env
<1> QED
  BY <1>1, <1>2, <1>3, <1>4, <1>5, <1>6, <1>7, <1>8, <1>9, <1>10, <1>11, <1>12, <1>13, <1>14
  DEF Next, Daemon, Reconcile, Host

\* The type invariant of the daemon, `degc down` and the kernel state.
THEOREM TypeCorrect == Spec => []TypeOK
  BY TypeInit, TypeStep, PTL DEF Spec

----------------------------------------------------------------------------
(* One table per mark.                                                     *)

\* The marks of p are routed to their own tables or nowhere.
Owned(p) == \A i \in DOMAIN p : Lookups(p[i].mark) \subseteq {p[i].table}

\* MarkOwned is not inductive: AddRule adds a rule for the plan in progress,
\* which has to be free of shared marks since List and, where Preflight was shown
\* the rules, of stale or foreign ones since then; and the table nft holds by
\* then is that plan's or, after a concurrent `down`, none.
Routable ==
  /\ UniqueRouting(nft) /\ (sighted => Owned(nft))
  /\ pc \in {"preflight"} \cup Checked \cup Programming => UniqueRouting(plan)
  /\ pc = "nft" => Owned(plan)
  /\ pc \in Programming => nft \in {plan, << >>} /\ (sighted => Owned(plan))

LEMMA EmptyRoutable == UniqueRouting(<< >>) /\ Owned(<< >>) /\ Owned(<< >>)'
  BY EmptyDomain DEF UniqueRouting, Owned

LEMMA OwnedShrinks == ASSUME NEW p, Owned(p), rules' \subseteq rules PROVE Owned(p)'
  BY DEF Owned, Lookups

LEMMA FailRoutable ==
  ASSUME Routable, Fail, UNCHANGED <<nft, rules>> PROVE Routable'
<1>1. pc' \in {"idle", "off"}
  BY DEF Fail
<1>2. sighted' = sighted
  BY DEF Fail
<1> QED BY <1>1, <1>2, OwnedShrinks DEF Routable, Checked, Programming, Owned, Lookups, UniqueRouting

LEMMA RoutableInit == Init => Routable
  BY EmptyRoutable DEF Init, Routable, Checked, Programming

LEMMA RoutableStep == TypeOK /\ Routable /\ [Next]_vars => Routable'
<1> SUFFICES ASSUME TypeOK, Routable, [Next]_vars PROVE Routable'
  OBVIOUS
<1> USE DEF Checked, Programming, history
<1>1. ASSUME UNCHANGED <<nft, rules, sighted>>, pc' \in {"off", "list", "idle"}
      PROVE  Routable'
  BY <1>1 DEF Routable, Owned, Lookups, UniqueRouting
<1>2. ASSUME UNCHANGED <<nft, pc, plan, sighted>>, rules' \subseteq rules
      PROVE  Routable'
  <2>1. (Owned(nft) => Owned(nft)') /\ (Owned(plan) => Owned(plan)')
    BY <1>2 DEF Routable, Owned, Lookups
  <2> QED BY <1>2, <2>1 DEF Routable, UniqueRouting
<1>3. CASE UNCHANGED vars
  BY <1>2, <1>3 DEF vars, daemon, down, kernel, env
<1>4. CASE Start \/ Wake \/ Shutdown \/ Crash
  BY <1>1, <1>4 DEF Start, Wake, Shutdown, Crash, kernel
<1>5. ASSUME NEW p \in World, List(p) PROVE Routable'
  <2>1. CASE UniqueRouting(p)
    BY <1>5, <2>1 DEF List, kernel, Routable, Owned, Lookups, UniqueRouting
  <2>2. CASE ~UniqueRouting(p)
    BY <1>5, <2>2, FailRoutable DEF List, kernel
  <2> QED BY <2>1, <2>2
<1>6. CASE ListFails \/ NftRejected \/ IpFails
  BY <1>6, FailRoutable DEF ListFails, NftRejected, IpFails, kernel
<1>7. CASE Preflight
  <2>1. CASE Fail
    BY <1>7, <2>1, FailRoutable DEF Preflight, kernel
  <2>2. CASE ~Fail
    <3>1. PICK shown \in {rules, {}}, routed \in SUBSET alien :
            /\ ~ClashIn(plan, shown, routed)
            /\ pc' = IF shown = rules THEN "nft" ELSE "blind"
            /\ UNCHANGED <<started, plan, gi, history>>
      BY <1>7, <2>2 DEF Preflight
    <3>2. pc' = "nft" => Owned(plan)
      BY <3>1 DEF ClashIn, Owned, Lookups
    <3>3. pc' \in {"nft", "blind"} /\ UNCHANGED <<plan, sighted, nft, rules>> /\ pc = "preflight"
      BY <1>7, <3>1 DEF Preflight, kernel
    <3> QED BY <3>2, <3>3 DEF Routable, Owned, Lookups, UniqueRouting
  <2> QED BY <2>1, <2>2
<1>8. CASE NftApply
  <2>1. /\ nft' = plan /\ rules' = rules /\ plan' \in {plan, << >>} /\ pc' \in {"idle", "floor"}
        /\ pc' = "floor" => plan' = plan
        /\ sighted' = (pc = "nft")
    BY <1>8 DEF NftApply, Finish
  <2>2. UniqueRouting(plan) /\ (pc = "nft" => Owned(plan))
    BY <1>8 DEF NftApply, Routable
  <2>3. sighted' => Owned(plan)
    BY <2>1, <2>2
  <2>4. (Owned(nft)' <=> Owned(plan)) /\ (UniqueRouting(nft)' <=> UniqueRouting(plan))
    BY <2>1 DEF Owned, Lookups, UniqueRouting
  <2>5. pc' = "floor" => (Owned(plan)' <=> Owned(plan)) /\ (UniqueRouting(plan)' <=> UniqueRouting(plan))
    BY <2>1 DEF Owned, Lookups, UniqueRouting
  <2> QED BY <2>1, <2>2, <2>3, <2>4, <2>5 DEF Routable
<1>9. CASE ReplaceBlackhole
  BY <1>9 DEF ReplaceBlackhole, Routable, Owned, Lookups, UniqueRouting
<1>10. CASE AddRule
  <2>1. /\ nft' = nft /\ plan' = plan /\ pc = "rule" /\ pc' = "live"
        /\ rules' = rules \cup {<<plan[gi].mark, plan[gi].table>>}
        /\ gi \in DOMAIN plan /\ sighted' = sighted
    BY <1>10 DEF AddRule, TypeOK
  <2>2. UniqueRouting(plan) /\ (sighted => Owned(plan)) /\ nft \in {plan, << >>}
    BY <2>1 DEF Routable
  <2>3. ASSUME sighted PROVE Owned(plan)'
    <3>1. SUFFICES ASSUME NEW i \in DOMAIN plan, NEW t \in Lookups(plan[i].mark)'
                   PROVE  t = plan[i].table
      BY <2>1 DEF Owned
    <3>2. CASE <<plan[i].mark, t>> \in rules
      BY <2>1, <2>2, <2>3, <3>1, <3>2 DEF Owned, Lookups
    <3>3. CASE plan[i].mark = plan[gi].mark /\ t = plan[gi].table
      BY <2>1, <2>2, <3>3 DEF UniqueRouting
    <3> QED BY <2>1, <3>1, <3>2, <3>3 DEF Lookups
  <2>4. (sighted => Owned(nft)') /\ UniqueRouting(nft)'
    BY <2>1, <2>2, <2>3, EmptyRoutable DEF UniqueRouting
  <2> QED BY <2>1, <2>2, <2>3, <2>4 DEF Routable, UniqueRouting
<1>19. CASE AddRuleRefused
  BY <1>19 DEF AddRuleRefused, kernel, Routable, Owned, Lookups, UniqueRouting
<1>11. CASE SetDefault
  <2>1. CASE plan[gi].egress \in up \cup {Unavailable}
    <3>1. /\ nft' = nft /\ rules' = rules /\ pc = "live" /\ sighted' = sighted
          /\ \/ pc' = "idle"
             \/ pc' = "floor" /\ plan' = plan
      BY <1>11, <2>1 DEF SetDefault, NextGateway, Finish
    <3> QED BY <3>1 DEF Routable, Owned, Lookups, UniqueRouting
  <2>2. CASE plan[gi].egress \notin up \cup {Unavailable}
    BY <1>11, <2>2, FailRoutable DEF SetDefault
  <2> QED BY <2>1, <2>2
<1>12. CASE DownStart \/ DownAborts \/ DownExit
  BY <1>2, <1>12 DEF DownStart, DownAborts, DownExit, daemon, kernel
<1>13. CASE DownNft
  <2>1. nft' = << >> /\ UNCHANGED <<pc, plan, rules, sighted>>
    BY <1>13 DEF DownNft, daemon
  <2> QED BY <2>1, EmptyRoutable DEF Routable, Owned, Lookups, UniqueRouting
<1>14. CASE DownRule
  BY <1>2, <1>14 DEF DownRule, daemon
<1>15. CASE DownFlush
  BY <1>2, <1>15 DEF DownFlush, daemon
<1>16. ASSUME NEW e \in Egress, EgressDown(e) \/ EgressUp(e) PROVE Routable'
  BY <1>2, <1>16 DEF EgressDown, EgressUp, daemon, kernel
<1>17. ASSUME NEW t \in Table, ForeignRoute(t) PROVE Routable'
  BY <1>2, <1>17 DEF ForeignRoute, daemon, kernel
<1>18. CASE Reboot
  BY <1>18, EmptyRoutable DEF Reboot, Routable, Owned, Lookups, UniqueRouting
<1> QED
  BY <1>3, <1>4, <1>5, <1>6, <1>7, <1>8, <1>9, <1>10, <1>11, <1>12, <1>13, <1>14,
     <1>15, <1>16, <1>17, <1>18, <1>19
  DEF Next, Daemon, Reconcile, Down, DownStep, Host

\* A mark that the nft table sets, by a plan whose preflight was shown the ip
\* rules, is never looked up in a table other than its gateway's: not after failed
\* or blind reconciles, crashes or a concurrent `down`.
THEOREM MarksOwned == Spec => []MarkOwned
<1>1. Routable => MarkOwned
  BY DEF Routable, Owned, MarkOwned
<1> QED BY <1>1, TypeInit, TypeStep, RoutableInit, RoutableStep, PTL DEF Spec
----------------------------------------------------------------------------
(* What a reconcile has programmed so far.                                 *)

\* Gateway j of the nft table is routed: rule, blackhole, and no live default
\* other than its own egress.
Done(j) == /\ <<nft[j].mark, nft[j].table>> \in rules
           /\ nft[j].table \in floor
           /\ live[nft[j].table] \in {NoRoute, nft[j].egress}

\* NoLeak speaks of finished reconciles; what makes it inductive is how far
\* an unfinished one has come: the gateways before gi are done, the one at gi
\* has its blackhole before its rule, and no gateway shares a table, so doing
\* one undoes no other.
Progress ==
  /\ pc \in Programming => /\ nft = plan
                           /\ \A j \in DOMAIN nft : j < gi => Done(j)
                           /\ pc \in {"rule", "live"} => plan[gi].table \in floor
                           /\ pc = "live" => <<plan[gi].mark, plan[gi].table>> \in rules
  /\ pc \notin Programming => \A j \in DOMAIN nft : Done(j)

Programmed == intact => Progress

LEMMA FailProgrammed ==
  ASSUME Programmed, Fail, UNCHANGED <<nft, rules, floor, live>> PROVE Programmed'
<1> SUFFICES ASSUME intact' PROVE Progress'
  BY DEF Programmed
<1>1. intact /\ pc \notin Programming /\ pc' \notin Programming
  BY DEF Fail, Programming
<1> QED BY <1>1 DEF Programmed, Progress, Done

LEMMA ProgrammedInit == Init => Programmed
  BY DEF Init, Programmed

LEMMA ProgrammedStep == TypeOK /\ Routable /\ Programmed /\ [Next]_vars => Programmed'
<1> SUFFICES ASSUME TypeOK, Routable, Programmed, [Next]_vars, intact' PROVE Progress'
  BY DEF Programmed
<1> USE DEF Checked, history
<1>1. ASSUME UNCHANGED <<nft, rules, floor, live, intact>>,
             pc \notin Programming, pc' \notin Programming
      PROVE  Progress'
  BY <1>1 DEF Programmed, Progress, Done
<1>2. ASSUME UNCHANGED <<pc, plan, gi, nft, rules, floor, live, intact>>
      PROVE  Progress'
  BY <1>2 DEF Programmed, Progress, Done
<1>3. ASSUME Fail, UNCHANGED <<nft, rules, floor, live>> PROVE Progress'
  BY <1>3, FailProgrammed DEF Programmed
<1>4. CASE UNCHANGED vars
  BY <1>2, <1>4 DEF vars, daemon, kernel
<1>5. CASE Start \/ Wake \/ Shutdown
  BY <1>1, <1>5 DEF Start, Wake, Shutdown, kernel, Programming
<1>6. CASE Crash
  <2>1. pc \notin Programming /\ intact /\ pc' \notin Programming
    BY <1>6 DEF Crash, Programming
  <2> QED BY <1>6, <2>1 DEF Crash, kernel, Programmed, Progress, Done
<1>7. ASSUME NEW p \in World, List(p) PROVE Progress'
  <2>1. CASE UniqueRouting(p)
    BY <1>1, <1>7, <2>1 DEF List, kernel, Programming
  <2>2. CASE ~UniqueRouting(p)
    BY <1>3, <1>7, <2>2 DEF List, kernel
  <2> QED BY <2>1, <2>2
<1>8. CASE ListFails \/ NftRejected \/ IpFails
  BY <1>3, <1>8 DEF ListFails, NftRejected, IpFails, kernel
<1>9. CASE Preflight
  <2>1. CASE Fail
    BY <1>3, <1>9, <2>1 DEF Preflight, kernel
  <2>2. CASE pc' \in {"nft", "blind"} /\ UNCHANGED <<started, plan, gi, history>>
    BY <1>1, <1>9, <2>2 DEF Preflight, kernel, Programming
  <2> QED BY <1>9, <2>1, <2>2 DEF Preflight
<1>10. CASE NftApply
  <2>1. CASE plan = << >>
    BY <1>10, <2>1, EmptyDomain DEF NftApply, Finish, Progress, Programming
  <2>2. CASE plan # << >>
    <3>1. nft' = plan /\ plan' = plan /\ gi' = 1 /\ pc' = "floor" /\ plan \in Plans
      BY <1>10, <2>2 DEF NftApply, TypeOK
    <3>2. \A j \in DOMAIN nft' : ~(j < gi')
      BY <3>1, PlanFacts
    <3> QED BY <3>1, <3>2 DEF Progress, Programming
  <2> QED BY <2>1, <2>2
<1>11. CASE ReplaceBlackhole
  <2>1. /\ Progress /\ pc = "floor" /\ pc' = "rule"
        /\ UNCHANGED <<plan, gi, nft, rules, live>>
        /\ floor' = floor \cup {plan[gi].table}
    BY <1>11 DEF ReplaceBlackhole, Programmed
  <2> QED BY <2>1 DEF Progress, Done, Programming
<1>12. CASE AddRule
  <2>1. /\ Progress /\ pc = "rule" /\ pc' = "live"
        /\ UNCHANGED <<plan, gi, nft, floor, live>>
        /\ rules' = rules \cup {<<plan[gi].mark, plan[gi].table>>}
    BY <1>12 DEF AddRule, Programmed
  <2> QED BY <2>1 DEF Progress, Done, Programming
<1>13. CASE SetDefault
  <2>1. CASE plan[gi].egress \notin up \cup {Unavailable}
    BY <1>3, <1>13, <2>1 DEF SetDefault
  <2>2. CASE plan[gi].egress \in up \cup {Unavailable}
    <3> DEFINE t == plan[gi].table
    <3>1. /\ UNCHANGED <<nft, rules, floor>> /\ pc = "live" /\ NextGateway
          /\ live' = [live EXCEPT ![t] = IF plan[gi].egress = Unavailable
                                         THEN NoRoute ELSE plan[gi].egress]
          /\ Progress
      BY <1>13, <2>2 DEF SetDefault, Programmed
    <3>2. /\ nft = plan /\ gi \in DOMAIN plan /\ UniqueRouting(plan)
          /\ plan \in Plans /\ plan[gi] \in Gateway
      BY <3>1, PlanFacts DEF Progress, Programming, TypeOK, Routable
    <3>9. /\ t \in Table
          /\ live'[t] \in {NoRoute, plan[gi].egress}
          /\ \A u \in Table : u # t => live'[u] = live[u]
      BY <3>1, <3>2 DEF TypeOK, Gateway
    <3>3. ASSUME NEW j \in DOMAIN nft, j = gi PROVE Done(j)'
      BY <3>1, <3>2, <3>3, <3>9 DEF Done, Progress, Programming
    <3>4. ASSUME NEW j \in DOMAIN nft, j < gi PROVE Done(j)'
      <4>1. nft[j].table # t /\ Done(j) /\ nft[j] \in Gateway
        BY <3>1, <3>2, <3>4, PlanFacts DEF UniqueRouting, Progress, Programming
      <4>2. nft[j].table \in Table
        BY <4>1 DEF Gateway
      <4> QED BY <3>1, <3>9, <4>1, <4>2 DEF Done
    <3>5. \A j \in DOMAIN nft : j <= gi => Done(j)'
      BY <3>2, <3>3, <3>4, PlanFacts
    <3>6. CASE gi < Len(plan)
      <4>1. pc' = "floor" /\ gi' = gi + 1 /\ plan' = plan
        BY <3>1, <3>6 DEF NextGateway
      <4>2. \A j \in DOMAIN nft : j < gi' => j <= gi
        BY <3>2, <4>1, PlanFacts
      <4> QED BY <3>1, <3>2, <3>5, <4>1, <4>2 DEF Progress, Programming
    <3>7. CASE ~(gi < Len(plan))
      <4>1. pc' = "idle"
        BY <3>1, <3>7 DEF NextGateway, Finish
      <4>2. \A j \in DOMAIN nft : j <= gi
        BY <3>2, <3>7, PlanFacts
      <4> QED BY <3>1, <3>5, <4>1, <4>2 DEF Progress, Programming
    <3> QED BY <3>6, <3>7
  <2> QED BY <2>1, <2>2
<1>14. CASE DownStart \/ DownAborts \/ DownExit
  BY <1>2, <1>14 DEF DownStart, DownAborts, DownExit, daemon, kernel
<1>15. CASE DownNft \/ DownRule \/ DownFlush \/ AddRuleRefused
  BY <1>15 DEF DownNft, DownRule, DownFlush, AddRuleRefused
<1>16. ASSUME NEW e \in Egress, EgressDown(e) PROVE Progress'
  <2>1. /\ UNCHANGED <<pc, plan, gi, nft, rules, floor, intact>>
        /\ \A t \in Table : live'[t] \in {live[t], NoRoute}
    BY <1>16 DEF EgressDown, daemon
  <2>2. \A j \in DOMAIN nft : nft[j].table \in Table
    BY PlanFacts DEF TypeOK, Gateway
  <2>3. \A j \in DOMAIN nft : Done(j) => Done(j)'
    BY <2>1, <2>2 DEF Done
  <2> QED BY <2>1, <2>3 DEF Programmed, Progress
<1>17. ASSUME NEW e \in Egress, EgressUp(e) PROVE Progress'
  BY <1>2, <1>17 DEF EgressUp, daemon, kernel
<1>18. ASSUME NEW t \in Table, ForeignRoute(t) PROVE Progress'
  BY <1>2, <1>18 DEF ForeignRoute, daemon, kernel
<1>19. CASE Reboot
  BY <1>19 DEF Reboot
<1> QED
  BY <1>4, <1>5, <1>6, <1>7, <1>8, <1>9, <1>10, <1>11, <1>12, <1>13, <1>14, <1>15,
     <1>16, <1>17, <1>18, <1>19
  DEF Next, Daemon, Reconcile, Down, DownStep, Host

----------------------------------------------------------------------------
(* The fate of a member's packets.                                         *)

LEMMA FateOfDone ==
  ASSUME TypeOK, sighted => Owned(nft), NEW a \in Addr, NEW i \in Last(a), Done(i),
         NEW out \in Fate(a)
  PROVE  out \in {Dropped, nft[i].egress} \/ Diverted(nft[i], out)
<1> DEFINE g == nft[i]
<1>1. i \in DOMAIN nft /\ g \in Gateway /\ Entries(a) # {}
  BY PlanFacts DEF TypeOK, Last, Entries
<1>2. CASE a \in Addr6
  BY <1>1, <1>2 DEF Fate
<1>3. CASE a \notin Addr6
  <2>1. PICK k \in Last(a) : out \in {KillSwitch(nft[k], o) : o \in Routed(nft[k].mark)}
    BY <1>1, <1>3 DEF Fate
  <2>2. k = i
    <3>1. k \in DOMAIN nft /\ k <= i /\ i <= k
      BY DEF Last, Entries
    <3> QED BY <1>1, <3>1, PlanFacts DEF TypeOK
  <2>3. PICK o \in Routed(g.mark) : out = KillSwitch(g, o)
    BY <2>1, <2>2
  <2>4. g.table \in Table /\ g.table # ForeignTable
    BY <1>1, EnforceAssumption DEF Gateway
  <2>5. g.table \in Lookups(g.mark)
    BY <2>4 DEF Done, Lookups
  <2>6. PICK t \in Lookups(g.mark) : o \in Exits(t)
    BY <2>3, <2>5 DEF Routed
  <2>7. out \in {Dropped, o}
    BY <2>3 DEF KillSwitch
  <2>8. CASE t = g.table
    <3>1. \/ o \in {Dropped, g.egress}
          \/ o = Alien /\ g.table \in alien
      BY <2>4, <2>6, <2>8 DEF Exits, Done
    <3> QED BY <2>7, <3>1 DEF Diverted
  <2>9. CASE t # g.table
    <3>1. ~Owned(nft)
      BY <1>1, <2>9 DEF Owned
    <3>2. t \in Strays(g)
      BY <2>9 DEF Strays
    <3> QED BY <2>6, <2>7, <3>1, <3>2 DEF Diverted
  <2> QED BY <2>8, <2>9
<1> QED BY <1>2, <1>3

\* The kill-switch: once a plan has been programmed, a member's packets leave
\* through the egress of its own gateway or are dropped, in every later state
\* that no `degc down` and no reboot has touched; a foreign route in the
\* gateway's table, or a rule for its mark that preflight was not shown, may
\* divert them, and nothing else.
THEOREM LeakFree == Spec => []NoLeak
<1>1. TypeOK /\ Routable /\ Programmed => NoLeak
  <2> SUFFICES ASSUME TypeOK, Routable, Programmed, Synced,
                      NEW a \in Addr, NEW i \in Last(a), NEW out \in Fate(a)
               PROVE  out \in {Dropped, nft[i].egress} \/ Diverted(nft[i], out)
    BY DEF NoLeak
  <2>1. i \in DOMAIN nft
    BY DEF Last, Entries
  <2>2. Done(i) /\ (sighted => Owned(nft))
    BY <2>1 DEF Synced, Programmed, Progress, Routable
  <2> QED BY <2>2, FateOfDone
<1> QED
  BY <1>1, TypeInit, TypeStep, RoutableInit, RoutableStep, ProgrammedInit, ProgrammedStep,
     PTL DEF Spec
=============================================================================
