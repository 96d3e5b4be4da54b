---------------------------- MODULE SystemProofs ----------------------------
(* Theorems about System, for every set of containers, addresses and       *)
(* gateways that satisfies the assumptions.                                *)
EXTENDS System, EnforceProofs

LEMMA StepsOfEnforce == [SystemNext]_system => [Next]_vars
<1> SUFFICES ASSUME [SystemNext]_system PROVE [Next]_vars
  OBVIOUS
<1>1. CASE UNCHANGED system \/ DockerStep
  BY <1>1 DEF system, DockerStep
<1>2. CASE SystemList
  BY <1>2 DEF SystemList, Next, Daemon, Reconcile
<1>3. CASE SystemNft
  BY <1>3 DEF SystemNft, Next, Daemon, Reconcile
<1>4. CASE SystemDone
  BY <1>4 DEF SystemDone, Next, Daemon, Reconcile
<1>5. CASE SystemEnforce
  BY <1>5 DEF SystemEnforce, Ends, Next, Daemon, Reconcile, Host
<1> QED BY <1>1, <1>2, <1>3, <1>4, <1>5 DEF SystemNext

\* Composing the daemon with containers that change under it adds no behaviour.
THEOREM SystemIsEnforce == SystemSpec => Spec
<1>1. SystemInit => Init
  BY DEF SystemInit
<1> QED BY <1>1, StepsOfEnforce, PTL DEF SystemSpec, Spec

----------------------------------------------------------------------------
(* What is proved of Containers holds here: P names its operators anew, and *)
(* they are the operators of C.                                            *)

P == INSTANCE ContainersProofs WITH Config <- File

LEMMA SameGateways ==
  /\ \A g : P!ValidGateway(g) <=> C!ValidGateway(g)
  /\ \A t : P!Declares(t) = C!Declares(t)
  /\ \A t : P!DiscoveredGateway(t) = C!DiscoveredGateway(t)
  /\ \A t : P!WellFormed(t) <=> C!WellFormed(t)
  /\ \A S : P!Cardinality(S) = C!Cardinality(S)
<1>1. \A S : P!Cardinality(S) = C!Cardinality(S)
  BY DEF P!Cardinality, C!Cardinality
<1>2. \A g : P!ValidGateway(g) <=> C!ValidGateway(g)
  BY <1>1 DEF P!ValidGateway, C!ValidGateway
<1>3. \A t : P!Declares(t) = C!Declares(t)
  BY DEF P!Declares, C!Declares
<1>4. \A t : P!DiscoveredGateway(t) = C!DiscoveredGateway(t)
  BY <1>3 DEF P!DiscoveredGateway, C!DiscoveredGateway, P!LabelSelectors, C!LabelSelectors
<1>5. \A t : P!WellFormed(t) <=> C!WellFormed(t)
  BY <1>2, <1>4 DEF P!WellFormed, C!WellFormed
<1> QED BY <1>1, <1>2, <1>3, <1>4, <1>5

LEMMA SameAssumptions == P!GatewaysAssumption /\ P!PlanAssumption /\ P!ContainersAssumption
<1>1. C!GatewaysAssumption /\ C!PlanAssumption /\ C!ContainersAssumption
  BY SystemAssumption
<1>2. P!GatewaysAssumption
  BY <1>1 DEF C!GatewaysAssumption, P!GatewaysAssumption
<1>3. P!PlanAssumption
  BY <1>1 DEF C!PlanAssumption, P!PlanAssumption, P!IsGateway, C!IsGateway,
              P!Unresolved, C!Unresolved, P!Conflict, C!Conflict, P!Direct, C!Direct
<1>4. P!ContainersAssumption
  BY <1>1, SameGateways DEF C!ContainersAssumption, P!ContainersAssumption, P!ToSet, C!ToSet,
     P!Container, C!Container, P!Names, C!Names, P!ValidDocument, C!ValidDocument,
     P!UniqueRouting, C!UniqueRouting, P!MarkValue, C!MarkValue, P!TableId, C!TableId
<1> QED BY <1>2, <1>3, <1>4

LEMMA SameMerge == \A config, ts : P!Merge(config, ts) = C!Merge(config, ts)
<1>1. \A gs, t : P!Admit(gs, t) = C!Admit(gs, t)
  BY SameGateways DEF P!Admit, C!Admit
<1> QED BY <1>1 DEF P!Merge, C!Merge

LEMMA SameInstances == P!Instances = Instances
<1>1. \A c, as : P!Leased(c, as) = C!Leased(c, as)
  BY DEF P!Leased, C!Leased
<1> QED BY <1>1 DEF P!Instances, Instances

LEMMA SameNext == C!Next => P!Next
<1>1. \A c, as : P!Leased(c, as) = C!Leased(c, as)
  BY DEF P!Leased, C!Leased
<1>2. \A ts : P!Change(ts) <=> C!Change(ts)
  BY SameMerge DEF P!Change, C!Change, P!Names, C!Names
<1>3. P!Running = C!Running /\ P!Addresses = C!Addresses
  BY DEF P!Running, C!Running, P!Addresses, C!Addresses, P!ToSet, C!ToSet
<1>4. \A s, k, e : P!InsertAt(s, k, e) = C!InsertAt(s, k, e)
  BY DEF P!InsertAt, C!InsertAt
<1>5. \A s, k : P!RemoveAt(s, k) = C!RemoveAt(s, k)
  BY DEF P!RemoveAt, C!RemoveAt
<1>6. \A c, as, k : C!StartContainer(c, as, k) => P!StartContainer(c, as, k)
  BY <1>1, <1>2, <1>3, <1>4 DEF C!StartContainer, P!StartContainer, P!ToSet, C!ToSet
<1>7. \A k : C!StopContainer(k) => P!StopContainer(k)
  BY <1>2, <1>5 DEF C!StopContainer, P!StopContainer
<1> QED BY <1>6, <1>7 DEF C!Next, P!Next

----------------------------------------------------------------------------
(* Whatever runs, the daemon has a plan for it.                            *)

Possible == P!AllListed

LEMMA PossibleListed ==
  ASSUME NEW ts, P!Listed(ts) PROVE ts \in Listings
<1>1. /\ ts \in Seq(Instances) /\ Len(ts) <= MaxRunning
      /\ \A i, j \in DOMAIN ts : i # j =>
           /\ ts[i].name # ts[j].name
           /\ C!ToSet(ts[i].addrs) \cap C!ToSet(ts[j].addrs) = {}
  BY SameInstances DEF P!Listed, P!Disjoint, P!Apart, P!ToSet, C!ToSet
<1>2. Len(ts) \in 0 .. MaxRunning /\ ts \in [1 .. Len(ts) -> Instances]
  BY <1>1, LenProperties, SystemAssumption
<1>3. ts \in C!BoundedSeq(Instances, MaxRunning)
  BY <1>2 DEF C!BoundedSeq, C!SeqOf
<1> QED BY <1>1, <1>3 DEF Listings

LEMMA PossibleStep == Possible /\ C!Next => Possible'
  BY SameAssumptions, SameNext, P!ListedStep DEF Possible

LEMMA PossibleInit == SystemInit => Possible
<1>1. SystemInit => P!Init
  BY DEF SystemInit, C!Init, P!Init, C!Names, P!Names
<1> QED BY <1>1, SameAssumptions, P!ListedInit DEF Possible

LEMMA PossibleKept == Possible /\ [SystemNext]_system => Possible'
<1> SUFFICES ASSUME Possible, [SystemNext]_system PROVE Possible'
  OBVIOUS
<1>1. CASE DockerStep
  BY <1>1, PossibleStep DEF DockerStep
<1>2. CASE SystemList \/ SystemNft \/ SystemDone \/ SystemEnforce \/ UNCHANGED system
  <2>1. UNCHANGED targets
    BY <1>2 DEF SystemList, SystemNft, SystemDone, SystemEnforce, Ends, docker, system
  <2> QED BY <2>1 DEF Possible, P!AllListed
<1> QED BY <1>1, <1>2 DEF SystemNext

\* SystemList takes only plans of World, and that excludes nothing: whichever
\* containers have started and stopped, list_targets returns one of Listings,
\* for whose plans SystemAssumption provides, so that the daemon is never kept
\* from a reconcile because its plan is missing from World.
THEOREM EveryPlanInWorld == SystemSpec => [](C!Compiled \in World)
<1>1. Possible => C!Compiled \in World
  BY PossibleListed, SystemAssumption DEF C!Compiled, Possible, P!AllListed
<1> QED BY <1>1, PossibleInit, PossibleKept, PTL DEF SystemSpec

----------------------------------------------------------------------------
(* What the daemon applies is the plan of what it listed.                  *)

Applying == {"preflight"} \cup Checked \cup Programming

Linked ==
  /\ P!Listed(targets)
  /\ pc \in Applying => P!Listed(listing) /\ plan = C!Compile(File, listing)
  /\ intact => P!Listed(programmed) /\ nft = C!Compile(File, programmed)

LEMMA LinkedInit == SystemInit => Linked
<1> SUFFICES ASSUME SystemInit PROVE Linked
  OBVIOUS
<1>1. P!Listed(targets)
  BY PossibleInit DEF Possible, P!AllListed
<1> QED BY <1>1 DEF SystemInit, Init, Linked, Applying, Checked, Programming

LEMMA FailUnlinked == Fail => pc' \in {"idle", "off"} /\ (intact' => intact)
  BY DEF Fail

LEMMA LinkedStep == Linked /\ [SystemNext]_system => Linked'
<1> SUFFICES ASSUME Linked, [SystemNext]_system PROVE Linked'
  OBVIOUS
<1> USE DEF Linked, Applying, Checked, Programming, history
<1>1. CASE UNCHANGED system
  BY <1>1 DEF system, vars, daemon, kernel, docker, ghosts
<1>2. CASE DockerStep
  <2>1. P!Listed(targets')
    BY <1>2, PossibleStep DEF DockerStep, Possible, P!AllListed
  <2>2. UNCHANGED <<pc, plan, intact, nft, listing, programmed>>
    BY <1>2 DEF DockerStep, vars, daemon, kernel
  <2> QED BY <2>1, <2>2
<1>3. CASE SystemList
  <2>1. PICK p \in World : /\ p = C!Compiled /\ List(p)
                           /\ listing' = IF pc' = "preflight" THEN targets ELSE Partial
                           /\ UNCHANGED <<docker, programmed, applied>>
    BY <1>3 DEF SystemList
  <2>2. \/ pc' = "preflight" /\ plan' = C!Compile(File, targets) /\ intact' = intact
        \/ pc' \in {"idle", "off"} /\ (intact' => intact)
    BY <2>1, FailUnlinked DEF List, C!Compiled
  <2>3. UNCHANGED <<nft, targets, programmed>>
    BY <2>1 DEF List, kernel, docker
  <2> QED BY <2>1, <2>2, <2>3
<1>4. CASE SystemNft
  BY <1>4 DEF SystemNft, NftApply, Finish, docker
<1>5. CASE SystemDone
  <2>1. /\ pc' \in {"idle", "off"} \/ (pc' = "floor" /\ plan' = plan)
        /\ intact' => intact
        /\ UNCHANGED <<nft, targets, programmed>>
    BY <1>5, FailUnlinked DEF SystemDone, SetDefault, NextGateway, Finish, docker
  <2>2. pc' # "floor"
    BY <1>5, FailUnlinked DEF SystemDone, LastCommand, SetDefault, NextGateway, Finish
  <2> QED BY <2>1, <2>2
<1>6. CASE SystemEnforce
  <2>1. UNCHANGED <<targets, programmed>>
    BY <1>6 DEF SystemEnforce, Ends, docker, ghosts
  <2>2. pc' \in Applying => listing' = listing
    BY <1>6 DEF SystemEnforce, Ends
  <2>3. /\ pc' \in Applying => pc \in Applying /\ plan' = plan
        /\ intact' => intact /\ nft' = nft
    <3>1. CASE ListFails \/ NftRejected \/ IpFails
      BY <3>1, FailUnlinked DEF ListFails, NftRejected, IpFails, kernel
    <3>10. CASE Preflight
      BY <3>10, FailUnlinked DEF Preflight, kernel
    <3>11. CASE AddRuleRefused
      BY <3>11 DEF AddRuleRefused, kernel
    <3>2. CASE ReplaceBlackhole \/ AddRule
      BY <3>2 DEF ReplaceBlackhole, AddRule
    <3>3. CASE ~LastCommand /\ SetDefault
      BY <3>3, FailUnlinked DEF SetDefault, NextGateway, Finish
    <3>4. CASE Start \/ Wake \/ Shutdown
      BY <3>4 DEF Start, Wake, Shutdown, kernel
    <3>9. CASE Crash
      <4>1. pc' = "off" /\ nft' = nft
        BY <3>9 DEF Crash, kernel
      <4>2. intact' => intact
        BY <3>9 DEF Crash
      <4> QED BY <4>1, <4>2
    <3>8. CASE Reboot
      BY <3>8 DEF Reboot
    <3>5. CASE Down
      BY <3>5 DEF Down, DownStep, DownStart, DownNft, DownRule, DownFlush, DownAborts, DownExit,
                  daemon, kernel
    <3>6. ASSUME NEW e \in Egress, EgressDown(e) \/ EgressUp(e)
          PROVE  (pc' \in Applying => pc \in Applying /\ plan' = plan)
                 /\ (intact' => intact /\ nft' = nft)
      BY <3>6 DEF EgressDown, EgressUp, daemon, kernel
    <3>7. ASSUME NEW t \in Table, ForeignRoute(t)
          PROVE  (pc' \in Applying => pc \in Applying /\ plan' = plan)
                 /\ (intact' => intact /\ nft' = nft)
      BY <3>7 DEF ForeignRoute, daemon, kernel
    <3> QED BY <1>6, <3>1, <3>2, <3>3, <3>4, <3>5, <3>6, <3>7, <3>8, <3>9,
              <3>10, <3>11
           DEF SystemEnforce, Ends
  <2> QED BY <2>1, <2>2, <2>3
<1> QED BY <1>1, <1>2, <1>3, <1>4, <1>5, <1>6 DEF SystemNext

----------------------------------------------------------------------------
(* From the listing to the packets.                                        *)

LEMMA PlanOfList ==
  ASSUME NEW ts, nft = C!Compile(File, ts)
  PROVE  LET gs == C!Merge(File, ts)
         IN  /\ DOMAIN nft = DOMAIN gs
             /\ \A i \in DOMAIN gs : /\ nft[i].table = C!TableId(gs[i])
                                     /\ nft[i].egress = C!ResolveEgress(gs[i], ts)
                                     /\ nft[i].members = C!Members(gs, gs[i], ts)
  BY DEF C!Compile

\* Addresses being disjoint, an address is a member where its container is.
LEMMA MemberOf ==
  ASSUME NEW ts, P!Listed(ts), NEW gs, NEW g, NEW t \in C!ToSet(ts), NEW a \in C!ToSet(t.addrs)
  PROVE  a \in C!Members(gs, g, ts) <=> C!Assignment(gs, t) = g.name
<1>1. PICK k \in DOMAIN ts : ts[k] = t
  BY DEF C!ToSet
<1>2. \A j \in DOMAIN ts : a \in C!ToSet(ts[j].addrs) => j = k
  <2>1. \A s : P!ToSet(s) = C!ToSet(s)
    BY DEF P!ToSet, C!ToSet
  <2>2. P!Disjoint(ts)
    BY DEF P!Listed
  <2>3. \A j \in DOMAIN ts : j # k => P!ToSet(ts[j].addrs) \cap P!ToSet(ts[k].addrs) = {}
    BY <2>2 DEF P!Disjoint, P!Apart
  <2> QED BY <1>1, <2>1, <2>3
<1>3. a \in C!Members(gs, g, ts) <=>
        \E j \in DOMAIN ts : C!Assignment(gs, ts[j]) = g.name /\ a \in C!ToSet(ts[j].addrs)
  BY DEF C!Members, C!ToSet
<1> QED BY <1>1, <1>2, <1>3

\* The gateways that a container is a member of.
Mine(gs, t) == {i \in DOMAIN gs : gs[i].name = C!Assignment(gs, t)}

LEMMA FateOfListed ==
  ASSUME Linked, NoLeak, Synced, NEW gs, gs = C!Merge(File, programmed),
         NEW t \in C!ToSet(programmed), NEW a \in C!ToSet(t.addrs) \cap Addr4
  PROVE  /\ Mine(gs, t) = {} => Fate(a) = {Wan}
         /\ Mine(gs, t) # {} => \A out \in Fate(a) :
              out = Dropped \/ \E i \in Mine(gs, t) :
                \/ out = C!ResolveEgress(gs[i], programmed) /\ out # Unavailable
                \/ Diverted(nft[i], out)
<1>1. P!Listed(programmed) /\ nft = C!Compile(File, programmed)
  BY DEF Linked, Synced
<1>2. /\ DOMAIN nft = DOMAIN gs
      /\ \A i \in DOMAIN gs : /\ nft[i].table = C!TableId(gs[i])
                              /\ nft[i].egress = C!ResolveEgress(gs[i], programmed)
                              /\ nft[i].members = C!Members(gs, gs[i], programmed)
  BY <1>1, PlanOfList
<1>3. Entries(a) = Mine(gs, t)
  <2>1. \A i \in DOMAIN gs : a \in nft[i].members <=> gs[i].name = C!Assignment(gs, t)
    BY <1>1, <1>2, MemberOf
  <2> QED BY <1>2, <2>1 DEF Entries, Mine
<1>4. ASSUME Mine(gs, t) = {} PROVE Fate(a) = {Wan}
  BY <1>3, <1>4 DEF Fate
<1>5. ASSUME Mine(gs, t) # {}, NEW out \in Fate(a)
      PROVE  out = Dropped \/ \E i \in Mine(gs, t) :
               \/ out = C!ResolveEgress(gs[i], programmed) /\ out # Unavailable
               \/ Diverted(nft[i], out)
  <2>1. a \notin Addr6 /\ a \in Addr
    BY EnforceAssumption DEF Addr
  <2>2. PICK i \in Last(a) : out \in {KillSwitch(nft[i], o) : o \in Routed(nft[i].mark)}
    BY <1>3, <1>5, <2>1 DEF Fate
  <2>3. i \in Mine(gs, t) /\ i \in DOMAIN gs
    BY <1>3, <2>2 DEF Last, Mine
  <2>4. out \in {Dropped, nft[i].egress} \/ Diverted(nft[i], out)
    BY <1>5, <2>1, <2>2 DEF NoLeak
  <2>5. nft[i].egress = Unavailable => out = Dropped
    BY <2>2 DEF KillSwitch
  <2> QED BY <1>2, <2>3, <2>4, <2>5
<1> QED BY <1>4, <1>5

LEMMA LinkedPlanned == Linked /\ NoLeak => AsPlanned
  BY FateOfListed DEF AsPlanned, Mine

\* From labels to packets: once a reconcile has programmed the host, every
\* container of its listing goes where the plan of that listing says, for all
\* containers, labels, gateways and histories.
THEOREM SystemFollowsPlan == SystemSpec => []AsPlanned
<1>1. SystemSpec => []Linked
  BY LinkedInit, LinkedStep, PTL DEF SystemSpec
<1>2. SystemSpec => []NoLeak
  BY SystemIsEnforce, LeakFree, PTL
<1> QED BY <1>1, <1>2, LinkedPlanned, PTL

----------------------------------------------------------------------------
(* From what a container asks for to its packets.                          *)

LEMMA SameEgresses == \A g, ts : P!ResolveEgress(g, ts) = C!ResolveEgress(g, ts)
<1>1. \A I : P!First(I) = C!First(I)
  BY DEF P!First, C!First
<1>2. \A addrs : P!Ipv4(addrs) = C!Ipv4(addrs)
  BY <1>1 DEF P!Ipv4, C!Ipv4, P!Unavailable, C!Unavailable
<1>3. \A sel, ts : P!GatewayContainerIp(sel, ts) = C!GatewayContainerIp(sel, ts)
  BY <1>1, <1>2 DEF P!GatewayContainerIp, C!GatewayContainerIp, P!Unavailable, C!Unavailable
<1> QED BY <1>3 DEF P!ResolveEgress, C!ResolveEgress

LEMMA ListedGateways ==
  ASSUME NEW ts, P!Listed(ts), NEW gs, gs = C!Merge(File, ts)
  PROVE  /\ C!Names(gs) \subseteq GatewayName
         /\ \A i \in DOMAIN gs : P!ValidGateway(gs[i])
<1>1. gs = P!Merge(File, ts)
  BY SameMerge
<1>2. P!Names(gs) \subseteq GatewayName /\ \A i \in DOMAIN gs : P!ValidGateway(gs[i])
  BY <1>1, SameAssumptions, P!MergedProperties
<1> QED BY <1>2 DEF P!Names, C!Names

LEMMA AskedFor ==
  ASSUME NEW gs, NEW t, Asks(t), t.via \in C!Names(gs)
  PROVE  C!Assignment(gs, t) = t.via
<1>1. C!Resolve(gs, t.via) = t.via /\ t.via # None
  BY DEF Asks, C!Resolve, C!Names
<1> QED BY <1>1 DEF Asks, C!Assignment

LEMMA NothingAsked ==
  ASSUME NEW gs, C!Names(gs) \subseteq GatewayName, NEW t, AsksNothing(t)
  PROVE  Mine(gs, t) = {}
<1>1. \A s : ~C!SelectorMatches(s, t)
  BY DEF AsksNothing, C!SelectorMatches
<1>2. {i \in DOMAIN gs : \E s \in gs[i].members : C!SelectorMatches(s, t)} = {}
  BY <1>1
<1>3. C!Assignment(gs, t) = C!Direct
  BY <1>2 DEF AsksNothing, C!Assignment
<1>4. C!Direct \notin GatewayName
  BY SystemAssumption DEF C!PlanAssumption
<1> QED BY <1>3, <1>4 DEF Mine, C!Names

\* What an egress resolves to is one of the ways of its gateway.
LEMMA EgressWays ==
  ASSUME NEW ts, P!Listed(ts), NEW gs, gs = C!Merge(File, ts), NEW i \in DOMAIN gs,
         C!ResolveEgress(gs[i], ts) # Unavailable
  PROVE  C!ResolveEgress(gs[i], ts) \in Ways(gs, gs[i].name, ts)
<1> DEFINE g == gs[i]
           out == C!ResolveEgress(g, ts)
<1>0. g = gs[i] /\ out = P!ResolveEgress(g, ts) /\ out # Unavailable
  BY SameEgresses
<1>1. g \in {h \in C!ToSet(gs) : h.name = gs[i].name}
  BY DEF C!ToSet
<1>2. P!ValidGateway(g)
  BY ListedGateways
<1> HIDE DEF g, out
<1>3. CASE g.egress.interface # None
  BY <1>0, <1>1, <1>3 DEF P!ResolveEgress, Ways, out
<1>4. CASE g.egress.interface = None /\ g.egress.nextHop # None
  BY <1>0, <1>1, <1>4 DEF P!ResolveEgress, Ways, out
<1>5. CASE g.egress.interface = None /\ g.egress.nextHop = None
  <2> DEFINE sel == g.egress.container
  <2>1. sel # None
    BY <1>2, <1>5, SameAssumptions, P!OneEgress
  <2>2. out = P!GatewayContainerIp(sel, ts)
    BY <1>0, <1>5 DEF P!ResolveEgress
  <2>3. /\ DOMAIN ts \in SUBSET Nat
        /\ \A k \in DOMAIN ts : DOMAIN ts[k].addrs \in SUBSET Nat
    <3>1. /\ DOMAIN ts = 1 .. Len(ts) /\ Len(ts) \in Nat
          /\ \A k \in DOMAIN ts : ts[k] \in P!Instances
      BY LenProperties DEF P!Listed
    <3>2. \A k \in DOMAIN ts : ts[k].addrs \in Seq(Addr4 \cup Addr6)
      BY <3>1, SameAssumptions, P!InstanceTypes
    <3>3. \A k \in DOMAIN ts :
            DOMAIN ts[k].addrs = 1 .. Len(ts[k].addrs) /\ Len(ts[k].addrs) \in Nat
      BY <3>2, LenProperties
    <3> QED BY <3>1, <3>3
  <2> HIDE DEF sel
  <2>4. P!Unavailable = Unavailable
    BY DEF P!Unavailable, Unavailable
  <2>5. \E t \in P!ToSet(ts) : sel \in {t.name, t.service}
                               /\ P!GatewayContainerIp(sel, ts) \in P!ToSet(t.addrs) \cap Addr4
    BY <1>0, <2>2, <2>3, <2>4, SameAssumptions, P!IpOfNamed
  <2>6. PICK t \in C!ToSet(ts) : sel \in {t.name, t.service} \ {None} /\ out \in C!ToSet(t.addrs)
    BY <2>1, <2>2, <2>5 DEF P!ToSet, C!ToSet
  <2>7. t \in Carriers(gs, gs[i].name, ts)
    BY <1>1, <2>6 DEF Carriers, sel
  <2> QED BY <2>6, <2>7 DEF Ways, g, out
<1> QED BY <1>3, <1>4, <1>5 DEF g, out

\* While the containers of a gateway run as they were listed, its ways stay.
LEMMA WaysKept ==
  ASSUME NEW gs, NEW n, NEW ts, Carriers(gs, n, ts) \subseteq Running
  PROVE  Ways(gs, n, ts) \subseteq Ways(gs, n, targets)
<1>1. Carriers(gs, n, ts) \subseteq Carriers(gs, n, targets)
  BY DEF Carriers, Running
<1> QED BY <1>1 DEF Ways

LEMMA LinkedAsked == Linked /\ NoLeak => AsAsked
<1> DEFINE gs == C!Merge(File, programmed)
<1> SUFFICES ASSUME Linked, NoLeak, Synced,
                    NEW t \in C!ToSet(programmed) \cap Running, NEW a \in C!ToSet(t.addrs) \cap Addr4
             PROVE  /\ (/\ Asks(t) /\ t.via \in C!Names(gs)
                        /\ Carriers(gs, t.via, programmed) \subseteq Running) =>
                         \A out \in Fate(a) :
                           \/ out \in {Dropped} \cup Ways(gs, t.via, targets)
                           \/ \E i \in DOMAIN gs : gs[i].name = t.via /\ Diverted(nft[i], out)
                    /\ AsksNothing(t) => Fate(a) = {Wan}
  BY DEF AsAsked
<1>0. gs = C!Merge(File, programmed) /\ P!Listed(programmed)
  BY DEF Linked, Synced
<1> HIDE DEF gs
<1>1. /\ Mine(gs, t) = {} => Fate(a) = {Wan}
      /\ Mine(gs, t) # {} => \A out \in Fate(a) :
           out = Dropped \/ \E i \in Mine(gs, t) :
             \/ out = C!ResolveEgress(gs[i], programmed) /\ out # Unavailable
             \/ Diverted(nft[i], out)
  BY <1>0, FateOfListed
<1>2. ASSUME Asks(t), t.via \in C!Names(gs), Carriers(gs, t.via, programmed) \subseteq Running,
             NEW out \in Fate(a)
      PROVE  \/ out \in {Dropped} \cup Ways(gs, t.via, targets)
             \/ \E i \in DOMAIN gs : gs[i].name = t.via /\ Diverted(nft[i], out)
  <2>1. C!Assignment(gs, t) = t.via
    BY <1>2, AskedFor
  <2>2. Mine(gs, t) # {} /\ \A i \in Mine(gs, t) : i \in DOMAIN gs /\ gs[i].name = t.via
    BY <1>2, <2>1 DEF Mine, C!Names
  <2>3. \A i \in Mine(gs, t) : C!ResolveEgress(gs[i], programmed) # Unavailable
          => C!ResolveEgress(gs[i], programmed) \in Ways(gs, t.via, programmed)
    BY <1>0, <2>2, EgressWays
  <2>4. Ways(gs, t.via, programmed) \subseteq Ways(gs, t.via, targets)
    BY <1>2, WaysKept
  <2> QED BY <1>1, <1>2, <2>2, <2>3, <2>4
<1>3. ASSUME AsksNothing(t) PROVE Fate(a) = {Wan}
  BY <1>0, <1>1, <1>3, NothingAsked, ListedGateways
<1> QED BY <1>2, <1>3 DEF gs

\* Whoever names a gateway that exists is routed, while the containers of that
\* gateway run as they were listed, by what has that gateway's addresses now or
\* nowhere, or is diverted as LeakFree says; and whoever asks for nothing keeps
\* the host's own route, after any history of containers, failed reconciles,
\* crashes and link flaps.
THEOREM SystemAsAsked == SystemSpec => []AsAsked
<1>1. SystemSpec => []Linked
  BY LinkedInit, LinkedStep, PTL DEF SystemSpec
<1>2. SystemSpec => []NoLeak
  BY SystemIsEnforce, LeakFree, PTL
<1> QED BY <1>1, <1>2, LinkedAsked, PTL

----------------------------------------------------------------------------
(* System implements Watch: a reconcile, command by command and with       *)
(* containers changing under it, is the one step that Watch takes it for.  *)

Resting ==
  /\ Possible
  /\ pc \notin Applying => listing = Partial
  /\ pc = "off" => ~started
  /\ missed \in BOOLEAN

LEMMA LoopStates ==
  /\ pc \in Applying => LoopState = "apply"
  /\ pc \in {"off", "list", "idle"} => LoopState = pc
  BY DEF LoopState, Applying, Checked, Programming

\* A container that starts or stops changes the list.
LEMMA DockerChanges == Possible /\ C!Next => targets' # targets
  BY PossibleStep, SameAssumptions, SameNext, P!StepChanges DEF Possible

----------------------------------------------------------------------------
(* What a step of Enforce does to the daemon.                              *)

Fails(p)  == /\ pc = p /\ pc' = IF started THEN "idle" ELSE "off"
             /\ started' = started
Goes(p)   == pc' = p /\ started' = started
Ended     == pc' = "idle" /\ started' = TRUE

LEMMA ListSteps == \A p : List(p) => pc = "list" /\ (Goes("preflight") \/ Fails("list"))
  BY DEF List, Fail, Fails, Goes

LEMMA NftSteps == NftApply => /\ pc \in Checked
                              /\ plan = << >> => Ended
                              /\ plan # << >> => Goes("floor")
  BY DEF NftApply, Finish, Ended, Goes

LEMMA LastSteps == TypeOK /\ LastCommand /\ SetDefault => pc = "live" /\ Ended
<1> SUFFICES ASSUME TypeOK, LastCommand, SetDefault PROVE pc = "live" /\ Ended
  OBVIOUS
<1>1. gi \in Nat /\ ~(gi < Len(plan))
  BY DEF TypeOK, LastCommand
<1> QED BY <1>1 DEF LastCommand, SetDefault, NextGateway, Finish, Ended

LEMMA DefaultSteps ==
  TypeOK /\ ~LastCommand /\ SetDefault => pc = "live" /\ (Goes("floor") \/ Fails("live"))
<1> SUFFICES ASSUME TypeOK, ~LastCommand, SetDefault
             PROVE  pc = "live" /\ (Goes("floor") \/ Fails("live"))
  OBVIOUS
<1>1. pc = "live" /\ gi \in DOMAIN plan /\ plan \in Seq(Gateway)
  BY EnforceAssumption, EmptySeq DEF TypeOK, SetDefault, Programming, Plans
<1>2. gi \in 1 .. Len(plan) /\ Len(plan) \in Nat
  BY <1>1, LenProperties
<1>3. CASE plan[gi].egress \in up \cup {Unavailable}
  <2>1. gi < Len(plan)
    BY <1>1, <1>2, <1>3 DEF LastCommand
  <2> QED BY <1>1, <1>3, <2>1 DEF SetDefault, NextGateway, Goes
<1>4. CASE plan[gi].egress \notin up \cup {Unavailable}
  BY <1>1, <1>4 DEF SetDefault, Fail, Fails
<1> QED BY <1>3, <1>4

----------------------------------------------------------------------------
(* The same as steps of Watch.                                             *)

\* A reconcile fails: it is logged, or ends the process at startup.
LEMMA FailureLoops ==
  ASSUME Resting, pc \in {"list"} \cup Applying, Fails(pc),
         targets' = targets, listing' = Partial,
         applied' = IF pc \in Programming THEN Partial ELSE applied,
         missed' = (missed \/ (started /\ pc # "idle" /\ pc' = "idle"))
  PROVE  W!Next
<1>1. LoopState' = pc' /\ pc' \in {"idle", "off"}
  BY DEF Fails, LoopState, Checked, Programming
<1>2. W!Fail
  <2>1. CASE started
    <3>1. pc # "idle" /\ pc' = "idle" /\ started' = started /\ missed' = TRUE
      BY <2>1 DEF Fails, Applying, Checked, Programming
    <3> QED BY <1>1, <2>1, <3>1 DEF W!Fail, W!task
  <2>2. CASE ~started
    <3>1. pc' = "off" /\ ~started' /\ missed' = missed
      BY <2>2 DEF Fails, Resting
    <3> QED BY <1>1, <2>2, <3>1 DEF W!Fail, W!Exit
  <2> QED BY <2>1, <2>2
<1>3. CASE pc = "list"
  <2>1. LoopState = "list" /\ listing = Partial /\ applied' = applied
    BY <1>3, LoopStates DEF Resting, Applying, Checked, Programming
  <2> QED BY <1>2, <2>1 DEF W!ListFails, W!Next, W!Daemon, W!Work
<1>4. CASE pc \in Applying
  <2>1. LoopState = "apply" /\ applied' \in {applied, Partial}
    BY <1>4, LoopStates
  <2> QED BY <1>2, <2>1 DEF W!ApplyFails, W!Next, W!Daemon, W!Work
<1> QED BY <1>3, <1>4

\* A reconcile succeeds.
LEMMA SuccessLoops ==
  ASSUME pc \in Applying, Ended, UNCHANGED <<targets, missed>>,
         applied' = listing, listing' = Partial
  PROVE  W!Next
<1>1. LoopState = "apply" /\ LoopState' = "idle"
  BY LoopStates DEF Ended, LoopState, Checked, Programming
<1>2. W!Apply
  BY <1>1 DEF W!Apply, Ended
<1> QED BY <1>2 DEF W!Next, W!Daemon, W!Work

\* The process ends, whatever it was doing.
LEMMA EndLoops ==
  ASSUME pc # "off", pc' = "off", started' = FALSE, UNCHANGED <<targets, missed>>,
         applied' = IF pc \in Programming THEN Partial ELSE applied, listing' = Partial
  PROVE  W!Next
<1>1. LoopState # "off" /\ LoopState' = "off"
  BY DEF LoopState, Checked, Programming
<1>2. applied' \in IF LoopState = "apply" THEN {applied, Partial} ELSE {applied}
  BY DEF LoopState
<1>3. W!Crash
  BY <1>1, <1>2 DEF W!Crash, W!Exit
<1> QED BY <1>3 DEF W!Next, W!Daemon

\* A command within a reconcile, or a step of nobody in the loop.
LEMMA StutterLoops ==
  ASSUME pc' = pc \/ (pc \in Applying /\ pc' \in Applying),
         started' = started, UNCHANGED <<targets, listing, applied, missed>>
  PROVE  UNCHANGED W!vars
<1>1. LoopState' = LoopState
  BY DEF LoopState, Applying
<1> QED BY <1>1 DEF W!vars, W!loop, W!task

LEMMA EnforceEnds ==
  ASSUME TypeOK,
         \/ ListFails \/ Preflight \/ NftRejected \/ ReplaceBlackhole \/ AddRule
         \/ AddRuleRefused \/ (~LastCommand /\ SetDefault) \/ IpFails \/ Crash \/ Reboot
  PROVE  \/ pc \in {"list"} \cup Applying /\ Fails(pc)
         \/ pc \in Applying /\ pc' \in Applying /\ started' = started
         \/ pc' = "off" /\ started' = FALSE
<1> USE DEF Applying, Checked, Programming
<1>1. CASE ListFails \/ NftRejected \/ IpFails
  BY <1>1 DEF ListFails, NftRejected, IpFails, Fail, Fails
<1>2. CASE Preflight
  BY <1>2 DEF Preflight, Fail, Fails
<1>3. CASE ReplaceBlackhole \/ AddRule \/ AddRuleRefused
  BY <1>3 DEF ReplaceBlackhole, AddRule, AddRuleRefused
<1>4. CASE ~LastCommand /\ SetDefault
  BY <1>4, DefaultSteps DEF Goes
<1>5. CASE Crash \/ Reboot
  BY <1>5 DEF Crash, Reboot
<1> QED BY <1>1, <1>2, <1>3, <1>4, <1>5

LEMMA EnforceRests ==
  ASSUME \/ Start \/ Wake \/ Shutdown \/ Down
         \/ \E e \in Egress : EgressDown(e) \/ EgressUp(e)
         \/ \E t \in Table : ForeignRoute(t)
  PROVE  \/ pc = "off" /\ pc' = "list" /\ started' = FALSE
         \/ pc = "idle" /\ Goes("list")
         \/ pc = "idle" /\ pc' = "off" /\ started' = FALSE
         \/ UNCHANGED <<pc, started>>
<1>1. CASE Start \/ Wake \/ Shutdown
  BY <1>1 DEF Start, Wake, Shutdown, Goes
<1>2. CASE Down
  BY <1>2 DEF Down, DownStep, DownStart, DownNft, DownRule, DownFlush, DownAborts, DownExit,
              daemon
<1>3. CASE \/ \E e \in Egress : EgressDown(e) \/ EgressUp(e)
           \/ \E t \in Table : ForeignRoute(t)
  BY <1>3 DEF EgressDown, EgressUp, ForeignRoute, daemon
<1> QED BY <1>1, <1>2, <1>3

----------------------------------------------------------------------------
LEMMA LoopStep ==
  TypeOK /\ Resting /\ [SystemNext]_system => Resting' /\ [W!Next]_(W!vars)
<1> SUFFICES ASSUME TypeOK, Resting, [SystemNext]_system
             PROVE  Resting' /\ [W!Next]_(W!vars)
  OBVIOUS
<1> USE DEF Applying, Checked, Programming
<1>1. Possible'
  BY PossibleKept DEF Resting
<1>2. ASSUME UNCHANGED <<pc, started, targets, listing, applied, missed>>
      PROVE  Resting' /\ [W!Next]_(W!vars)
  BY <1>1, <1>2, StutterLoops DEF Resting
<1>3. CASE UNCHANGED system
  BY <1>2, <1>3 DEF system, vars, daemon, docker, ghosts
<1>4. CASE DockerStep
  <2>1. /\ UNCHANGED <<pc, started, listing, applied>> /\ missed' = TRUE
        /\ targets' # targets /\ targets' \in Listings
    BY <1>1, <1>4, DockerChanges, PossibleListed DEF DockerStep, vars, daemon, Resting, Possible, P!AllListed
  <2>2. LoopState' = LoopState
    BY <2>1 DEF LoopState
  <2>3. W!QuietChange(targets')
    BY <2>1, <2>2 DEF W!QuietChange, W!loop, W!task
  <2>4. W!Next
    BY <2>1, <2>3 DEF W!Next, W!Docker
  <2> QED BY <1>1, <2>1, <2>4 DEF Resting
<1>5. CASE SystemList
  <2>1. PICK p \in World : /\ List(p)
                           /\ listing' = IF pc' = "preflight" THEN targets ELSE Partial
                           /\ missed' = (pc' = "idle" \/ (missed /\ pc' = "off"))
                           /\ UNCHANGED <<targets, applied>>
    BY <1>5 DEF SystemList, docker
  <2>2. pc = "list" /\ (Goes("preflight") \/ Fails("list"))
    BY <2>1, ListSteps
  <2>3. CASE Goes("preflight")
    <3>1. LoopState = "list" /\ LoopState' = "apply"
      BY <2>2, <2>3 DEF LoopState, Goes
    <3>2. W!List
      BY <2>1, <2>3, <3>1 DEF W!List, W!task, Goes
    <3> QED BY <1>1, <2>1, <2>3, <3>2 DEF Resting, Goes, W!Next, W!Daemon, W!Work
  <2>4. CASE Fails("list")
    <3>1. /\ listing' = Partial /\ applied' = applied
          /\ missed' = (missed \/ (started /\ pc # "idle" /\ pc' = "idle"))
      BY <2>1, <2>2, <2>4 DEF Fails, Resting
    <3>2. W!Next
      BY <2>1, <2>2, <2>4, <3>1, FailureLoops
    <3> QED BY <1>1, <2>4, <3>1, <3>2 DEF Resting, Fails
  <2> QED BY <2>2, <2>3, <2>4
<1>6. CASE SystemNft
  <2>1. UNCHANGED <<targets, missed>>
    BY <1>6 DEF SystemNft, docker
  <2>2. pc \in Checked /\ (plan = << >> => Ended) /\ (plan # << >> => Goes("floor"))
    BY <1>6, NftSteps DEF SystemNft
  <2>3. CASE plan = << >>
    <3>1. applied' = listing /\ listing' = Partial
      BY <1>6, <2>3 DEF SystemNft
    <3>2. W!Next
      BY <2>1, <2>2, <2>3, <3>1, SuccessLoops
    <3> QED BY <1>1, <2>1, <2>2, <2>3, <3>1, <3>2 DEF Resting, Ended
  <2>4. CASE plan # << >>
    <3>1. UNCHANGED <<applied, listing>>
      BY <1>6, <2>4 DEF SystemNft
    <3>2. UNCHANGED W!vars
      BY <2>1, <2>2, <2>4, <3>1, StutterLoops DEF Goes
    <3> QED BY <1>1, <2>1, <2>2, <2>4, <3>1, <3>2 DEF Resting, Goes
  <2> QED BY <2>3, <2>4
<1>7. CASE SystemDone
  <2>1. applied' = listing /\ listing' = Partial /\ UNCHANGED <<targets, missed>>
    BY <1>7 DEF SystemDone, docker
  <2>2. pc = "live" /\ Ended
    BY <1>7, LastSteps DEF SystemDone
  <2>3. W!Next
    BY <2>1, <2>2, SuccessLoops
  <2> QED BY <1>1, <2>1, <2>2, <2>3 DEF Resting, Ended
<1>8. CASE Ends(\/ ListFails \/ Preflight \/ NftRejected \/ ReplaceBlackhole
                \/ AddRule \/ AddRuleRefused \/ (~LastCommand /\ SetDefault)
                \/ IpFails \/ Crash \/ Reboot)
  <2>1. /\ applied' = IF pc \in Programming /\ pc' \in {"off", "idle"} THEN Partial ELSE applied
        /\ missed' = (missed \/ (started /\ pc # "idle" /\ pc' = "idle"))
        /\ listing' = IF pc' \in {"off", "idle"} THEN Partial ELSE listing
        /\ targets' = targets
    BY <1>8 DEF Ends, docker
  <2>2. \/ pc \in {"list"} \cup Applying /\ Fails(pc)
        \/ pc \in Applying /\ pc' \in Applying /\ started' = started
        \/ pc' = "off" /\ started' = FALSE
    BY <1>8, EnforceEnds DEF Ends
  <2>3. CASE pc \in {"list"} \cup Applying /\ Fails(pc)
    <3>1. pc' \in {"off", "idle"} /\ (pc' = "off" => ~started')
      BY <2>3 DEF Fails
    <3>2. W!Next
      BY <2>1, <2>3, <3>1, FailureLoops
    <3> QED BY <1>1, <2>1, <3>1, <3>2 DEF Resting
  <2>4. CASE pc \in Applying /\ pc' \in Applying /\ started' = started
    <3>1. UNCHANGED <<applied, listing, missed>>
      BY <2>1, <2>4 DEF Resting
    <3>2. UNCHANGED W!vars
      BY <2>1, <2>4, <3>1, StutterLoops
    <3> QED BY <1>1, <2>4, <3>1, <3>2 DEF Resting
  <2>5. CASE pc' = "off" /\ started' = FALSE
    <3>1. missed' = missed /\ listing' = Partial
      BY <2>1, <2>5 DEF Resting
    <3>2. [W!Next]_(W!vars)
      <4>1. CASE pc = "off"
        <5>1. UNCHANGED <<pc, started, targets, listing, applied, missed>>
          BY <2>1, <2>5, <3>1, <4>1 DEF Resting, TypeOK
        <5> QED BY <5>1, StutterLoops
      <4>2. CASE pc # "off"
        BY <2>1, <2>5, <3>1, <4>2, EndLoops
      <4> QED BY <4>1, <4>2
    <3> QED BY <1>1, <2>5, <3>1, <3>2 DEF Resting
  <2> QED BY <2>2, <2>3, <2>4, <2>5
<1>9. CASE /\ \/ Start \/ Wake \/ Shutdown \/ Down
              \/ \E e \in Egress : EgressDown(e) \/ EgressUp(e)
              \/ \E t \in Table : ForeignRoute(t)
           /\ UNCHANGED <<docker, listing, ghosts>>
  <2>1. UNCHANGED <<targets, listing, applied, missed>>
    BY <1>9 DEF docker, ghosts
  <2>2. \/ pc = "off" /\ pc' = "list" /\ started' = FALSE
        \/ pc = "idle" /\ Goes("list")
        \/ pc = "idle" /\ pc' = "off" /\ started' = FALSE
        \/ UNCHANGED <<pc, started>>
    BY <1>9, EnforceRests
  <2>3. CASE pc = "off" /\ pc' = "list" /\ started' = FALSE
    <3>1. LoopState = "off" /\ LoopState' = "list" /\ started' = started
      BY <2>3 DEF LoopState, Resting, TypeOK
    <3>2. W!Start
      BY <2>1, <3>1 DEF W!Start, W!Begin, W!task
    <3> QED BY <1>1, <2>1, <2>3, <3>2 DEF Resting, W!Next, W!Daemon
  <2>4. CASE pc = "idle" /\ Goes("list")
    <3>1. LoopState = "idle" /\ LoopState' = "list" /\ started' = started
      BY <2>4 DEF LoopState, Goes
    <3>2. W!Tick
      BY <2>1, <3>1 DEF W!Tick, W!Begin, W!task
    <3> QED BY <1>1, <2>1, <2>4, <3>2 DEF Resting, Goes, W!Next, W!Daemon
  <2>5. CASE pc = "idle" /\ pc' = "off" /\ started' = FALSE
    <3>1. listing' = Partial
      BY <2>1, <2>5 DEF Resting
    <3>2. W!Next
      BY <2>1, <2>5, <3>1, EndLoops
    <3> QED BY <1>1, <2>1, <2>5, <3>1, <3>2 DEF Resting
  <2> QED BY <1>2, <2>1, <2>2, <2>3, <2>4, <2>5
<1> QED BY <1>3, <1>4, <1>5, <1>6, <1>7, <1>8, <1>9 DEF SystemNext, SystemEnforce

\* The daemon that programs the host one command at a time, while containers
\* change under it and faults cut it short, implements the loop of Watch, for
\* which a reconcile is a single step.
THEOREM SystemIsLoop == SystemSpec => Loop
<1>1. SystemInit => Resting /\ W!Init
  <2> SUFFICES ASSUME SystemInit PROVE Resting /\ W!Init
    OBVIOUS
  <2>1. Possible
    BY PossibleInit
  <2>2. LoopState = "off"
    BY DEF SystemInit, Init, LoopState, Checked, Programming
  <2> QED BY <2>1, <2>2, PossibleListed DEF SystemInit, Init, Resting, Possible, P!AllListed, W!Init
<1>2. SystemSpec => []TypeOK
  BY SystemIsEnforce, TypeCorrect, PTL
<1> QED BY <1>1, <1>2, LoopStep, PTL DEF SystemSpec, Loop, W!Spec
=============================================================================
