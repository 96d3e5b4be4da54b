-------------------------- MODULE ContainersProofs --------------------------
(* Theorems about Containers: what plan::compile makes of any list of      *)
(* containers, for every file, set of containers and order of the list.    *)
EXTENDS Containers, PlanProofs

----------------------------------------------------------------------------
(* The lists that list_targets may return.                                 *)

Instances == UNION {{Leased(c, as) : as \in Leases[c.name]} : c \in Declared}

Apart(s, t) == s.name # t.name /\ ToSet(s.addrs) \cap ToSet(t.addrs) = {}

\* No two containers of a list share a name or an address.
Disjoint(ts) == \A i, j \in DOMAIN ts : i # j => Apart(ts[i], ts[j])

Listed(ts) == ts \in Seq(Instances) /\ Len(ts) <= MaxRunning /\ Disjoint(ts)

LEMMA ApartSymmetric == \A s, t : Apart(s, t) => Apart(t, s)
  BY DEF Apart

Labels(t) == [f \in DOMAIN t \ {"addrs"} |-> t[f]]

LEMMA LeasedProperties ==
  ASSUME NEW c \in Declared, NEW as \in Leases[c.name], NEW t, t = Leased(c, as)
  PROVE  /\ t \in Instances
         /\ t.addrs = as /\ as \in Seq(Addr4 \cup Addr6)
         /\ Labels(t) = c
         /\ t.name = c.name /\ t.service = c.service /\ t.gateway = c.gateway
         /\ t.enable = c.enable /\ t.via = c.via /\ t.tags = c.tags /\ t.knobs = c.knobs
<1>1. t = [f \in DOMAIN c \cup {"addrs"} |-> IF f = "addrs" THEN as ELSE c[f]]
  BY DEF Leased
<1>2. c \in Container
  BY ContainersAssumption
<1>3. c = [f \in {"name", "service", "gateway", "enable", "via", "tags", "knobs"} |-> c[f]]
  BY <1>2 DEF Container
<1>4. DOMAIN c = {"name", "service", "gateway", "enable", "via", "tags", "knobs"}
  BY <1>3
<1>5. t \in Instances
  <2>1. t \in {Leased(c, a) : a \in Leases[c.name]}
    OBVIOUS
  <2> QED BY <2>1 DEF Instances
<1>6. DOMAIN t \ {"addrs"} = DOMAIN c
  BY <1>1, <1>4
<1>7. \A f \in DOMAIN c : t[f] = c[f]
  BY <1>1, <1>4
<1>8. Labels(t) = c
  BY <1>3, <1>4, <1>6, <1>7 DEF Labels
<1>9. t.addrs = as /\ as \in Seq(Addr4 \cup Addr6)
  BY <1>1, ContainersAssumption
<1> QED BY <1>4, <1>5, <1>7, <1>8, <1>9

LEMMA InstanceTypes ==
  ASSUME NEW t \in Instances
  PROVE  /\ t.addrs \in Seq(Addr4 \cup Addr6)
         /\ \E c \in Declared : /\ Leased(c, t.addrs) = t
                                /\ Labels(t) = c
         /\ Declares(t) \in GatewayName \cup {None}
<1>1. PICK c \in Declared : \E as \in Leases[c.name] : t = Leased(c, as)
  BY DEF Instances
<1>2. PICK as \in Leases[c.name] : t = Leased(c, as)
  BY <1>1
<1>3. /\ t.addrs = as /\ as \in Seq(Addr4 \cup Addr6)
      /\ Labels(t) = c
      /\ t.gateway = c.gateway
  BY <1>2, LeasedProperties
<1>4. c.gateway \in GatewayName \cup {None, Bad}
  BY ContainersAssumption DEF Container
<1> QED BY <1>2, <1>3, <1>4 DEF Declares

LEMMA InsertListed ==
  ASSUME NEW ts, Listed(ts), Len(ts) < MaxRunning, NEW k \in 1 .. Len(ts) + 1,
         NEW e \in Instances, \A i \in DOMAIN ts : Apart(e, ts[i])
  PROVE  Listed(InsertAt(ts, k, e))
<1>1. ts \in Seq(Instances) /\ Len(ts) \in Nat /\ DOMAIN ts = 1 .. Len(ts)
  BY LenProperties DEF Listed
<1> DEFINE us == InsertAt(ts, k, e)
<1>0. us = InsertAt(ts, k, e)
  OBVIOUS
<1> HIDE DEF us
<1>2. /\ us \in Seq(Instances) /\ DOMAIN us = 1 .. Len(ts) + 1
      /\ \A i \in 1 .. Len(ts) + 1 :
           us[i] = IF i < k THEN ts[i] ELSE IF i = k THEN e ELSE ts[i - 1]
  <2>1. us \in Seq(Instances)
    BY <1>0, <1>1, InsertAtProperties
  <2>2. DOMAIN us = 1 .. Len(ts) + 1
    BY <1>0, <1>1, InsertAtProperties
  <2>3. \A i \in 1 .. Len(ts) + 1 :
           us[i] = IF i < k THEN ts[i] ELSE IF i = k THEN e ELSE ts[i - 1]
    BY <1>0, <1>1, InsertAtProperties
  <2> QED BY <2>1, <2>2, <2>3
<1>3. ASSUME NEW i \in DOMAIN us, NEW j \in DOMAIN us, i < j
      PROVE  Apart(us[i], us[j])
  <2>1. CASE i # k /\ j # k
    <3> DEFINE at(n) == IF n < k THEN n ELSE n - 1
    <3>1. \A n \in DOMAIN us : n # k => at(n) \in DOMAIN ts /\ us[n] = ts[at(n)]
      BY <1>1, <1>2
    <3>2. at(i) # at(j)
      BY <1>1, <1>2, <1>3, <2>1
    <3> QED BY <2>1, <3>1, <3>2 DEF Listed, Disjoint
  <2>2. CASE i = k
    <3>1. us[i] = e /\ j - 1 \in DOMAIN ts /\ us[j] = ts[j - 1]
      BY <1>1, <1>2, <1>3, <2>2
    <3> QED BY <3>1
  <2>3. CASE j = k
    <3>1. us[j] = e /\ i \in DOMAIN ts /\ us[i] = ts[i]
      BY <1>1, <1>2, <1>3, <2>3
    <3> QED BY <3>1, ApartSymmetric
  <2> QED BY <2>1, <2>2, <2>3
<1>4. \A i, j \in DOMAIN us : i # j => i < j \/ j < i
  BY <1>1, <1>2
<1>5. Disjoint(us)
  BY <1>3, <1>4, ApartSymmetric DEF Disjoint
<1>6. Len(us) <= MaxRunning
  BY <1>1, <1>2, LenProperties, ContainersAssumption
<1> QED BY <1>0, <1>2, <1>5, <1>6 DEF Listed

LEMMA RemoveListed ==
  ASSUME NEW ts, Listed(ts), NEW k \in DOMAIN ts
  PROVE  Listed(RemoveAt(ts, k))
<1>1. ts \in Seq(Instances) /\ Len(ts) \in Nat /\ DOMAIN ts = 1 .. Len(ts)
  BY LenProperties DEF Listed
<1> DEFINE us == RemoveAt(ts, k)
<1>2. /\ us \in Seq(Instances) /\ DOMAIN us = 1 .. Len(ts) - 1
      /\ \A i \in 1 .. Len(ts) - 1 : us[i] = IF i < k THEN ts[i] ELSE ts[i + 1]
  BY <1>1, RemoveAtProperties
<1> HIDE DEF us
<1>3. ASSUME NEW i \in DOMAIN us, NEW j \in DOMAIN us, i # j
      PROVE  Apart(us[i], us[j])
  <2> DEFINE at(n) == IF n < k THEN n ELSE n + 1
  <2>1. \A n \in DOMAIN us : at(n) \in DOMAIN ts /\ us[n] = ts[at(n)]
    BY <1>1, <1>2
  <2>2. at(i) # at(j)
    BY <1>1, <1>2, <1>3
  <2> QED BY <2>1, <2>2 DEF Listed, Disjoint
<1>4. Len(us) <= MaxRunning
  BY <1>1, <1>2, LenProperties, ContainersAssumption DEF Listed
<1> QED BY <1>2, <1>3, <1>4 DEF Listed, Disjoint, us

AllListed == Listed(targets)

LEMMA ListedInit == Init => AllListed
  BY EmptySeq, ContainersAssumption DEF AllListed, Init, Listed, Disjoint

LEMMA ListedStep == AllListed /\ [Next]_vars => AllListed'
<1> SUFFICES ASSUME AllListed, [Next]_vars PROVE AllListed'
  OBVIOUS
<1>1. CASE UNCHANGED vars
  BY <1>1 DEF vars, AllListed
<1>2. ASSUME NEW c \in Declared, NEW as \in Leases[c.name], NEW k \in 1 .. MaxRunning,
             StartContainer(c, as, k)
      PROVE  AllListed'
  <2> DEFINE e == Leased(c, as)
  <2> HIDE DEF e
  <2>0. e = Leased(c, as)
    BY DEF e
  <2>1. e \in Instances /\ e.addrs = as /\ e.name = c.name
    BY <2>0, LeasedProperties
  <2>2. /\ Len(targets) < MaxRunning /\ k \in 1 .. Len(targets) + 1
        /\ targets' = InsertAt(targets, k, e)
    BY <1>2, <2>0 DEF StartContainer, Change
  <2>3. \A i \in DOMAIN targets : Apart(e, targets[i])
    <3> TAKE i \in DOMAIN targets
    <3>1. targets[i] \in Running
      BY DEF Running, ToSet
    <3>2. ToSet(targets[i].addrs) \subseteq Addresses
      BY <3>1 DEF Addresses
    <3> QED BY <1>2, <2>1, <3>1, <3>2 DEF StartContainer, Apart
  <2> QED BY <2>1, <2>2, <2>3, InsertListed DEF AllListed
<1>3. ASSUME NEW k \in 1 .. MaxRunning, StopContainer(k) PROVE AllListed'
  BY <1>3, RemoveListed DEF AllListed, StopContainer, Change
<1> QED BY <1>1, <1>2, <1>3 DEF Next

\* What list_targets returns is always a list of declared containers, none
\* twice, with addresses that no two of them share.
THEOREM AlwaysListed == Spec => []AllListed
  BY ListedInit, ListedStep, PTL DEF Spec

----------------------------------------------------------------------------
(* The gateways that plan::compile works with.                             *)

Candidates == ToSet(Config) \cup {DiscoveredGateway(t) : t \in Instances}

LEMMA ConfigProperties ==
  /\ Config \in Seq(Candidates) /\ DistinctNames(Config)
  /\ Len(Config) \in Nat /\ DOMAIN Config = 1 .. Len(Config)
  /\ \A i \in DOMAIN Config : Config[i].name \in GatewayName /\ ValidGateway(Config[i])
<1>1. Config \in Seq(ToSet(Config)) /\ ValidDocument(Config) /\ Names(Config) \subseteq GatewayName
  BY ContainersAssumption
<1>2. Len(Config) \in Nat /\ DOMAIN Config = 1 .. Len(Config)
  BY <1>1, LenProperties
<1>3. \A i \in 1 .. Len(Config) : Config[i] \in Candidates
  BY <1>1, ElementOfSeq DEF Candidates
<1>4. Config \in Seq(Candidates)
  BY <1>1, <1>2, <1>3, IsASeq, SeqDef
<1>5. DistinctNames(Config) /\ \A i \in DOMAIN Config : ValidGateway(Config[i])
  BY <1>1 DEF ValidDocument, DistinctNames
<1>6. \A i \in DOMAIN Config : Config[i].name \in GatewayName
  BY <1>1 DEF Names
<1> QED BY <1>2, <1>4, <1>5, <1>6

LEMMA MergedProperties ==
  ASSUME NEW ts, Listed(ts), NEW gs, gs = Merge(Config, ts)
  PROVE  /\ gs \in Seq(Candidates) /\ Len(gs) \in Nat /\ DOMAIN gs = 1 .. Len(gs)
         /\ Len(ts) \in Nat /\ DOMAIN ts = 1 .. Len(ts)
         /\ \A k \in DOMAIN ts : ts[k] \in Instances
         /\ MergedTo(Config, ts, Len(ts), gs)
         /\ Names(gs) \subseteq GatewayName
         /\ \A i \in DOMAIN gs : ValidGateway(gs[i])
<1>1. /\ ts \in Seq(Instances) /\ Len(ts) \in Nat /\ DOMAIN ts = 1 .. Len(ts)
      /\ \A k \in 1 .. Len(ts) : ts[k] \in Instances
  BY LenProperties, ElementOfSeq DEF Listed
<1>2. \A k \in 1 .. Len(ts) : DiscoveredGateway(ts[k]) \in Candidates
  BY <1>1 DEF Candidates
<1>3. gs \in Seq(Candidates) /\ MergedTo(Config, ts, Len(ts), gs)
  BY <1>1, <1>2, ConfigProperties, MergeProperties
<1>4. Len(gs) \in Nat /\ DOMAIN gs = 1 .. Len(gs)
  BY <1>3, LenProperties
<1>5. ASSUME NEW i \in DOMAIN gs PROVE gs[i].name \in GatewayName /\ ValidGateway(gs[i])
  <2>1. CASE i \in 1 .. Len(Config)
    <3>1. gs[i] = Config[i]
      BY <1>3, <2>1 DEF MergedTo
    <3> QED BY <2>1, <3>1, ConfigProperties
  <2>2. CASE i \notin 1 .. Len(Config)
    <3>1. i \in Len(Config) + 1 .. Len(gs)
      BY <1>4, <2>2, ConfigProperties
    <3>2. PICK k \in 1 .. Len(ts) : /\ Claims(Config, ts, k)
                                    /\ gs[i] = DiscoveredGateway(ts[k])
      BY <1>3, <3>1 DEF MergedTo
    <3>3. gs[i].name = Declares(ts[k]) /\ Declares(ts[k]) # None
      BY <3>2, DiscoveredName DEF Claims
    <3>4. ValidGateway(gs[i])
      BY <3>2 DEF Claims, WellFormed
    <3> QED BY <1>1, <3>3, <3>4, InstanceTypes
  <2> QED BY <2>1, <2>2
<1> QED BY <1>1, <1>3, <1>4, <1>5 DEF Names

\* The inductive invariant of the listings and of the gateways known so far.
IInv == AllListed /\ known \subseteq GatewayName

LEMMA IInvInvariant == Spec => []IInv
<1>1. Init => IInv
  BY ListedInit, ContainersAssumption DEF IInv, Init
<1>2. IInv /\ [Next]_vars => IInv'
  <2> SUFFICES ASSUME IInv, [Next]_vars PROVE IInv'
    OBVIOUS
  <2>1. AllListed'
    BY ListedStep DEF IInv
  <2>2. CASE UNCHANGED vars
    BY <2>1, <2>2 DEF vars, IInv
  <2>3. CASE \E ts : Change(ts)
    <3>1. known' = known \cup Names(Merge(Config, targets'))
      BY <2>3 DEF Change
    <3>2. Names(Merge(Config, targets')) \subseteq GatewayName
      BY <2>1, MergedProperties DEF AllListed
    <3> QED BY <2>1, <3>1, <3>2 DEF IInv
  <2> QED BY <2>2, <2>3 DEF Next, StartContainer, StopContainer
<1> QED BY <1>1, <1>2, PTL DEF Spec

\* What list_targets returns are declared containers with the addresses of a
\* lease, and every gateway that a snapshot ever knew has a gateway's name.
THEOREM TypeCorrect == Spec => []TypeOK
<1>1. IInv => TypeOK
  <2> SUFFICES ASSUME IInv PROVE TypeOK
    OBVIOUS
  <2>1. targets \in Seq(Instances)
    BY DEF IInv, AllListed, Listed
  <2>2. \A t \in Running : t \in Instances
    BY <2>1, ElementOfSeq, LenProperties DEF Running, ToSet
  <2>3. ASSUME NEW t \in Running
        PROVE  /\ \E c \in Declared : Leased(c, t.addrs) = t
               /\ [f \in DOMAIN t \ {"addrs"} |-> t[f]] \in Container
    <3>1. PICK c \in Declared : Leased(c, t.addrs) = t /\ Labels(t) = c
      BY <2>2, InstanceTypes
    <3>2. Labels(t) \in Container
      BY <3>1, ContainersAssumption
    <3> QED BY <3>1, <3>2 DEF Labels
  <2> QED BY <2>3 DEF TypeOK, IInv, AllListed, Listed
<1> QED BY <1>1, IInvInvariant, PTL

\* The gateways of the plan are the file's, unchanged and in their order, and
\* one for each other name that a running container claims well-formed: that
\* of the first such container in the list, so that a later replica, or an
\* earlier malformed one, changes nothing (plan::compile).
THEOREM FirstClaims == Spec => []FirstClaimWins
<1>1. ASSUME IInv PROVE FirstClaimWins
  <2> DEFINE gs == Merged
  <2>0. gs = Merge(Config, targets) /\ Listed(targets)
    BY <1>1 DEF Merged, IInv, AllListed
  <2> HIDE DEF gs
  <2>1. /\ gs \in Seq(Candidates) /\ Len(gs) \in Nat /\ DOMAIN gs = 1 .. Len(gs)
        /\ Len(targets) \in Nat /\ DOMAIN targets = 1 .. Len(targets)
        /\ \A k \in DOMAIN targets : targets[k] \in Instances
        /\ MergedTo(Config, targets, Len(targets), gs)
    BY <2>0, MergedProperties
  <2>2. /\ Len(Config) \in Nat /\ DOMAIN Config = 1 .. Len(Config)
        /\ Len(Config) <= Len(gs) /\ \A i \in 1 .. Len(Config) : gs[i] = Config[i]
    BY <2>1, ConfigProperties DEF MergedTo
  <2>3. SubSeq(gs, 1, Len(Config)) = Config
    <3>1. /\ SubSeq(gs, 1, Len(Config)) \in Seq(Candidates)
          /\ Len(SubSeq(gs, 1, Len(Config))) = Len(Config)
          /\ \A i \in 1 .. Len(Config) : SubSeq(gs, 1, Len(Config))[i] = gs[i]
      BY <2>1, <2>2, SubSeqProperties
    <3> QED BY <2>2, <3>1, ConfigProperties, SeqEqual
  <2> DEFINE owners == UNION {Owner(n) : n \in GatewayName \ Names(Config)}
             discovered == {DiscoveredGateway(targets[k]) : k \in owners}
  <2>4. \A k : k \in owners <=>
          \E n \in GatewayName \ Names(Config) : k \in Owner(n)
    OBVIOUS
  <2>5. ASSUME NEW g \in ToSet(gs) PROVE g \in ToSet(Config) \cup discovered
    <3>1. PICK i \in 1 .. Len(gs) : g = gs[i]
      BY <2>1 DEF ToSet
    <3>2. CASE i \in 1 .. Len(Config)
      BY <2>2, <3>1, <3>2 DEF ToSet
    <3>3. CASE i \notin 1 .. Len(Config)
      <4>1. i \in Len(Config) + 1 .. Len(gs)
        BY <2>1, <2>2, <3>3
      <4>2. PICK k \in 1 .. Len(targets) : /\ Claims(Config, targets, k)
                                           /\ gs[i] = DiscoveredGateway(targets[k])
        BY <2>1, <4>1 DEF MergedTo
      <4>3. /\ Declares(targets[k]) \in GatewayName
            /\ Declares(targets[k]) \notin Names(Config)
        BY <2>1, <4>2, InstanceTypes DEF Claims, Names
      <4>4. k \in Owner(Declares(targets[k]))
        BY <2>1, <4>2 DEF Claims, Owner
      <4> QED BY <2>4, <3>1, <4>2, <4>3, <4>4
    <3> QED BY <3>2, <3>3
  <2>6. ASSUME NEW g \in ToSet(Config) PROVE g \in ToSet(gs)
    <3>1. PICK i \in 1 .. Len(Config) : g = Config[i]
      BY <2>2 DEF ToSet
    <3>2. i \in DOMAIN gs /\ g = gs[i]
      BY <2>1, <2>2, <3>1
    <3> QED BY <3>2 DEF ToSet
  <2>7. ASSUME NEW g \in discovered PROVE g \in ToSet(gs)
    <3>1. PICK k \in owners : g = DiscoveredGateway(targets[k])
      OBVIOUS
    <3>2. PICK n \in GatewayName \ Names(Config) : k \in Owner(n)
      BY <2>4
    <3> HIDE DEF owners, discovered
    <3>3. /\ k \in 1 .. Len(targets) /\ Declares(targets[k]) = n /\ WellFormed(targets[k])
          /\ \A j \in 1 .. k - 1 : Declares(targets[j]) = n => ~WellFormed(targets[j])
      BY <2>1, <3>2 DEF Owner
    <3>4. n # None
      BY <3>2, GatewaysAssumption
    <3>5. PICK i \in 1 .. Len(gs) : gs[i].name = n
      BY <2>1, <3>3, <3>4 DEF MergedTo
    <3>6. i \in Len(Config) + 1 .. Len(gs)
      <4>1. i \notin 1 .. Len(Config)
        BY <2>2, <3>2, <3>5 DEF Names
      <4> QED BY <2>1, <2>2, <4>1
    <3>7. PICK l \in 1 .. Len(targets) : /\ Claims(Config, targets, l)
                                         /\ gs[i] = DiscoveredGateway(targets[l])
      BY <2>1, <3>6 DEF MergedTo
    <3>8. Declares(targets[l]) = n
      BY <3>5, <3>7, DiscoveredName
    <3>9. ~(l < k)
      <4>1. WellFormed(targets[l])
        BY <3>7 DEF Claims
      <4> QED BY <2>1, <3>3, <3>8, <4>1
    <3>10. ~(k < l)
      <4>1. \A j \in 1 .. l - 1 : Declares(targets[j]) = n => ~WellFormed(targets[j])
        BY <3>7, <3>8 DEF Claims
      <4> QED BY <2>1, <3>3, <4>1
    <3>11. k = l
      BY <2>1, <3>3, <3>9, <3>10
    <3> QED BY <2>1, <3>1, <3>7, <3>11 DEF ToSet
  <2>8. Cardinality(Names(gs)) = Len(gs)
    BY <2>1, NamesCounted DEF MergedTo, Names
  <2>9. ToSet(gs) = ToSet(Config) \cup discovered
    BY <2>5, <2>6, <2>7
  <2> QED BY <2>3, <2>8, <2>9 DEF FirstClaimWins, gs
<1> QED BY <1>1, IInvInvariant, PTL

----------------------------------------------------------------------------
(* Where a container is routed.                                            *)

\* A container that names its gateway is a member of that gateway or of none,
\* and one that only selectors claim is a member only where no selector of
\* another gateway claims it (plan::assign): whatever the file, the labels and
\* the order of the list.
THEOREM Routed == Spec => []RoutedAsAsked
<1>1. ASSUME IInv PROVE RoutedAsAsked
  <2> DEFINE gs == Merged
  <2>0. gs = Merge(Config, targets) /\ Listed(targets)
    BY <1>1 DEF Merged, IInv, AllListed
  <2> HIDE DEF gs
  <2>1. /\ Len(gs) \in Nat /\ DOMAIN gs = 1 .. Len(gs) /\ DistinctNames(gs)
        /\ Names(gs) \subseteq GatewayName
    BY <2>0, MergedProperties DEF MergedTo
  <2>2. DOMAIN Compiled = DOMAIN gs
    BY <2>0 DEF Compiled, Compile
  <2>3. \A i \in DOMAIN gs : Compiled[i].members = Members(gs, gs[i], targets)
    BY <2>0 DEF Compiled, Compile
  <2>4. ASSUME NEW t \in Running, NEW i \in DOMAIN gs,
               ToSet(t.addrs) \cap Members(gs, gs[i], targets) # {}
        PROVE  /\ OptsIn(t) /\ t.via # None => t.via = gs[i].name
               /\ ~OptsIn(t) => \A j \in DOMAIN gs :
                    (\E s \in gs[j].members : SelectorMatches(s, t)) => i = j
    <3>1. Assignment(gs, t) = gs[i].name
      <4>1. PICK a : a \in ToSet(t.addrs) /\ a \in Members(gs, gs[i], targets)
        BY <2>4
      <4>2. PICK k \in DOMAIN targets : /\ Assignment(gs, targets[k]) = gs[i].name
                                        /\ a \in ToSet(targets[k].addrs)
        BY <4>1 DEF Members
      <4>3. PICK l \in DOMAIN targets : t = targets[l]
        BY DEF Running, ToSet
      <4>4. k = l
        BY <2>0, <4>1, <4>2, <4>3 DEF Listed, Disjoint, Apart
      <4> QED BY <4>2, <4>3, <4>4
    <3>2. gs[i].name \in GatewayName /\ gs[i].name # None
      BY <2>1, GatewaysAssumption DEF Names
    <3>5. OptsIn(t) => Resolve(gs, t.via) = gs[i].name
      BY <2>1, <3>1, <3>2, AssignedName
    <3>6. ~OptsIn(t) => \E l \in DOMAIN gs :
            gs[l].name = gs[i].name /\ \A j \in DOMAIN gs : Selects(gs[j], t) <=> j = l
      BY <2>1, <3>1, <3>2, AssignedName
    <3>7. ASSUME OptsIn(t), t.via # None PROVE t.via = gs[i].name
      BY <3>2, <3>5, <3>7 DEF Resolve
    <3>8. ASSUME ~OptsIn(t), NEW j \in DOMAIN gs, \E s \in gs[j].members : SelectorMatches(s, t)
          PROVE  i = j
      <4>1. PICK l \in DOMAIN gs :
              gs[l].name = gs[i].name /\ \A m \in DOMAIN gs : Selects(gs[m], t) <=> m = l
        BY <3>6, <3>8
      <4>2. j = l
        BY <3>8, <4>1 DEF Selects
      <4> QED BY <2>1, <4>1, <4>2 DEF DistinctNames
    <3> QED BY <3>7, <3>8
  <2> QED BY <2>2, <2>3, <2>4 DEF RoutedAsAsked, gs
<1> QED BY <1>1, IInvInvariant, PTL

----------------------------------------------------------------------------
(* The order in which Docker lists the containers.                         *)

\* No two containers of the list claim one gateway.
OneClaim(ts) == \A s, t \in ToSet(ts) : s # t /\ Declares(s) # None => Declares(s) # Declares(t)

LEMMA SameGateways ==
  ASSUME NEW ts, Listed(ts), NEW us, Listed(us), ToSet(ts) = ToSet(us), OneClaim(ts),
         NEW gs, gs = Merge(Config, ts), NEW hs, hs = Merge(Config, us), NEW i \in DOMAIN gs
  PROVE  \E j \in DOMAIN hs : hs[j] = gs[i]
<1>1. /\ Len(gs) \in Nat /\ DOMAIN gs = 1 .. Len(gs)
      /\ Len(ts) \in Nat /\ DOMAIN ts = 1 .. Len(ts)
      /\ MergedTo(Config, ts, Len(ts), gs)
  BY MergedProperties
<1>2. /\ Len(hs) \in Nat /\ DOMAIN hs = 1 .. Len(hs)
      /\ Len(us) \in Nat /\ DOMAIN us = 1 .. Len(us)
      /\ MergedTo(Config, us, Len(us), hs)
  BY MergedProperties
<1>3. Len(Config) \in Nat /\ DOMAIN Config = 1 .. Len(Config)
  BY ConfigProperties
<1>4. CASE i \in 1 .. Len(Config)
  <2>1. gs[i] = Config[i] /\ hs[i] = Config[i] /\ i \in DOMAIN hs
    BY <1>1, <1>2, <1>3, <1>4 DEF MergedTo
  <2> QED BY <2>1
<1>5. CASE i \notin 1 .. Len(Config)
  <2>1. i \in Len(Config) + 1 .. Len(gs)
    BY <1>1, <1>3, <1>5
  <2>2. PICK k \in 1 .. Len(ts) : Claims(Config, ts, k) /\ gs[i] = DiscoveredGateway(ts[k])
    BY <1>1, <2>1 DEF MergedTo
  <2>3. PICK l \in 1 .. Len(us) : us[l] = ts[k]
    <3>1. ts[k] \in ToSet(us)
      BY <1>1, <2>2 DEF ToSet
    <3> QED BY <1>2, <3>1 DEF ToSet
  <2>4. /\ Declares(ts[k]) # None /\ WellFormed(ts[k])
        /\ \A m \in DOMAIN Config : Config[m].name # Declares(ts[k])
    BY <2>2 DEF Claims
  <2>5. PICK j \in DOMAIN hs : hs[j].name = Declares(ts[k])
    BY <1>2, <2>3, <2>4 DEF MergedTo
  <2>6. j \in Len(Config) + 1 .. Len(hs)
    <3>1. j \notin 1 .. Len(Config)
      <4>1. j \in 1 .. Len(Config) => hs[j] = Config[j]
        BY <1>2 DEF MergedTo
      <4> QED BY <1>3, <2>4, <2>5, <4>1
    <3> QED BY <1>2, <1>3, <3>1
  <2>7. PICK m \in 1 .. Len(us) : Claims(Config, us, m) /\ hs[j] = DiscoveredGateway(us[m])
    BY <1>2, <2>6 DEF MergedTo
  <2>8. Declares(us[m]) = Declares(ts[k])
    BY <2>5, <2>7, DiscoveredName
  <2>9. us[m] \in ToSet(ts) /\ ts[k] \in ToSet(ts)
    BY <1>1, <1>2 DEF ToSet
  <2>10. us[m] = ts[k]
    BY <2>4, <2>8, <2>9 DEF OneClaim
  <2> QED BY <2>2, <2>7, <2>10
<1> QED BY <1>4, <1>5

\* Every order in which the containers of a list may come is a list, too.
LEMMA PermutedListed ==
  ASSUME NEW ts, Listed(ts), NEW us \in SetToSeqs(ToSet(ts))
  PROVE  Listed(us) /\ ToSet(us) = ToSet(ts)
<1>1. /\ ts \in Seq(Instances) /\ Len(ts) \in Nat /\ DOMAIN ts = 1 .. Len(ts)
      /\ \A i \in 1 .. Len(ts) : ts[i] \in Instances
  BY LenProperties, ElementOfSeq DEF Listed
<1> DEFINE R == ToSet(ts)
<1>2. /\ R \subseteq Instances
      /\ \A t \in R : \E i \in 1 .. Len(ts) : t = ts[i]
  BY <1>1 DEF ToSet
<1>3. IsFiniteSet(R) /\ Cardinality(R) = Len(ts)
  <2>1. ts \in Bijection(1 .. Len(ts), R)
    <3>1. ts \in [1 .. Len(ts) -> R]
      BY <1>1 DEF ToSet
    <3>2. \A i, j \in 1 .. Len(ts) : ts[i] = ts[j] => i = j
      BY <1>1 DEF Listed, Disjoint, Apart
    <3>3. \A t \in R : \E i \in 1 .. Len(ts) : ts[i] = t
      BY <1>2
    <3> HIDE DEF R
    <3> QED BY <3>1, <3>2, <3>3, Fun_IsBij
  <2>2. ExistsBijection(1 .. Len(ts), R)
    BY <2>1 DEF ExistsBijection
  <2> HIDE DEF R
  <2> QED BY <1>1, <2>2, FS_CountingElements, FS_NatBijection
<1> HIDE DEF R
<1>4. us \in [1 .. Len(ts) -> R] /\ \A i, j \in 1 .. Len(ts) : i # j => us[i] # us[j]
  BY <1>3 DEF SetToSeqs, R
<1>5. us \in Seq(Instances) /\ Len(us) = Len(ts) /\ DOMAIN us = 1 .. Len(ts)
  <2>1. \A i \in 1 .. Len(ts) : us[i] \in Instances
    BY <1>2, <1>4
  <2>2. us \in [1 .. Len(ts) -> Instances]
    BY <1>4, <2>1
  <2>3. us \in Seq(Instances)
    BY <1>1, <2>2, SeqDef
  <2> QED BY <1>1, <1>4, <2>3, LenProperties
<1>6. ToSet(us) = R
  <2>1. us \in Injection(1 .. Len(ts), R)
    BY <1>4, Fun_IsInj
  <2>2. IsFiniteSet(1 .. Len(ts)) /\ Cardinality(1 .. Len(ts)) = Len(ts)
    <3>1. 1 \in Int /\ Len(ts) \in Int /\ (1 > Len(ts) => Len(ts) = 0)
      BY <1>1
    <3>2. IsFiniteSet(1 .. Len(ts))
      BY <3>1, FS_Interval
    <3>3. Cardinality(1 .. Len(ts)) = IF 1 > Len(ts) THEN 0 ELSE Len(ts) - 1 + 1
      BY <3>1, FS_Interval
    <3> QED BY <3>1, <3>2, <3>3
  <2>3. us \in Surjection(1 .. Len(ts), R)
    BY <1>3, <2>1, <2>2, FS_Injection
  <2>4. \A t \in R : \E i \in 1 .. Len(ts) : us[i] = t
    BY <2>3, Fun_SurjectionProperties
  <2> QED BY <1>4, <1>5, <2>4 DEF ToSet
<1>7. Disjoint(us)
  <2>1. ASSUME NEW i \in DOMAIN us, NEW j \in DOMAIN us, i # j
        PROVE  Apart(us[i], us[j])
    <3>1. us[i] \in R /\ us[j] \in R /\ us[i] # us[j]
      BY <1>4, <1>5, <2>1
    <3>2. PICK k \in 1 .. Len(ts) : us[i] = ts[k]
      BY <1>2, <3>1
    <3>3. PICK l \in 1 .. Len(ts) : us[j] = ts[l]
      BY <1>2, <3>1
    <3> QED BY <1>1, <3>1, <3>2, <3>3 DEF Listed, Disjoint
  <2> QED BY <2>1 DEF Disjoint
<1> QED BY <1>5, <1>6, <1>7 DEF Listed, R

LEMMA RunningFinite ==
  ASSUME NEW ts, Listed(ts)
  PROVE  IsFiniteSet(ToSet(ts))
<1>1. ts \in Seq(Instances) /\ Len(ts) \in Nat /\ DOMAIN ts = 1 .. Len(ts)
  BY LenProperties DEF Listed
<1>2. ts \in Surjection(1 .. Len(ts), ToSet(ts))
  <2>1. ts \in [1 .. Len(ts) -> ToSet(ts)]
    BY <1>1 DEF ToSet
  <2>2. \A t \in ToSet(ts) : \E i \in 1 .. Len(ts) : ts[i] = t
    BY <1>1 DEF ToSet
  <2> QED BY <2>1, <2>2, Fun_IsSurj
<1>3. IsFiniteSet(1 .. Len(ts))
  BY <1>1, FS_Interval
<1> QED BY <1>2, <1>3, FS_Surjection

LEMMA AtMostOne ==
  ASSUME NEW S, IsFiniteSet(S), Cardinality(S) <= 1, NEW x \in S, NEW y \in S
  PROVE  x = y
<1>1. Cardinality(S) \in Nat
  BY FS_CardinalityType
<1>2. Cardinality(S) # 0
  BY FS_EmptySet
<1>3. Cardinality(S) = 1
  BY <1>1, <1>2
<1> QED BY <1>3, FS_Singleton

LEMMA PermutedReorders ==
  ASSUME NEW ts, Listed(ts), NEW us, Listed(us), ToSet(ts) = ToSet(us), OneClaim(ts),
         NEW gs, gs = Merge(Config, ts), NEW hs, hs = Merge(Config, us),
         Cardinality({i \in DOMAIN gs : gs[i].default}) <= 1
  PROVE  Reordered(gs, hs)
<1>1. /\ gs \in Seq(Candidates) /\ Len(gs) \in Nat /\ DOMAIN gs = 1 .. Len(gs)
      /\ DistinctNames(gs)
  BY MergedProperties DEF MergedTo
<1>2. /\ hs \in Seq(Candidates) /\ Len(hs) \in Nat /\ DOMAIN hs = 1 .. Len(hs)
      /\ DistinctNames(hs)
  BY MergedProperties DEF MergedTo
<1>3. \A i \in DOMAIN gs : \E j \in DOMAIN hs : hs[j] = gs[i]
  BY SameGateways
<1>4. \A j \in DOMAIN hs : \E i \in DOMAIN gs : hs[j] = gs[i]
  <2>1. OneClaim(us)
    BY DEF OneClaim
  <2>2. \A j \in DOMAIN hs : \E i \in DOMAIN gs : gs[i] = hs[j]
    BY <2>1, SameGateways
  <2> QED BY <2>2
<1>5. Len(hs) = Len(gs)
  <2>1. Names(gs) = Names(hs)
    BY <1>3, <1>4 DEF Names
  <2>2. Cardinality(Names(gs)) = Len(gs)
    BY <1>1, NamesCounted DEF Names
  <2>3. Cardinality(Names(hs)) = Len(hs)
    BY <1>2, NamesCounted DEF Names
  <2> QED BY <2>1, <2>2, <2>3
<1>6. ASSUME NEW i \in DOMAIN gs, NEW j \in DOMAIN gs, gs[i].default, gs[j].default
      PROVE  i = j
  <2> DEFINE D == {k \in DOMAIN gs : gs[k].default}
  <2>1. IsFiniteSet(1 .. Len(gs))
    BY <1>1, FS_Interval
  <2>2. D \in SUBSET (1 .. Len(gs)) /\ i \in D /\ j \in D /\ Cardinality(D) <= 1
    BY <1>1, <1>6
  <2> HIDE DEF D
  <2>3. IsFiniteSet(D)
    BY <2>1, <2>2, FS_Subset
  <2> QED BY <2>2, <2>3, AtMostOne
<1> QED BY <1>1, <1>2, <1>3, <1>4, <1>5, <1>6 DEF Reordered

\* The gateway of a name.
At(gs, n) == gs[CHOOSE i \in DOMAIN gs : gs[i].name = n]

LEMMA AtProperties ==
  ASSUME NEW gs, DistinctNames(gs), NEW i \in DOMAIN gs, NEW n, gs[i].name = n
  PROVE  At(gs, n) = gs[i]
  BY DEF At, DistinctNames

Assigned(gs, ts) == [t \in ToSet(ts) |-> Assignment(gs, t)]
Egresses(gs, ts) == [n \in Names(gs) |-> ResolveEgress(At(gs, n), ts)]

LEMMA OutcomeParts ==
  ASSUME NEW ts
  PROVE  LET gs == Merge(Config, ts)
         IN  Outcome(ts) = [assigned |-> Assigned(gs, ts), egress |-> Egresses(gs, ts)]
  BY DEF Outcome, Assigned, Egresses, At

\* While no two containers claim one gateway, no two gateways are the default
\* and no egress names two containers, Docker may list the containers in any
\* order: each goes where it went (plan::compile).
THEOREM OrderIrrelevant == Spec => []OrderDecidesNothing
<1>1. ASSUME IInv PROVE OrderDecidesNothing
  <2> SUFFICES ASSUME Unambiguous(Merged), NEW us \in SetToSeqs(Running)
               PROVE  Outcome(us) = Outcome(targets)
    BY DEF OrderDecidesNothing
  <2> DEFINE gs == Merge(Config, targets)  hs == Merge(Config, us)
  <2>0. gs = Merge(Config, targets) /\ hs = Merge(Config, us) /\ gs = Merged
    BY DEF Merged
  <2>1. /\ Outcome(targets) = [assigned |-> Assigned(gs, targets), egress |-> Egresses(gs, targets)]
        /\ Outcome(us) = [assigned |-> Assigned(hs, us), egress |-> Egresses(hs, us)]
    BY OutcomeParts
  <2> HIDE DEF gs, hs
  <2>2. Listed(targets) /\ Listed(us) /\ ToSet(us) = ToSet(targets)
    BY <1>1, PermutedListed DEF IInv, AllListed, Running
  <2>3. Reordered(gs, hs)
    <3>1. OneClaim(targets)
      BY DEF Unambiguous, OneClaim, Running
    <3>2. Cardinality({i \in DOMAIN gs : gs[i].default}) <= 1
      BY <2>0 DEF Unambiguous
    <3> QED BY <2>0, <2>2, <3>1, <3>2, PermutedReorders
  <2>4. Assigned(hs, us) = Assigned(gs, targets)
    <3>1. \A t : Assignment(hs, t) = Assignment(gs, t)
      BY <2>3, ReorderedAssignment
    <3> QED BY <2>2, <3>1 DEF Assigned
  <2>5. Names(gs) = Names(hs)
    <3>1. /\ \A i \in DOMAIN gs : \E j \in DOMAIN hs : hs[j] = gs[i]
          /\ \A j \in DOMAIN hs : \E i \in DOMAIN gs : hs[j] = gs[i]
      BY <2>3 DEF Reordered
    <3> QED BY <3>1 DEF Names
  <2>6. \A i \in DOMAIN gs : ValidGateway(gs[i])
    BY <2>0, <2>2, MergedProperties
  <2>7. DOMAIN targets \in SUBSET Nat /\ DOMAIN us \in SUBSET Nat
    BY <2>2, LenProperties DEF Listed
  <2>8. ASSUME NEW i \in DOMAIN gs
        PROVE  ResolveEgress(gs[i], us) = ResolveEgress(gs[i], targets)
    <3>1. ASSUME gs[i].egress.container # None
          PROVE  GatewayContainerIp(gs[i].egress.container, us)
                   = GatewayContainerIp(gs[i].egress.container, targets)
      <4> DEFINE sel == gs[i].egress.container
                 found == {t \in Running : sel \in {t.name, t.service}}
      <4>1. Cardinality(found) <= 1
        BY <2>0, <3>1 DEF Unambiguous
      <4>2. IsFiniteSet(found)
        <5>1. IsFiniteSet(Running)
          BY <2>2, RunningFinite DEF Running
        <5> QED BY <5>1, FS_Subset
      <4>3. \A s, t \in found : s = t
        <5> HIDE DEF found
        <5> QED BY <4>1, <4>2, AtMostOne
      <4>4. \A s, t \in ToSet(targets) :
              sel \in {s.name, s.service} /\ sel \in {t.name, t.service} => s = t
        BY <4>3 DEF Running
      <4> HIDE DEF sel
      <4>5. GatewayContainerIp(sel, targets) = GatewayContainerIp(sel, us)
        BY <2>2, <2>7, <4>4, ReorderedIp
      <4> QED BY <4>5 DEF sel
    <3> QED BY <2>6, <3>1, SameEgress
  <2>9. ASSUME NEW n \in Names(gs)
        PROVE  ResolveEgress(At(hs, n), us) = ResolveEgress(At(gs, n), targets)
    <3>1. PICK i \in DOMAIN gs : gs[i].name = n
      BY DEF Names
    <3>2. PICK j \in DOMAIN hs : hs[j] = gs[i]
      BY <2>3 DEF Reordered
    <3>3. DistinctNames(gs) /\ DistinctNames(hs)
      BY <2>3 DEF Reordered
    <3>4. At(gs, n) = gs[i]
      BY <3>1, <3>3, AtProperties
    <3>5. At(hs, n) = hs[j]
      BY <3>1, <3>2, <3>3, AtProperties
    <3> QED BY <2>8, <3>2, <3>4, <3>5
  <2>10. Egresses(hs, us) = Egresses(gs, targets)
    BY <2>5, <2>9 DEF Egresses
  <2> QED BY <2>1, <2>4, <2>10
<1> QED BY <1>1, IInvInvariant, PTL

----------------------------------------------------------------------------
(* A container that starts or stops.                                       *)

LEMMA SameInterval ==
  ASSUME NEW m \in Nat, NEW n \in Nat, 1 .. m = 1 .. n
  PROVE  m = n
<1>1. \A i \in Nat : i \in 1 .. m <=> i \in 1 .. n
  OBVIOUS
<1>2. ~(m < n)
  <2>1. m < n => n \in 1 .. n /\ n \notin 1 .. m
    OBVIOUS
  <2> QED BY <1>1, <2>1
<1>3. ~(n < m)
  <2>1. n < m => m \in 1 .. m /\ m \notin 1 .. n
    OBVIOUS
  <2> QED BY <1>1, <2>1
<1> QED BY <1>2, <1>3

Longer(ts, us) == \E k, e : Extends(ts, us, k, e)

\* A step puts one container into the list or takes one out.
LEMMA StepExtends ==
  ASSUME AllListed, AllListed', Next
  PROVE  Longer(targets, targets') \/ Longer(targets', targets)
<1>1. /\ targets \in Seq(Instances) /\ Len(targets) \in Nat
      /\ DOMAIN targets = 1 .. Len(targets)
  BY LenProperties DEF AllListed, Listed
<1>2. targets' \in Seq(Instances) /\ Len(targets') \in Nat
      /\ DOMAIN targets' = 1 .. Len(targets')
  BY LenProperties DEF AllListed, Listed
<1>3. ASSUME NEW c \in Declared, NEW as \in Leases[c.name], NEW k \in 1 .. MaxRunning,
             StartContainer(c, as, k)
      PROVE  Longer(targets, targets')
  <2> DEFINE e == Leased(c, as)
  <2>1. e \in Instances
    BY LeasedProperties
  <2>2. targets' = InsertAt(targets, k, e) /\ k \in 1 .. Len(targets) + 1
    BY <1>3 DEF StartContainer, Change
  <2> HIDE DEF e
  <2>3. DOMAIN targets' = 1 .. Len(targets) + 1
    BY <1>1, <2>1, <2>2, InsertAtProperties
  <2>4. \A i \in 1 .. Len(targets) + 1 : targets'[i] =
          IF i < k THEN targets[i] ELSE IF i = k THEN e ELSE targets[i - 1]
    BY <1>1, <2>1, <2>2, InsertAtProperties
  <2>5. Len(targets') = Len(targets) + 1
    <3>1. 1 .. Len(targets') = 1 .. Len(targets) + 1
      BY <1>2, <2>3, Zenon
    <3>2. Len(targets) + 1 \in Nat
      BY <1>1
    <3> QED BY <1>2, <3>1, <3>2, SameInterval
  <2>6. Extends(targets, targets', k, e)
    BY <1>1, <2>2, <2>3, <2>4, <2>5 DEF Extends
  <2> QED BY <2>6 DEF Longer
<1>4. ASSUME NEW k \in 1 .. MaxRunning, StopContainer(k) PROVE Longer(targets', targets)
  <2>1. targets' = RemoveAt(targets, k) /\ k \in 1 .. Len(targets)
    BY <1>1, <1>4 DEF StopContainer, Change
  <2>2. DOMAIN targets' = 1 .. Len(targets) - 1
    BY <1>1, <2>1, RemoveAtProperties
  <2>3. \A i \in 1 .. Len(targets) - 1 : targets'[i] =
          IF i < k THEN targets[i] ELSE targets[i + 1]
    BY <1>1, <2>1, RemoveAtProperties
  <2>4. Len(targets') = Len(targets) - 1
    <3>1. 1 .. Len(targets') = 1 .. Len(targets) - 1
      BY <1>2, <2>2, Zenon
    <3>2. Len(targets) - 1 \in Nat
      BY <1>1, <2>1
    <3> QED BY <1>2, <3>1, <3>2, SameInterval
  <2>5. \A i \in 1 .. Len(targets) : targets[i] =
          IF i < k THEN targets'[i] ELSE IF i = k THEN targets[k] ELSE targets'[i - 1]
    <3> TAKE i \in 1 .. Len(targets)
    <3>1. CASE i < k
      BY <1>1, <2>1, <2>3, <3>1
    <3>2. CASE i > k
      <4>1. i - 1 \in 1 .. Len(targets) - 1 /\ ~(i - 1 < k) /\ (i - 1) + 1 = i
        BY <1>1, <2>1, <3>2
      <4> QED BY <2>3, <3>2, <4>1
    <3> QED BY <1>1, <2>1, <3>1, <3>2
  <2>6. Len(targets') + 1 = Len(targets)
    BY <1>1, <2>4
  <2>7. Extends(targets', targets, k, targets[k])
    BY <1>1, <1>2, <2>1, <2>5, <2>6 DEF Extends
  <2> QED BY <2>7 DEF Longer
<1> QED BY <1>3, <1>4 DEF Next

LEMMA StepChanges ==
  ASSUME AllListed, AllListed', Next
  PROVE  targets' # targets
<1>1. Len(targets') # Len(targets)
  BY StepExtends DEF Longer, Extends
<1> QED BY <1>1

LEMMA ListExtended ==
  ASSUME NEW ts, Listed(ts), NEW us, Listed(us), NEW k, NEW e, Extends(ts, us, k, e),
         NEW gs, gs = Merge(Config, ts), Declares(e) = None,
         \A i \in DOMAIN gs : gs[i].egress.container \notin {e.name, e.service} \ {None}
  PROVE  /\ Merge(Config, us) = gs
         /\ Outcome(us).egress = Outcome(ts).egress
         /\ \A t \in ToSet(ts) \cap ToSet(us) :
              Outcome(us).assigned[t] = Outcome(ts).assigned[t]
<1>1. Merge(Config, us) = gs
  BY MergeExtended
<1>2. /\ Outcome(ts) = [assigned |-> Assigned(gs, ts), egress |-> Egresses(gs, ts)]
      /\ Outcome(us) = [assigned |-> Assigned(gs, us), egress |-> Egresses(gs, us)]
  BY <1>1, OutcomeParts
<1>3. DistinctNames(gs) /\ \A i \in DOMAIN gs : ValidGateway(gs[i])
  BY MergedProperties DEF MergedTo
<1>4. ASSUME NEW i \in DOMAIN gs
      PROVE  ResolveEgress(gs[i], us) = ResolveEgress(gs[i], ts)
  <2>1. ASSUME gs[i].egress.container # None
        PROVE  GatewayContainerIp(gs[i].egress.container, us)
                 = GatewayContainerIp(gs[i].egress.container, ts)
    <3>1. gs[i].egress.container \notin {e.name, e.service}
      BY <2>1
    <3> QED BY <3>1, IpExtended
  <2> QED BY <1>3, <2>1, SameEgress
<1>5. ASSUME NEW n \in Names(gs)
      PROVE  ResolveEgress(At(gs, n), us) = ResolveEgress(At(gs, n), ts)
  <2>1. PICK i \in DOMAIN gs : gs[i].name = n
    BY DEF Names
  <2>2. At(gs, n) = gs[i]
    BY <1>3, <2>1, AtProperties
  <2> QED BY <1>4, <2>2
<1>6. Egresses(gs, us) = Egresses(gs, ts)
  BY <1>5 DEF Egresses
<1>7. \A t \in ToSet(ts) \cap ToSet(us) : Assigned(gs, us)[t] = Assigned(gs, ts)[t]
  BY DEF Assigned
<1>8. Outcome(us).egress = Outcome(ts).egress
  BY <1>2, <1>6
<1>9. Outcome(us).assigned = Assigned(gs, us) /\ Outcome(ts).assigned = Assigned(gs, ts)
  BY <1>2
<1> QED BY <1>1, <1>7, <1>8, <1>9

LEMMA ExtendedMembers ==
  ASSUME NEW ts, NEW us, NEW k, NEW e, Extends(ts, us, k, e)
  PROVE  ToSet(ts) \subseteq ToSet(us) /\ \A c \in ToSet(us) \ ToSet(ts) : c = e
<1>1. ASSUME NEW t \in ToSet(ts) PROVE t \in ToSet(us)
  <2>1. PICK i \in 1 .. Len(ts) : t = ts[i]
    BY DEF ToSet, Extends
  <2> DEFINE j == IF i < k THEN i ELSE i + 1
  <2>2. j \in DOMAIN us /\ us[j] = ts[i]
    BY <2>1 DEF Extends
  <2> QED BY <2>1, <2>2 DEF ToSet
<1>2. ASSUME NEW c \in ToSet(us), c \notin ToSet(ts) PROVE c = e
  <2>1. PICK j \in 1 .. Len(ts) + 1 : c = us[j]
    BY DEF ToSet, Extends
  <2>2. ASSUME j # k PROVE FALSE
    <3> DEFINE i == IF j < k THEN j ELSE j - 1
    <3>1. i \in DOMAIN ts /\ us[j] = ts[i]
      BY <2>1, <2>2 DEF Extends
    <3> QED BY <1>2, <2>1, <3>1 DEF ToSet
  <2> QED BY <2>1, <2>2 DEF Extends
<1> QED BY <1>1, <1>2

\* What a step may not do: the start or the stop of a container that declares
\* no gateway, and that no egress refers to, moves no other container and no
\* egress (plan::compile).
Undisturbed ==
  LET before == Outcome(targets)  after == Outcome(targets')
  IN  \A c \in (Running \ Running') \cup (Running' \ Running) :
        Bystander(c, Merged) =>
          /\ before.egress = after.egress
          /\ \A t \in Running \cap Running' : before.assigned[t] = after.assigned[t]

THEOREM BystandersDoNot == Spec => BystandersChangeNothing
<1>1. ASSUME IInv, IInv', [Next]_vars PROVE [Undisturbed]_vars
  <2>1. Listed(targets) /\ Listed(targets')
    BY <1>1 DEF IInv, AllListed
  <2>4. CASE UNCHANGED vars
    BY <2>4
  <2>5. ASSUME NEW k, NEW e, Extends(targets, targets', k, e) PROVE Undisturbed
    <3> SUFFICES ASSUME NEW c \in (Running \ Running') \cup (Running' \ Running),
                        Bystander(c, Merged)
                 PROVE  /\ Outcome(targets).egress = Outcome(targets').egress
                        /\ \A t \in Running \cap Running' :
                             Outcome(targets).assigned[t] = Outcome(targets').assigned[t]
      BY DEF Undisturbed
    <3>1. c = e
      BY <2>5, ExtendedMembers DEF Running
    <3> DEFINE gs == Merge(Config, targets)
    <3>2. gs = Merge(Config, targets) /\ gs = Merged
      BY DEF Merged
    <3> HIDE DEF gs
    <3>3. Declares(e) = None /\ \A i \in DOMAIN gs :
            gs[i].egress.container \notin {e.name, e.service} \ {None}
      BY <3>1, <3>2 DEF Bystander
    <3>4. /\ Outcome(targets').egress = Outcome(targets).egress
          /\ \A t \in ToSet(targets) \cap ToSet(targets') :
               Outcome(targets').assigned[t] = Outcome(targets).assigned[t]
      BY <2>1, <2>5, <3>2, <3>3, ListExtended
    <3> QED BY <3>4 DEF Running
  <2>6. ASSUME NEW k, NEW e, Extends(targets', targets, k, e) PROVE Undisturbed
    <3> SUFFICES ASSUME NEW c \in (Running \ Running') \cup (Running' \ Running),
                        Bystander(c, Merged)
                 PROVE  /\ Outcome(targets).egress = Outcome(targets').egress
                        /\ \A t \in Running \cap Running' :
                             Outcome(targets).assigned[t] = Outcome(targets').assigned[t]
      BY DEF Undisturbed
    <3>1. c = e
      BY <2>6, ExtendedMembers DEF Running
    <3>2. Merge(Config, targets') = Merged
      BY <2>6, <3>1, MergeExtended DEF Bystander, Merged
    <3> DEFINE gs == Merge(Config, targets')
    <3>3. gs = Merge(Config, targets') /\ gs = Merged
      BY <3>2
    <3> HIDE DEF gs
    <3>4. Declares(e) = None /\ \A i \in DOMAIN gs :
            gs[i].egress.container \notin {e.name, e.service} \ {None}
      BY <3>1, <3>3 DEF Bystander
    <3>5. /\ Outcome(targets).egress = Outcome(targets').egress
          /\ \A t \in ToSet(targets') \cap ToSet(targets) :
               Outcome(targets).assigned[t] = Outcome(targets').assigned[t]
      BY <2>1, <2>6, <3>3, <3>4, ListExtended
    <3> QED BY <3>5 DEF Running
  <2> QED BY <1>1, <2>4, <2>5, <2>6, StepExtends DEF IInv, Longer
<1>2. [Undisturbed]_vars => [LET before == Outcome(targets)  after == Outcome(targets')
     IN  \A c \in (Running \ Running') \cup (Running' \ Running) :
           Bystander(c, Merged) =>
             /\ before.egress = after.egress
             /\ \A t \in Running \cap Running' : before.assigned[t] = after.assigned[t]]_vars
  BY DEF Undisturbed
<1>3. Spec => [][Undisturbed]_vars
  BY <1>1, IInvInvariant, PTL DEF Spec
<1> QED BY <1>2, <1>3, PTL DEF BystandersChangeNothing
=============================================================================
