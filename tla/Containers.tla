----------------------------- MODULE Containers ----------------------------
(***************************************************************************)
(* The containers of the host as degc sees them: which of the declared     *)
(* ones run, in the order in which Docker lists them, with the addresses   *)
(* they got.  A recreated container may come back anywhere in the list and *)
(* with other addresses; a container name runs at most once.               *)
(***************************************************************************)
EXTENDS Plan

CONSTANTS
  Declared,   \* containers with their labels
  Leases,     \* by name, the address sequences they may start with
  Config,     \* the gateways of gateways.yaml
  MaxRunning  \* bound: containers running at the same time

Names(gs) == {gs[i].name : i \in DOMAIN gs}

Container == [name : Name, service : Name \cup {None},
              gateway : GatewayName \cup {None, Bad}, enable : {"true", None, Bad},
              via : GatewayName \cup {None}, tags : SUBSET Tag,
              knobs : [snat : {"true", "false", None, Bad}, default : {"true", None, Bad},
                       mark : Mark \cup {None, Bad}, table : Table \cup {None, Bad},
                       locals : SUBSET (Net4 \cup Net6 \cup {Bad}),
                       members : {None} \cup SUBSET (Tag \cup {Bad})]]

ASSUME ContainersAssumption ==
  /\ Config \in Seq(ToSet(Config)) /\ ValidDocument(Config) /\ Names(Config) \subseteq GatewayName
  /\ Declared \subseteq Container
  /\ \A c \in Declared : Leases[c.name] \subseteq Seq(Addr4 \cup Addr6)
  /\ MaxRunning \in Nat

VARIABLES
  targets,  \* what list_targets returns
  known     \* history: the gateways that some snapshot knew

vars == <<targets, known>>

Running   == ToSet(targets)
Addresses == UNION {ToSet(t.addrs) : t \in Running}
Merged    == Merge(Config, targets)
Compiled  == Compile(Config, targets)

Init == targets = << >> /\ known = Names(Config)

Change(ts) == targets' = ts /\ known' = known \cup Names(Merge(Config, ts))

\* A container with the addresses it got.
Leased(c, as) == [f \in DOMAIN c \cup {"addrs"} |-> IF f = "addrs" THEN as ELSE c[f]]

StartContainer(c, as, k) ==
  /\ Len(targets) < MaxRunning
  /\ c.name \notin {t.name : t \in Running}
  /\ ToSet(as) \cap Addresses = {}
  /\ k \in 1 .. Len(targets) + 1
  /\ Change(InsertAt(targets, k, Leased(c, as)))

StopContainer(k) == k \in DOMAIN targets /\ Change(RemoveAt(targets, k))

Next == \/ \E c \in Declared : \E as \in Leases[c.name] :
             \E k \in 1 .. MaxRunning : StartContainer(c, as, k)
        \/ \E k \in 1 .. MaxRunning : StopContainer(k)

Spec == Init /\ [][Next]_vars

----------------------------------------------------------------------------
TypeOK ==
  /\ Len(targets) <= MaxRunning /\ known \subseteq GatewayName
  /\ \A t \in Running : /\ \E c \in Declared : Leased(c, t.addrs) = t
                         /\ [f \in DOMAIN t \ {"addrs"} |-> t[f]] \in Container

\* The merged gateways, stated without an order of visits: the file's, and
\* for every other name the first container in the list that claims it with
\* well-formed knobs - so a malformed replica hides no well-formed one, and
\* nothing a container says changes a gateway of the file.
Owner(n) == {k \in DOMAIN targets : /\ Declares(targets[k]) = n /\ WellFormed(targets[k])
                                    /\ \A j \in 1 .. k - 1 : Declares(targets[j]) = n
                                                           => ~WellFormed(targets[j])}
FirstClaimWins ==
  LET gs == Merged
  IN  /\ SubSeq(gs, 1, Len(Config)) = Config
      /\ ToSet(gs) = ToSet(Config) \cup
           {DiscoveredGateway(targets[k]) :
              k \in UNION {Owner(n) : n \in GatewayName \ Names(Config)}}
      /\ Cardinality(Names(gs)) = Len(gs)

\* Where the packets of each container go by the plan of the listing ts.
Outcome(ts) ==
  LET gs == Merge(Config, ts)
  IN  [assigned |-> [t \in ToSet(ts) |-> Assignment(gs, t)],
       egress   |-> [n \in Names(gs) |->
                      ResolveEgress(gs[CHOOSE i \in DOMAIN gs : gs[i].name = n], ts)]]

\* Docker's listing order is an accident of creation times.  As long as no two
\* running containers claim one gateway, no two gateways are the default and
\* no egress names two containers, that order decides nothing.
Unambiguous(gs) ==
  /\ \A s, t \in Running : s # t /\ Declares(s) # None => Declares(s) # Declares(t)
  /\ Cardinality({i \in DOMAIN gs : gs[i].default}) <= 1
  /\ \A i \in DOMAIN gs : gs[i].egress.container # None =>
       Cardinality({t \in Running : gs[i].egress.container \in {t.name, t.service}}) <= 1
OrderDecidesNothing ==
  Unambiguous(Merged) =>
    LET outcome == Outcome(targets)
    IN  \A ts \in SetToSeqs(Running) : Outcome(ts) = outcome

\* A container that names its gateway is a member of that one or of none, no
\* matter which gateways exist, are the default, or claim it by a selector;
\* and one that two selectors claim is a member of none.
RoutedAsAsked ==
  LET gs == Merged  plan == Compiled
  IN  \A t \in Running, i \in DOMAIN plan :
        ToSet(t.addrs) \cap plan[i].members # {} =>
          /\ OptsIn(t) /\ t.via # None => t.via = gs[i].name
          /\ ~OptsIn(t) => \A j \in DOMAIN gs :
               (\E s \in gs[j].members : SelectorMatches(s, t)) => i = j

\* A container that declares no gateway and that no egress refers to may start
\* and stop without any other container or gateway being routed differently.
Bystander(t, gs) ==
  /\ Declares(t) = None
  /\ \A i \in DOMAIN gs : gs[i].egress.container \notin {t.name, t.service} \ {None}
BystandersChangeNothing ==
  [][LET before == Outcome(targets)  after == Outcome(targets')
     IN  \A c \in (Running \ Running') \cup (Running' \ Running) :
           Bystander(c, Merged) =>
             /\ before.egress = after.egress
             /\ \A t \in Running \cap Running' : before.assigned[t] = after.assigned[t]]_vars

----------------------------------------------------------------------------
(* What the documentation says and the code does not do.                   *)

\* README.md:13-14: "If the gateway is down the traffic is dropped, never leaked
\* (a fail-closed kill-switch)".  A container that opted into a gateway degc
\* has known stays a member, and so marked, while the gateway is down.
OptedInStaysMarked ==
  LET plan == Compiled
  IN  \A t \in Running : (OptsIn(t) /\ t.via \in known) =>
        ToSet(t.addrs) \subseteq UNION {plan[i].members : i \in DOMAIN plan}

=============================================================================
