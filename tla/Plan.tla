------------------------------- MODULE Plan --------------------------------
(***************************************************************************)
(* plan::compile (src/plan.rs): from the running containers, in the order  *)
(* in which Docker lists them, and the gateways of the file to the plan    *)
(* that Enforce programs.  A running container carries its labels and the  *)
(* sequence of its addresses, one network after the other.                 *)
(***************************************************************************)
EXTENDS Gateways, SequencesExt

CONSTANTS Addr4, Addr6

Unavailable == "unavailable"
\* What becomes of a container that no gateway gets as a member.
IsGateway   == "gateway"
Unresolved  == "unresolved"
Conflict    == "conflict"
Direct      == "direct"

\* The variants of the Assignment enum are not names of gateways.
ASSUME PlanAssumption == {IsGateway, Unresolved, Conflict, Direct} \cap GatewayName = {}

\* Mutant of Merge: the first claim takes the name before its knobs are looked
\* at.
MergeFirst(config, targets) ==
  LET names == {config[i].name : i \in DOMAIN config}
      claims == {k \in DOMAIN targets : /\ Declares(targets[k]) \notin names \cup {None}
                                        /\ \A j \in 1 .. k - 1 :
                                             Declares(targets[j]) # Declares(targets[k])}
      owners == SetToSortSeq({k \in claims : WellFormed(targets[k])}, <)
  IN  config \o [k \in DOMAIN owners |-> DiscoveredGateway(targets[owners[k]])]

\* A container adds the gateway it claims with well-formed knobs, unless there
\* is one of that name.
Admit(gs, t) ==
  IF \/ Declares(t) = None
     \/ \E i \in DOMAIN gs : gs[i].name = Declares(t)
     \/ ~WellFormed(t)
  THEN gs ELSE Append(gs, DiscoveredGateway(t))

\* The file's gateways, then one for each name that a running container
\* claims first with well-formed knobs.
Merge(config, targets) ==
  LET merged[k \in 0 .. Len(targets)] ==
        IF k = 0 THEN config ELSE Admit(merged[k - 1], targets[k])
  IN  merged[Len(targets)]

\* Mutant of Assignment: the first of several selectors wins.
AssignmentPicksFirst(gs, t) ==
  LET matched == {i \in DOMAIN gs : \E s \in gs[i].members : SelectorMatches(s, t)}
  IN  IF Declares(t) # None THEN IsGateway
      ELSE IF OptsIn(t)
           THEN LET g == Resolve(gs, t.via) IN IF g = None THEN Unresolved ELSE g
      ELSE IF matched = {} THEN Direct ELSE gs[First(matched)].name

\* An explicit opt-in wins over selectors; two selectors are a conflict.
Assignment(gs, t) ==
  LET matched == {i \in DOMAIN gs : \E s \in gs[i].members : SelectorMatches(s, t)}
  IN  IF Declares(t) # None THEN IsGateway
      ELSE IF OptsIn(t)
           THEN LET g == Resolve(gs, t.via) IN IF g = None THEN Unresolved ELSE g
      ELSE IF matched = {} THEN Direct
      ELSE IF Cardinality(matched) = 1 THEN gs[First(matched)].name
      ELSE Conflict

\* The first IPv4 address of several.
Ipv4(addrs) ==
  LET found == {i \in DOMAIN addrs : addrs[i] \in Addr4}
  IN  IF found = {} THEN Unavailable ELSE addrs[First(found)]

\* Mutant of GatewayContainerIp: the first IPv4 address in the list will do.
AnyContainerIp(sel, targets) == Ipv4(FlattenSeq([k \in DOMAIN targets |-> targets[k].addrs]))

\* The first IPv4 address of the first container of that name or service.
GatewayContainerIp(sel, targets) ==
  LET named == {k \in DOMAIN targets : sel \in {targets[k].name, targets[k].service}}
  IN  IF named = {} THEN Unavailable ELSE Ipv4(targets[First(named)].addrs)

ResolveEgress(g, targets) ==
  CASE g.egress.interface # None -> g.egress.interface
    [] g.egress.nextHop   # None -> g.egress.nextHop
    [] OTHER -> GatewayContainerIp(g.egress.container, targets)

Members(gs, g, targets) ==
  UNION {ToSet(targets[k].addrs) :
           k \in {k \in DOMAIN targets : Assignment(gs, targets[k]) = g.name}}

Compile(config, targets) ==
  LET gs == Merge(config, targets)
  IN  [i \in DOMAIN gs |-> [mark    |-> MarkValue(gs[i]),
                            table   |-> TableId(gs[i]),
                            egress  |-> ResolveEgress(gs[i], targets),
                            members |-> Members(gs, gs[i], targets)]]

----------------------------------------------------------------------------
\* What a plan says beside its gateways, for the log and `degc status`: the
\* names of a gateway's members, and the containers that were not routed, by
\* their place in the list.
MemberNames(gs, g, targets) ==
  {targets[k].name : k \in {k \in DOMAIN targets : Assignment(gs, targets[k]) = g.name}}
Left(gs, targets, why) == {k \in DOMAIN targets : Assignment(gs, targets[k]) = why}
DiscoveryErrors(config, targets) ==
  {k \in DOMAIN targets :
     LET gs == Merge(config, SubSeq(targets, 1, k - 1))  t == targets[k]
     IN  /\ Declares(t) # None /\ \A i \in DOMAIN gs : gs[i].name # Declares(t)
         /\ ~WellFormed(t)}
=============================================================================
