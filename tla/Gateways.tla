----------------------------- MODULE Gateways ------------------------------
(***************************************************************************)
(* The v1alpha1 gateway model (src/api/v1alpha1/mod.rs): a gateways        *)
(* document, the labels of a container, and what degc reads from either.   *)
(*                                                                         *)
(* Names are model values.  A container name and a Compose service share   *)
(* the set Name, because a gateway's egress may be found by either.  A     *)
(* selector and a container's other labels are sets of tags.  A label is   *)
(* None when it is absent and Bad when degc cannot read its text.          *)
(***************************************************************************)
EXTENDS Naturals, Sequences, FiniteSets

CONSTANTS
  None,                \* an absent label or field
  Bad,                 \* a label, or a part of one, that does not parse
  Name,                \* container names and Compose service names
  GatewayName, Tag,
  Mark, Table,
  AutoMark, AutoTable, \* what the hash of a gateway's name derives
  Net4, Net6,          \* the local subnets of each family
  DefaultLocals        \* the RFC1918 ranges

ASSUME GatewaysAssumption ==
  /\ AutoMark  \in [GatewayName -> Mark]
  /\ AutoTable \in [GatewayName -> Table]
  /\ {None, Bad} \cap (Name \cup GatewayName \cup Tag \cup Mark \cup Table
                        \cup Net4 \cup Net6) = {}
  /\ None # Bad
  /\ Net4 \cap Net6 = {} /\ DefaultLocals \subseteq Net4 /\ DefaultLocals # {}

Selector == SUBSET Tag

MarkValue(g) == IF g.mark  = None THEN AutoMark[g.name]  ELSE g.mark
TableId(g)   == IF g.table = None THEN AutoTable[g.name] ELSE g.table

\* Masquerade by default only where the egress is a host interface.
SnatEnabled(g) == IF g.snat = None THEN g.egress.interface # None ELSE g.snat = "true"

Locals(g) == IF g.locals = {} THEN DefaultLocals ELSE g.locals

\* Gateway::validate, as far as the shape of a gateway decides it.
ValidGateway(g) ==
  /\ Cardinality({k \in {"interface", "container", "nextHop"} : g.egress[k] # None}) = 1
  /\ Bad \notin {g.mark, g.table} \cup g.locals
  /\ {} \notin g.members

UniqueRouting(gs) ==
  \A i, j \in DOMAIN gs : i # j => /\ MarkValue(gs[i]) # MarkValue(gs[j])
                                   /\ TableId(gs[i]) # TableId(gs[j])

\* Gateways::validate, which parse_gateways runs over the file alone.
ValidDocument(gs) ==
  /\ \A i \in DOMAIN gs : ValidGateway(gs[i])
  /\ \A i, j \in DOMAIN gs : i # j => gs[i].name # gs[j].name
  /\ Cardinality({i \in DOMAIN gs : gs[i].default}) <= 1
  /\ UniqueRouting(gs)

First(I) == CHOOSE i \in I : \A j \in I : i <= j

\* The gateway a container means by `degc.via`, or by leaving it out: the
\* first default, else the only gateway there is.
Resolve(gs, via) ==
  LET defaults == {i \in DOMAIN gs : gs[i].default}
  IN  IF via # None THEN IF \E i \in DOMAIN gs : gs[i].name = via THEN via ELSE None
      ELSE IF defaults # {} THEN gs[First(defaults)].name
      ELSE IF Len(gs) = 1 THEN gs[1].name
      ELSE None

SelectorMatches(s, t) == s # {} /\ s \subseteq t.tags

\* What a container's labels say: the gateway it declares, and whether it
\* opts in.  Only the text "true" does; a blank gateway name declares none.
Declares(t) == IF t.gateway = Bad THEN None ELSE t.gateway
OptsIn(t)   == t.enable = "true"

\* `<prefix>.gateway.members`: the parts without a `=` are passed over.
LabelSelectors(label) == IF label = None THEN {} ELSE {label \ {Bad}}

\* Mutant of DiscoveredGateway: it takes the container's name.
GatewayByContainerName(t) ==
  [name    |-> t.name,
   egress  |-> [interface |-> None, nextHop |-> None, container |-> t.name],
   snat    |-> t.knobs.snat, mark |-> t.knobs.mark, table |-> t.knobs.table,
   default |-> t.knobs.default = "true", locals |-> t.knobs.locals,
   members |-> LabelSelectors(t.knobs.members)]

\* The gateway a container declares by its labels: found again by its Compose
\* service when it has one, by its name otherwise.  `snat` and `default` mean
\* something when they are "true" or "false", and are absent otherwise.
DiscoveredGateway(t) ==
  [name    |-> Declares(t),
   egress  |-> [interface |-> None, nextHop |-> None,
                container |-> IF t.service # None THEN t.service ELSE t.name],
   snat    |-> IF t.knobs.snat = Bad THEN None ELSE t.knobs.snat,
   mark    |-> t.knobs.mark,
   table   |-> t.knobs.table,
   default |-> t.knobs.default = "true",
   locals  |-> t.knobs.locals,
   members |-> LabelSelectors(t.knobs.members)]

WellFormed(t) == ValidGateway(DiscoveredGateway(t))
=============================================================================
