# A verification of degc

degc routes the internet traffic of selected Docker containers through VPN
gateways, with `nft` and `ip`, and promises to fail closed.  This directory
models it in TLA+: what its processes do step by step, what the kernel then does
with a packet, and what degc promises of the two.  TLC checks the models on small
instances; TLAPS proves the main results for every instance.

Paths below are those of the repository (`src/plan.rs`, `docs/architecture.md`).

## The system

| component | state | operations | properties that make it correct |
| --- | --- | --- | --- |
| gateway model, labels (`src/api/v1alpha1/mod.rs`) | none | parse and validate `gateways.yaml`; read a container's labels; resolve `degc.via`; derive marks and tables, SNAT and local subnets | exactly one meaning for a container, at most one gateway for a mark or table |
| Docker listing (`src/docker.rs` `list_targets`) | none; reads Docker | one snapshot of the running containers | |
| plan compilation (`src/plan.rs`) | none | merge file and discovered gateways, assign members, resolve egresses | the listing order decides nothing; explicit choices win; a conflict is not routed |
| enforcement (`src/enforce/`) | the host: `inet degc`, fwmark rules, one routing table per gateway | preflight, one nft transaction, then three `ip` commands per gateway | members leave by their gateway or not at all; marks keep their table; convergence |
| `degc down` (`src/main.rs`, `src/enforce/`) | the same host state | delete the nft table, then rule and routes per configured gateway | never uncovers a marked packet; removes everything it names |
| event watcher (`src/docker.rs` `watch`) | event subscription, a channel of capacity one | coalesce, resubscribe after a second, count restarts | no wakeup lost |
| reconcile loop (`src/main.rs` `run`) | process phase, last summary | initial reconcile, resync tick, debounced event, shutdown | catches up; can be stopped |
| metrics, health, log summary (`src/obs.rs`, `src/main.rs`) | gauges, readiness, last fingerprint | record a reconcile, one gauge after the other; answer a scrape at any time | they tell what the host is programmed for |
| `status`, `validate`, `schema`, `--dry-run` | none | print | not modelled: they change nothing |
| environment configuration (`src/config.rs`) | read once | | not modelled; its two intervals are steps of `Watch` |

How they interact: Docker's events go through the watcher and its channel to the
loop; the loop lists the containers, compiles a plan and applies it with blocking
commands; the kernel keeps what was applied after the daemon is gone; `degc down`
is another process that writes the same kernel state, and nothing excludes the
daemon while it runs.

What is hard to test: a reconcile stopped between two commands (by a refused
command, a crash, a reboot) and continued from whatever it left; an `ip` whose failure is
taken for an empty answer or ignored; live routes that
the kernel drops when a link goes away; a gateway that moves, disappears or takes
over a table; `down` halfway, twice, or beside the daemon; another tool's rule or
route; the order in which Docker lists containers; events that come while the
channel is full, while debounce drains it, while a reconcile runs, or while nobody
is subscribed; containers that start, stop and swap addresses while a reconcile runs;
and what log and metrics still say while reconciles fail.  `PROJECT.json` lists each hazard at its line.

## Modules

| module | models | state | |
| --- | --- | --- | --- |
| `Enforce` | one host: the daemon's reconcile, `degc down`, the kernel state, the host's own changes | `pc`, `plan`, `gi` (reconcile), `dpc`, `di` (`down`), `nft`, `rules`, `floor`, `live` (kernel), `alien`, `up` (host) | core |
| `FailClosed` | what enforcement promises: packets marked, marks covered | `published`, `covered` | implemented by `Enforce` |
| `Gateways` | `src/api/v1alpha1/mod.rs`: validity, uniqueness, resolution, selectors, discovery | operators | |
| `Plan` | `src/plan.rs` `compile` and its helpers | operators | extends `Gateways` |
| `Containers` | the containers that start and stop, and the plan of each listing | `targets` | extends `Plan` |
| `Ruleset` | the sets and rules of `nft::build_script` and what nft does with them | operators | extends `Containers` |
| `Watch` | the select loop, the watcher and the channel | `pc`, `listed`, `applied`, `stream`, `flight`, `token`, `term` | |
| `Report` | log line, warnings and metrics of the loop | `at`, `last_fp`, `line`, `warned`, `members`, `gateways`, `available`, `pending`, `ready` | extends `Watch` and `Plan` |
| `System` | containers, plan and daemon together | those of `Enforce` and `Containers`, `listing` and histories | extends `Enforce`, instantiates `Containers`; implements `Watch` |
| `MCEnforce`, `MCContainers`, `MCWatch`, `MCReport`, `MCSystem` | the instances for TLC | | |
| `EnforceProofs`, `EnforceDownProofs`, `WatchProofs`, `PlanProofs`, `ContainersProofs`, `RulesetProofs`, `ReportProofs`, `SystemProofs` | theorems and proofs about the module each is named for | | |

### Enforce

One step is one command.  A reconcile is `List` (snapshot, compile,
`check_unique_routing`), `Preflight`, `NftApply`, and then for each gateway of
the plan `ReplaceBlackhole`, `AddRule`, `SetDefault`, in the order of
`route::build`.  A step that can be refused has its own failing action; `Fail`
says what follows: the process ends when the startup reconcile has not yet
succeeded, and goes back to its loop otherwise.  `degc down` is `DownNft`, then
`DownRule` and `DownFlush` for each gateway of the file.

Two failures of `ip` do not end a reconcile.  `ip_show` (`src/enforce/route.rs:192`) takes
one for an empty answer: `Preflight` is shown all rules or none, and any part of the
foreign routes, and goes on to `"blind"` in place of `"nft"` when the rules were hidden.
And `rule add` is run for its effect only (`:93`): `AddRuleRefused` goes on without the
rule.  `Strays` and `Diverted` say what the first can do to a packet: `NoLeak` and
`MarkOwned` hold of the rules as far as the last preflight was shown them (`sighted`).
After a refused `rule add` a plan does not count as programmed (`intact`).  Either goes
against what the documentation says, see below.

A plan is an element of the constant `World`: any sequence of gateways, each with
mark, table, resolved egress and members, that begins with the marks and tables of
the file, which is how `plan::compile` builds it (`Containers!FirstClaimWins`
checks that).  The kernel is modelled by what it does: `Fate(a)` is the set of ways
the internet-bound packets of an address can leave, from the last matching mark
rule, the fwmark rules, the metric-1 default, the blackhole, the fall-through to
main and the forward chain.  A set is needed because rules of equal priority, or
another tool's more specific routes, leave the choice open.

`intact`, `sighted`, `Containers!known`, `Watch!missed`, `Report!recorded`,
`System!programmed` and `System!applied` are history variables: they guard nothing.

### Containers and Plan

A container is its labels plus the addresses it got.  Docker's list is a sequence:
a container may come back anywhere in it, so every order is reached.  A label that
degc cannot read is `Bad`: whether that drops the gateway, the label or a part of it is
what `DiscoveredGateway`, `LabelSelectors` and `WellFormed` say.

### Ruleset

The script is a record of named sets and of the rules of its three chains, one operator
per part of `build_script`; a name is a kind (`degc_via_`, `degc_local_`, ...) and the
identifier that `sanitize` makes of the gateway's name, a constant function that may map
two names to one. `Holds`, `MarkSet`, `Drops` and `Masquerades` are nft's side;
definitions of one name are one set, as nft merges them. `ScriptMeansPlan` says that the
two together treat each packet as `Enforce!Fate` takes for granted, and adds what `Fate`
leaves out: local destinations, SNAT and IPv6. It speaks of gateways that pass
`check_unique_routing`, which `enforce::compile` runs before it builds a script (the
kill-switch rule of one gateway would otherwise drop what another with the same mark
sends). Gateways whose names sanitize to one identifier are `Twins`: they share their
sets, so what a member of one sends is treated as the last of them says, and this is
what `ScriptMeansPlan` claims of them.

### Watch

A snapshot is one value.  Events that Docker sends while the watcher is subscribed
are `flight`; all others are lost, and so are changes that
`is_relevant` ignores although they change what is listed (`docker network connect`
changes addresses; the comment at `src/docker.rs:128` reads as if there were none).
The signal handlers are installed when `select!` is first polled.

### Report

`Report` adds what an operator sees to the steps of `Watch`, with listings for
snapshots.  The metrics server runs on other threads, so from the last command of a
reconcile on each write that someone can see is a step, and `at` says which is next:
`Programs` (the host, and the warnings of the enforcer), `Announce` (the log),
`SetMembers`, `SetGateways`, `ClearSeries`, then `CreateSeries` and `SetAvailable` for each
gateway (`get_or_create` shows a new series at 0 before `set`), and `Recorded` (readiness).
A scrape reads one gauge after the other too, and may see each of them at another of these
steps; `GaugesTell` bounds each gauge by itself, and all of them together between two
reconciles.  A failed reconcile changes no gauge; where in `apply` it failed decides
whether the unresolved were warned of.

### System

`System` is `Enforce` whose plan is that of the containers that run when `List` is
executed, while `Containers!Next` may happen between any two of its steps.  `listing` is
what the reconcile under way has listed.  Each step of the composition is named for
what it adds: `SystemList`, `SystemNft`, `SystemDone` (the last command), and `Ends` for
the steps that may end a reconcile halfway.

## What the runs show

| run | question | answer |
| --- | --- | --- |
| `enforce` | do members stay fail-closed over seven plans that follow each other in any order, with failures, crashes, reboots, flaps, `down`, a foreign rule, and an `ip` that fails unnoticed? | yes, but for a rule that preflight was not shown: `NoLeak`, `MarkOwned`, `RuleHasFloor`, `DownRestores`; the system implements `FailClosed` (`Abstract`) |
| `enforce_overlap` | and with `degc down` beside the daemon, and a foreign route? | marks keep their tables even while both run, and what a reconcile completed undisturbed leaks nothing but along the foreign route |
| `enforce_pair` | two configured gateways: is `down` complete and ordered, and does the resync repair everything? | yes, `Converges` |
| `containers` | does compilation do what it promises for every order of starts, stops and listings, and does the script mean the plan? | yes: `FirstClaimWins`, `OrderDecidesNothing`, `RoutedAsAsked`, `BystandersChangeNothing`, `ScriptMeansPlan` |
| `watch` | is a wakeup ever lost; does the loop catch up and obey signals; do log and metrics tell the truth, also after failures and in the middle of `record`? | none is lost, it does, and they do: `NoLostWakeup`, `CatchesUp`, `Obeys`; `LogTells`, `UnresolvedWarned`, `GaugesTell`, `OperatorCatchesUp` |
| `system` | from labels to packets: does a container reach the internet through the gateway it named or not at all, while containers of two gateways take over each other's addresses in the middle of a reconcile? | yes, as far as it and the containers of its gateway run as they were listed (`AsAsked`); for the rest by what was listed (`AsPlanned`) |
| `system_live` | and once all rests? does the daemon, command by command, do what `Watch` takes for one step? | every container goes by the present address of its gateway (`EventuallyAsAsked`); the daemon implements `Watch` (`Loop`) |
| `enforce_half_open` | `docs/architecture.md:153-155` "installed before membership (...) never half-open" | violated: nft comes before ip, and a startup reconcile that fails on a later gateway leaves its members marked without a rule |
| `enforce_own_state` | `src/enforce/route.rs:213` "our own rule is not a conflict", `:4-6` "every reconcile converges" | violated: the rule to a gateway's former table makes every preflight fail |
| `enforce_follows` | `docs/architecture.md:44-46` "a recreate just updates the route" | violated while an earlier gateway's interface is absent |
| `containers_down` | `README.md:13-14` "If the gateway is down the traffic is dropped, never leaked" | violated for a gateway that declares itself: it disappears with its container and the member is no longer marked (`README.md:121` warns of unknown names) |
| `watch_starved` | `src/config.rs:14` "Periodic full reconcile interval" | violated: debounce has no upper limit |

Every property of a passing run has a mutant: a definition named
for what it gets wrong, next to the one it replaces (`SetDefaultAnyway`,
`ClashInRoutes`, `ApplyDrains`, ...), with which TLC finds the property violated.
No specification uses the mutants.

Met while modelling, without a run: `members` selectors can make a container that
is a gateway's egress its own member when it carries no `degc.gateway` label
(`src/plan.rs:93`); a discovered gateway's egress is looked up again by Compose
service and may be another replica (`src/api/v1alpha1/mod.rs:338`); two discovered
gateways may both be the default (`:71`).  Further:

- Preflight finds no collision when `ip rule show` or `ip route show` fails
  (`src/enforce/route.rs:192-200`), and the reconcile goes on and ends well.  With another
  tool's rule for the mark, or degc's own to the gateway's former table, marked packets may
  then follow that rule; `src/enforce/mod.rs:135` says "fail-closed: refuse to program if a
  table/mark collides with a foreigner" and `README.md:45-46` that marked traffic may leave
  only via the egress.
- A `rule add` that is refused for another reason than EEXIST is ignored
  (`src/enforce/route.rs:93`): the reconcile succeeds, members are marked, and their packets
  fall through to main until a later reconcile adds the rule; `README.md:42-44` says they
  never can.
- `degc down` walks the gateways of the file (`src/enforce/route.rs:138`): the rule, blackhole and
  live default of a gateway discovered from labels, and those of earlier tables, stay;
  `src/main.rs:52` and `README.md:169` say that it removes degc's host state.
- `sanitize` makes one identifier of `a.b` and `a-b` (`src/enforce/nft.rs:228`): the two
  gateways define one nft set, and the members of both get the mark of the later one;
  `docs/architecture.md:82-84` speaks of a set per gateway.
- `docs/architecture.md:76-77` says that a malformed knob drops its gateway, and
  `src/api/v1alpha1/mod.rs:340-342` calls it a hard error; `snat` and `default` are then
  read as absent, and `parse_selector_label` (`:330`) passes over the parts of `members`
  that have no `=` and selects by the rest.
- `degc_members` counts addresses, not containers (`src/obs.rs:57` says containers).
- A member that is recreated with as many addresses changes the nft set but not the
  summary, and is logged at DEBUG as "no change"; `README.md:191` says that each
  reconcile that changes the applied state logs at INFO.  `LogTells` is true because the
  line names members and counts addresses.
- Conflicts or malformed claims that replace others one for one leave the summary
  as it is, and are not warned of (`README.md:193-194`); unresolved containers are, by the
  enforcer, at every reconcile (`UnresolvedWarned`).
- `README.md:204-205` promises fail-closed for a container that is not yet routed; its
  packets leave by the host's own route until the next reconcile.  `EventuallyAsAsked`
  is what holds.
- The default local subnets are IPv4: unless `localSubnets` names IPv6 ranges, all IPv6
  that a member sends through the forward chain is dropped, local traffic included.
- `degc.gateway` is trimmed, `degc.via` is not.
- `ip` prints the names of tables it knows (`default` for 253), and preflight compares
  them with a number (`src/enforce/route.rs:234`).
- `on_restart` counts every attempt to subscribe, failed ones too, and not the watcher
  that `run` sets up again (`src/docker.rs:100`, `src/main.rs:149`).

### Bounds

- `enforce`: one configured gateway and at most one discovered one, which over time
  is four gateways on three tables, two IPv4 members and one IPv6 member; the plans
  are chosen so that each way of reusing a mark or table, losing an egress and moving
  a member occurs, and one gateway has the mark of another tool's rule.  No foreign
  route (`MaxAlien = 0`): `enforce_overlap` has them.
- `enforce_overlap`: the three plans of it in which a mark can meet another table, on
  three tables: the discovered gateway joins, moves, or has another tool's mark.
  `MaxAlien = 1`: one foreign route; it affects one table, and tables are independent.
- `enforce_pair`: two configured gateways, the smallest number with an order
  between gateways and a second iteration of `down`; the container egress is
  present, recreated or absent.
- `containers`: at most five containers at a time (`MaxRunning`), as many as there are
  names, and nine kinds; two claims on one name, malformed claims and knobs, a claim on the
  file's gateway, a shared selector, containers with IPv6, with both families and with no
  address all occur, and two gateway names share an nft identifier.
- `watch`: three snapshots, so that a change can overtake a change; `MaxFlight = 2`
  events, one more than the channel holds.  The snapshots differ as listings can: the
  gateway's container runs or not, a gateway comes and goes, a member changes its address
  alone, one unresolved container takes another's place, a claim is malformed.
- `system`: two gateways, a container and a router, and a member of each, so that a packet
  can take the wrong one; the router's member may get the address that the other
  gateway's container had, at every point of a reconcile.  Two containers run at a
  time (`MaxRunning`).  The state is compared without `applied` and `missed` (`VIEW`), which
  guard nothing and which neither property reads.
- `system_live`: one gateway whose container and member exchange addresses.
- In both `MaxAlien = 0`, and `down` runs only while the daemon is off: `enforce` and
  `enforce_overlap` cover the rest.

### Fairness

- `Enforce`: the daemon is restarted when it exits (`restart: unless-stopped` in the
  README's compose file), the ticker wakes it, and commands end, with or without
  success.  Nothing is assumed of egresses, other tools or operators: `Converges`
  names, as its premise, that faults stop.
- `Watch`: the loop's own steps and the delivery of an event that was sent are weakly
  fair.  `Tick` and `Shutdown` are strongly fair: `select!` chooses at random among
  the branches that are ready, and a due tick or a pending signal stays ready.
  Nothing is assumed of the stream: `CatchesUp` holds while it breaks for ever.
- `Report`: `record` goes on to its end.
- `System`: that of `Enforce`, and nothing of the containers: `EventuallyAsAsked` names as
  its premise that they, the links and the faults come to rest.

## What is proved

Each theorem holds for every value of the constants that satisfies the assumptions of its
module, with no bound on gateways, tables, containers, addresses or steps.  TLC evaluates
the assumptions on every run:

- `EnforceAssumption`, `WatchAssumption`: the types of the constants, and that the plans of
  `World` begin with the gateways of the file.
- `GatewaysAssumption`, `PlanAssumption`: derived marks and tables are marks and tables; an
  absent or malformed label and the outcomes of `Assignment` are not names of gateways.
- `ContainersAssumption`: the file passes `Gateways::validate`, and each declared container has
  labels and addresses of the right types.
- `RulesetAssumption`: the local subnets of the file are subnets of either family, IPv4 and
  IPv6 addresses differ, and no interface is called what `Unavailable` stands for.
- `ReportAssumption`: the file is valid, the listings are sequences without colliding gateways, and
  `Nothing` is none of them.
- `SystemAssumption`: those about the containers hold, and the plans of the listings that
  containers can produce are in `World`.

| theorem | module | states |
| --- | --- | --- |
| `TypeCorrect` | `EnforceProofs` | `Spec => []TypeOK` |
| `MarksOwned` | `EnforceProofs` | `Spec => []MarkOwned` |
| `LeakFree` | `EnforceProofs` | `Spec => []NoLeak` |
| `FloorOutlivesRule` | `EnforceDownProofs` | `Spec => []RuleHasFloor` |
| `DownComplete` | `EnforceDownProofs` | `Spec => []DownRestores` |
| `Implements` | `EnforceDownProofs` | `~Overlap => (Spec => Abstract)` |
| `AlwaysListed` | `ContainersProofs` | `Spec => []AllListed` |
| `TypeCorrect` | `ContainersProofs` | `Spec => []TypeOK` |
| `FirstClaims` | `ContainersProofs` | `Spec => []FirstClaimWins` |
| `Routed` | `ContainersProofs` | `Spec => []RoutedAsAsked` |
| `OrderIrrelevant` | `ContainersProofs` | `Spec => []OrderDecidesNothing` |
| `BystandersDoNot` | `ContainersProofs` | `Spec => BystandersChangeNothing` |
| `ScriptCorrect` | `RulesetProofs` | `Spec => []ScriptMeansPlan` |
| `SystemIsEnforce` | `SystemProofs` | `SystemSpec => Spec` |
| `EveryPlanInWorld` | `SystemProofs` | `SystemSpec => [](C!Compiled \in World)` |
| `SystemFollowsPlan` | `SystemProofs` | `SystemSpec => []AsPlanned` |
| `SystemAsAsked` | `SystemProofs` | `SystemSpec => []AsAsked` |
| `SystemIsLoop` | `SystemProofs` | `SystemSpec => Loop` |
| `WatchTyped` | `WatchProofs` | `Spec => []TypeOK` |
| `WakeupsKept` | `WatchProofs` | `Spec => []NoLostWakeup` |
| `ReportIsWatch` | `ReportProofs` | `ReportSpec => Spec` (that of `Watch`) |
| `LogTrue` | `ReportProofs` | `ReportSpec => []LogTells` |
| `WarningsComplete` | `ReportProofs` | `ReportSpec => []UnresolvedWarned` |
| `GaugesTrue` | `ReportProofs` | `ReportSpec => []GaugesTell` |

None of the properties is inductive.

`MarksOwned`: `AddRule` adds a rule for the plan in progress, so `Routable` adds to
`MarkOwned` what is known of that plan: its marks and tables are distinct since
`List`, its marks are looked up in their own tables or nowhere (`Owned`) since a
`Preflight` that was shown the rules, and the table that nft holds during the ip commands is
the plan's, or none after a concurrent `down`.  It claims nothing of a plan whose preflight
was not.

`LeakFree`: `NoLeak` speaks of finished reconciles, and `Progress` says how far an
unfinished one is: the gateways before `gi` are `Done` (rule, blackhole, and no live
default other than their own egress), and the one at `gi` has its blackhole before its
rule.  Since no two gateways of a plan share a table, doing one undoes no other.
`Programmed` states this only while `intact` holds, which a crash, a failure between
two ip commands or a refused `rule add` ends; an egress flap only removes defaults.
`FateOfDone` derives the fates of a member's packets from `Done`: by its own table, which
`Done` describes, or by a second rule for the mark, which `Diverted` allows where the
preflight was blind and `MarkOwned` excludes where it was not.

`FloorOutlivesRule`, `DownComplete` and `Implements` rest on `Exclusive`, which holds
when `down` and the daemon take turns: `Turns` (while `down` runs the daemon is off, and
after its first step nothing is marked), `Floors` (a rule to a table of degc has its
blackhole, and the only rule to a configured gateway's table is that gateway's own, so
deleting one rule leaves none that would look up the flushed table) and `Removed` (what
`down` has removed of the gateways before `di` stays removed).  `Implements` maps
each step to a step of `FailClosed` or to a stutter: `DownNft` is its `Withdraw`,
which lets every `DownRule` that follows be an `Uncover`, and `NftApply` its `Publish`, whose condition
on what is covered is `Owned`.

`FirstClaims`, `Routed`, `OrderIrrelevant`, `BystandersDoNot`: their invariant is `Listed`, that
of `AlwaysListed`: what runs is a list of declared containers of which no two share a name or an
address.  All else is about the operators, in `PlanProofs`.  `Merge` visits the list in order;
`MergedTo` says what it returns without a visit: the file, then the discovered gateways of the
places `Claims` names, in order, and each of them once.  `MergeProperties` proves it for
every list, `NatSets` being the induction (a set of numbers that holds 0 and each successor holds
them all, from the least number it would miss).  `SelectorAssignment` and `AssignedName` say what
`Assignment` returns in terms of the selectors that match, with no counting left.
`OrderIrrelevant` compares two orders of one list by `Reordered` (the same gateways, at most one
default in each): `Unambiguous` makes the claims of two orders the same gateways (`SameGateways`), and
`ReorderedAssignment` and `ReorderedIp` then give the same outcome.  `BystandersDoNot` takes the
longer of the two lists as the other with one container more (`Extends`), which is what a
start and a stop have in common: `MergeExtended` and `IpExtended` say that a bystander changes neither
the gateways nor any address.

`ScriptCorrect`: an element of `FlattenSeq` is an element of one of its parts
(`FlattenElements`, an induction as above).  A set holds what the definitions of its name hold
together, and a name leads back to its kind and to the gateways that share its identifier
(`HeldBySame`, `KindsHeld`): so a rule matches the members of the gateway's twins and not their
local subnets (`RulesMatch`), and the chains can be read gateway by gateway (`ChainsMatch`).  An
address belongs to one container (`OneOwner`), the container to at most one gateway, so the
rules that match are those of that gateway's twins, of which the last sets the mark
(`LatestMark`); and marks being distinct only the kill-switch and masquerade rules of that
one apply to what it marks (`ReadByMark`).

`WakeupsKept`: `NoLostWakeup` is inductive together with `TypeOK`.

`SystemIsEnforce`: each step of `System` is one of `Enforce` with more said about it; that
of `SystemList` takes only plans of `World`.  `EveryPlanInWorld` shows that this leaves no
listing out: starts and stops keep the list in `Listings` (`Possible`: no two running
containers share a name or an address), whose plans `SystemAssumption` has in `World`.
So `LeakFree` and the rest hold of `System`.

`SystemFollowsPlan`: `Linked` ties the two halves together: what runs is `Listed`, the plan
under way is that of `listing`, and as long as `intact` holds nft was made from the plan of
`programmed`.  `LeakFree` speaks of the nft entries that hold an address (the fates of its packets are
`FateOfListed`'s); `MemberOf` shows that
these are the entries of the gateway assigned to the container, since an address belongs to one
container of a listing.

`SystemAsAsked` adds what a container asks for: `AskedFor` (one that names a gateway there is gets
it), `NothingAsked` (one without labels gets none, as no outcome of `Assignment` is the name of a
gateway) and `EgressWays` (what the egress of a gateway resolves to is its interface, its next hop or
an address of a container it names, because a merged gateway has exactly one kind of egress), and
`WaysKept` (as long as those containers run as they were listed, their addresses are ways still).
The condition on those containers is needed: an address that a stopped gateway container
left may be another's by now, and what follows is `EventuallyAsAsked`, which is model-checked.

`SystemProofs` takes what it needs of the containers from `ContainersProofs`, instantiated as `P`
with the gateways of the file; the lemmas `Same...` say that the operators `P` names are those that
`System` names by `C`.

`SystemIsLoop`: `Resting` says what the refinement mapping needs: nothing is `listing`
outside a reconcile, and a process that is off has not started.  A command within a
reconcile is then a stutter of `Watch`, the last one its `Apply`, a refused one its
`ApplyFails`, and a container that starts or stops its `QuietChange`, which takes that the
list is never the same afterwards (`DockerChanges`).

`LogTrue` and `WarningsComplete`: `Told` adds to the two properties that the summary the loop
remembers is the one it announced.  A reconcile that finds the summary unchanged may then
stay silent; the unresolved it warns of all the same.  `Summary` stays opaque: what it
contains does not matter.

`GaugesTrue`: `Gauged` says which gauge shows what at which step of `record`: before its
write the listing `recorded` last, afterwards the one just applied; while the series are set,
`available` is what the first so many gateways of that listing set, perhaps with the next one
at 0, and `pending` is the rest (`SetUpTo`).  No two elements of a series are of one gateway
(`SeriesProperties`, from `MergeProperties`), so a gauge that is set is not set again, and when
nothing is pending all are set (`SeriesShown`).  The loop takes no other step meanwhile.

Only model-checked are the liveness properties (`Converges`, `CatchesUp`, `Obeys`,
`OperatorCatchesUp`, `EventuallyAsAsked`): fairness and ENABLED are out of reach of the prover.
Every other property of a passing run is stated by a theorem.

## What is not modelled

- The text of the nft script and of `ip`'s output; `sanitize` is a constant function.
  Local and IPv6 destinations are no part of `Fate`; `ScriptMeansPlan` covers them.
- The empty nft table and no nft table are one state, since neither marks.
- `rule del`, `route flush` and the removal of the live default fail only when there is
  nothing to remove, here; the code ignores whatever reason they fail for
  (`src/enforce/route.rs:122`, `:150`, `:154`).
- A foreign metric-1 default that `route replace` would overwrite; rules of other tools
  that appear later than boot.
- That nft rejects overlapping intervals in one set of local subnets: `NftRejected` may happen
  to any script, whatever is in it.
- A `gateways.yaml` that changes between two starts, other than through what `World`
  contains; a `down` that reads another file than the daemon did.
- Hanging commands: no call of degc has a timeout.
- Parsing of numbers, addresses and YAML (whether a text is well-formed is an input),
  hashing of names, and the environment (`src/config.rs`), which is read once; the
  interval and the quiet period are the steps `Tick` and `DebounceEnds`.
- `status`, `validate`, `schema` and `--dry-run`: they print and change nothing.
- Of the metrics: the reconcile counter, the duration histogram, the time of the last success, the restart
  counter, `build_info`, and the HTTP routes.
- Network namespaces that containers share: the listing does not show them.

## Plan

1. Done: `Enforce` with `FailClosed`; `Gateways`, `Plan`, `Containers` and `Ruleset`;
   `Watch` and `Report`; `System`, which composes containers, plan and daemon; the proofs
   of every safety property, of the refinements and of what `Merge` and the operators of
   `Plan` return.
2. Proofs: that `Enforce!Fate` is what the script of `Ruleset` and the routes make of a packet,
   which `ScriptMeansPlan` and `AsPlanned` state of each half; that a reconcile which nothing
   disturbs only ever brings the host nearer to its plan, the safety half of `Converges`.
3. `System` with `degc down` beside the daemon and with gateways that declare themselves,
   once a smaller state space allows it.
