------------------------------ MODULE Enforce ------------------------------
(***************************************************************************)
(* How degc programs one Docker host: the reconcile of the daemon (`degc   *)
(* run`), the explicit removal (`degc down`) and the kernel state both     *)
(* write, one `nft`/`ip` invocation per step.  Crashes, reboots, egress    *)
(* flaps and other tools' routes happen between any two steps.             *)
(*                                                                         *)
(* A plan (src/plan.rs) is a sequence of gateways, each with its mark, its *)
(* routing table, its resolved egress and its member addresses.  World are *)
(* the plans that Docker snapshots may compile to; plan::compile starts    *)
(* from the gateways of gateways.yaml, so each of them begins with Config. *)
(***************************************************************************)
EXTENDS Naturals, Sequences, FiniteSets

CONSTANTS
  Mark, Table,    \* fwmarks and routing tables gateways may use
  ForeignTable,   \* a table of another tool, outside Table
  ForeignMarks,   \* marks that another tool's ip rule already routes there
  Interface,      \* host interfaces usable as an egress
  NextHop,        \* addresses of gateway containers and routers
  Addr4, Addr6,   \* container addresses
  World,          \* the plans Docker snapshots may compile to
  Config,         \* the <<mark, table>> of each gateway in gateways.yaml
  MaxAlien,       \* bound: tables that other tools may intrude on
  Overlap         \* may an operator run `degc down` while the daemon runs?

Unavailable == "unavailable"   \* plan.rs: no egress could be resolved
NoRoute     == "no route"      \* no metric-1 default in a table
Dropped     == "dropped"       \* fates of a packet: dropped,
Wan         == "wan"           \*   out of the main table's default,
Alien       == "alien"         \*   along another tool's route

Addr   == Addr4 \cup Addr6
Egress == Interface \cup NextHop

Gateway == [mark : Mark, table : Table,
            egress : Egress \cup {Unavailable}, members : SUBSET Addr]

ASSUME EnforceAssumption ==
  /\ World \subseteq Seq(Gateway)
  /\ Config \in Seq(Mark \X Table)
  /\ \A p \in World, d \in DOMAIN Config :
       d \in DOMAIN p /\ Config[d] = <<p[d].mark, p[d].table>>
  /\ ForeignMarks \subseteq Mark
  /\ ForeignTable \notin Table
  /\ Interface \cap NextHop = {}
  /\ Egress \cap {Unavailable, NoRoute, Dropped, Wan, Alien} = {}
  /\ Addr4 \cap Addr6 = {}
  /\ Overlap \in BOOLEAN

VARIABLES
  pc,       \* daemon: where the reconcile is, "idle" between two, "off"
  started,  \* daemon: the startup reconcile has succeeded
  plan,     \* daemon: the plan being applied
  gi,       \* daemon: the gateway of plan whose ip commands run now
  dpc, di,  \* `degc down`: its step and the gateway of Config it is at
  nft,      \* kernel: the gateways of table inet degc, << >> without it
  rules,    \* kernel: fwmark rules, as <<mark, table>>
  floor,    \* kernel: tables holding degc's blackhole default
  live,     \* kernel: the metric-1 default of each table
  alien,    \* kernel: tables holding a route of another tool
  up,       \* egresses a route can point at now
  intact,   \* history: nft's plan is being or was programmed undisturbed
  sighted   \* history: preflight of nft's plan was shown the ip rules

daemon == <<pc, started, plan, gi>>
down   == <<dpc, di>>
kernel == <<nft, rules, floor, live>>
env    == <<alien, up>>
history == <<intact, sighted>>
vars   == <<daemon, down, kernel, env, history>>

Checked     == {"nft", "blind"}            \* past preflight; "blind" without the ip rules
Programming == {"floor", "rule", "live"}   \* inside route::apply

----------------------------------------------------------------------------
(* What the kernel does with a packet, given what degc programmed.         *)

\* The mark rules run in plan order and the last one that matches wins.
Entries(a) == {i \in DOMAIN nft : a \in nft[i].members}
Last(a)    == {i \in Entries(a) : \A j \in Entries(a) : j <= i}

Lookups(m) == {t \in Table \cup {ForeignTable} : <<m, t>> \in rules}

\* A table without any matching route falls through to main.
Exits(t) ==
  IF t = ForeignTable THEN {Alien}
  ELSE (IF t \in alien THEN {Alien} ELSE {}) \cup
       {IF live[t] # NoRoute THEN live[t]
        ELSE IF t \in floor THEN Dropped ELSE Wan}

Routed(m) == IF Lookups(m) = {} THEN {Wan}
             ELSE UNION {Exits(t) : t \in Lookups(m)}

\* The forward chain: oif match for an interface, plain drop when the
\* egress is unavailable, nothing for a next hop.
KillSwitch(g, out) ==
  IF \/ g.egress = Unavailable
     \/ g.egress \in Interface /\ out # g.egress
  THEN Dropped ELSE out

\* Where the internet-bound packets of an address may end up.
Fate(a) ==
  IF Entries(a) = {} THEN {Wan}
  ELSE IF a \in Addr6 THEN {Dropped}
  ELSE UNION {{KillSwitch(nft[i], out) : out \in Routed(nft[i].mark)} : i \in Last(a)}

----------------------------------------------------------------------------
(* The daemon.                                                             *)

\* v1alpha1 check_unique_routing over the merged gateways.
UniqueRouting(p) ==
  \A i, j \in DOMAIN p : i # j => /\ p[i].mark  # p[j].mark
                                  /\ p[i].table # p[j].table

\* Mutant of ClashIn: only routes are looked at.
ClashInRoutes(p, shown, routed) == \E i \in DOMAIN p : p[i].table \in routed

\* route::preflight, of the rules that it is shown and the tables in which it
\* is shown a foreign route: such a route in a gateway's table, or a rule that
\* takes its mark to another table, no matter whose.
ClashIn(p, shown, routed) ==
  \E i \in DOMAIN p : \/ p[i].table \in routed
                      \/ \E r \in shown : r[1] = p[i].mark /\ r[2] # p[i].table

\* There is a collision, whether preflight is shown it or not.
Clash(p) == ClashIn(p, rules, alien)

\* Mutant of Fail: the daemon goes on after a failed startup reconcile.
FailGoesOn == /\ pc' = "idle" /\ plan' = << >> /\ gi' = 0 /\ started' = started
              /\ intact' = (intact /\ pc \notin Programming) /\ UNCHANGED sighted

\* A failed reconcile ends the process at startup, and is logged later.
Fail == /\ pc' = IF started THEN "idle" ELSE "off"
        /\ plan' = << >> /\ gi' = 0
        /\ started' = started
        /\ intact' = (intact /\ pc \notin Programming) /\ UNCHANGED sighted

Finish == pc' = "idle" /\ started' = TRUE /\ plan' = << >> /\ gi' = 0

Start == /\ pc = "off" /\ (Overlap \/ dpc = "off")
         /\ pc' = "list" /\ started' = FALSE /\ plan' = << >> /\ gi' = 0
         /\ UNCHANGED <<down, kernel, env, history>>

\* The resync tick or a debounced event.
Wake == /\ pc = "idle" /\ pc' = "list"
        /\ UNCHANGED <<started, plan, gi, down, kernel, env, history>>

\* Snapshot and compile; a mark or table shared by two gateways fails the
\* whole reconcile before anything is written.
List(p) == /\ pc = "list"
           /\ IF UniqueRouting(p)
              THEN /\ pc' = "preflight" /\ plan' = p
                   /\ UNCHANGED <<started, gi, history>>
              ELSE Fail
           /\ UNCHANGED <<down, kernel, env>>

ListFails == pc = "list" /\ Fail /\ UNCHANGED <<down, kernel, env>>

\* ip_show takes an `ip` that fails for one that prints nothing: once for the
\* rules, and for the routes of each table.
Preflight == /\ pc = "preflight"
             /\ \E shown \in {rules, {}}, routed \in SUBSET alien :
                  IF ClashIn(plan, shown, routed)
                  THEN Fail
                  ELSE /\ pc' = IF shown = rules THEN "nft" ELSE "blind"
                       /\ UNCHANGED <<started, plan, gi, history>>
             /\ UNCHANGED <<down, kernel, env>>

\* Mutant of NftApply: the table is not deleted first, and its sets keep what
\* they hold.
NftApplyAdds ==
  /\ pc \in Checked
  /\ nft' = [i \in DOMAIN plan |->
               IF i \notin DOMAIN nft THEN plan[i]
               ELSE [plan[i] EXCEPT !.members = @ \cup nft[i].members]]
  /\ intact' = TRUE /\ sighted' = (pc = "nft")
  /\ IF plan = << >> THEN Finish
     ELSE pc' = "floor" /\ gi' = 1 /\ UNCHANGED <<started, plan>>
  /\ UNCHANGED <<down, rules, floor, live, env>>

\* One nft transaction replaces the whole table.
NftApply == /\ pc \in Checked
            /\ nft' = plan /\ intact' = TRUE /\ sighted' = (pc = "nft")
            /\ IF plan = << >> THEN Finish
               ELSE pc' = "floor" /\ gi' = 1 /\ UNCHANGED <<started, plan>>
            /\ UNCHANGED <<down, rules, floor, live, env>>

NftRejected == pc \in Checked /\ Fail /\ UNCHANGED <<down, kernel, env>>

\* Mutant of ReplaceBlackhole: only for a gateway without an egress.
BlackholeWhenDown ==
  /\ pc = "floor" /\ pc' = "rule"
  /\ floor' = IF plan[gi].egress = Unavailable THEN floor \cup {plan[gi].table} ELSE floor
  /\ UNCHANGED <<started, plan, gi, down, nft, rules, live, env, history>>

ReplaceBlackhole == /\ pc = "floor" /\ pc' = "rule"
                    /\ floor' = floor \cup {plan[gi].table}
                    /\ UNCHANGED <<started, plan, gi, down, nft, rules, live, env, history>>

\* Mutant of AddRule: every rule leads to the table of the first gateway.
AddRuleOneTable == /\ pc = "rule" /\ pc' = "live"
                   /\ rules' = rules \cup {<<plan[gi].mark, plan[1].table>>}
                   /\ UNCHANGED <<started, plan, gi, down, nft, floor, live, env, history>>

\* EEXIST is ignored: adding a rule twice leaves one.
AddRule == /\ pc = "rule" /\ pc' = "live"
           /\ rules' = rules \cup {<<plan[gi].mark, plan[gi].table>>}
           /\ UNCHANGED <<started, plan, gi, down, nft, floor, live, env, history>>

\* So is every other failure of `rule add`.
AddRuleRefused == /\ pc = "rule" /\ pc' = "live"
                  /\ <<plan[gi].mark, plan[gi].table>> \notin rules
                  /\ intact' = FALSE /\ UNCHANGED sighted
                  /\ UNCHANGED <<started, plan, gi, down, kernel, env>>

\* Mutant of NextGateway: one gateway too many.
NextGatewayPast == IF gi <= Len(plan)
                   THEN pc' = "floor" /\ gi' = gi + 1 /\ UNCHANGED <<started, plan>>
                   ELSE Finish

NextGateway == IF gi < Len(plan)
               THEN pc' = "floor" /\ gi' = gi + 1 /\ UNCHANGED <<started, plan>>
               ELSE Finish

\* Mutants of SetDefault: `route add`, whose EEXIST is ignored, leaves a stale
\* default; every route goes to the table of the first gateway; a refused
\* `route replace` is only logged.
SetDefaultAdds ==
  /\ pc = "live"
  /\ LET g == plan[gi]
     IN  IF g.egress \in up \cup {Unavailable}
         THEN /\ live' = [live EXCEPT ![g.table] = IF g.egress = Unavailable THEN NoRoute
                                                 ELSE IF @ # NoRoute THEN @ ELSE g.egress]
              /\ NextGateway /\ UNCHANGED history
         ELSE Fail /\ live' = live
  /\ UNCHANGED <<down, nft, rules, floor, env>>
SetDefaultOneTable ==
  /\ pc = "live"
  /\ LET g == plan[gi]
     IN  IF g.egress \in up \cup {Unavailable}
         THEN /\ live' = [live EXCEPT ![plan[1].table] =
                            IF g.egress = Unavailable THEN NoRoute ELSE g.egress]
              /\ NextGateway /\ UNCHANGED history
         ELSE Fail /\ live' = live
  /\ UNCHANGED <<down, nft, rules, floor, env>>
SetDefaultAnyway ==
  /\ pc = "live" /\ NextGateway
  /\ LET g == plan[gi]
     IN  live' = IF g.egress \in up THEN [live EXCEPT ![g.table] = g.egress]
                 ELSE IF g.egress = Unavailable THEN [live EXCEPT ![g.table] = NoRoute]
                 ELSE live
  /\ UNCHANGED <<down, nft, rules, floor, env, history>>

\* The live default, or its removal.  Replacing it fails while the egress
\* is down, and that ends the reconcile before the gateways that follow.
SetDefault ==
  /\ pc = "live"
  /\ LET g == plan[gi]
     IN  IF g.egress \in up \cup {Unavailable}
         THEN /\ live' = [live EXCEPT ![g.table] =
                            IF g.egress = Unavailable THEN NoRoute ELSE g.egress]
              /\ NextGateway /\ UNCHANGED history
         ELSE Fail /\ live' = live
  /\ UNCHANGED <<down, nft, rules, floor, env>>

\* `ip` itself cannot be run or refuses the blackhole.
IpFails == pc \in Programming /\ Fail /\ UNCHANGED <<down, kernel, env>>

\* SIGTERM is only looked at between two reconciles; the ruleset stays.
Shutdown == /\ pc = "idle"
            /\ pc' = "off" /\ started' = FALSE /\ UNCHANGED <<plan, gi>>
            /\ UNCHANGED <<down, kernel, env, history>>

Crash == /\ pc # "off"
         /\ pc' = "off" /\ plan' = << >> /\ gi' = 0 /\ started' = FALSE
         /\ intact' = (intact /\ pc \notin Programming) /\ UNCHANGED sighted
         /\ UNCHANGED <<down, kernel, env>>

----------------------------------------------------------------------------
(* `degc down`: the nft table, then rule and routes of each gateway that   *)
(* gateways.yaml names.                                                    *)

DownStart == /\ dpc = "off" /\ (Overlap \/ pc = "off")
             /\ dpc' = "nft" /\ di' = 0
             /\ UNCHANGED <<daemon, kernel, env, history>>

\* Mutant of DownNft: the failed `delete table` is not noticed.
DownNftKeeps == /\ dpc = "nft" /\ intact' = FALSE /\ UNCHANGED sighted
                /\ IF Config = << >> THEN dpc' = "done" /\ di' = 0
                   ELSE dpc' = "rule" /\ di' = 1
                /\ UNCHANGED <<daemon, nft, rules, floor, live, env>>

DownNft == /\ dpc = "nft"
           /\ nft' = << >> /\ intact' = FALSE /\ UNCHANGED sighted
           /\ IF Config = << >> THEN dpc' = "done" /\ di' = 0
              ELSE dpc' = "rule" /\ di' = 1
           /\ UNCHANGED <<daemon, rules, floor, live, env>>

\* Mutant of DownRule: `rule del` names no rule, and its failure is ignored.
DownRuleMisses == /\ dpc = "rule" /\ dpc' = "flush" /\ intact' = FALSE /\ UNCHANGED sighted
                  /\ UNCHANGED <<daemon, di, nft, rules, floor, live, env>>

DownRule == /\ dpc = "rule" /\ dpc' = "flush"
            /\ rules' = rules \ {Config[di]} /\ intact' = FALSE /\ UNCHANGED sighted
            /\ UNCHANGED <<daemon, di, nft, floor, live, env>>

\* Mutants of DownFlush: the live default stays; the last gateway is skipped.
DownFlushFloor == /\ dpc = "flush" /\ floor' = floor \ {Config[di][2]} /\ intact' = FALSE /\ UNCHANGED sighted
                  /\ IF di < Len(Config) THEN dpc' = "rule" /\ di' = di + 1
                     ELSE dpc' = "done" /\ di' = 0
                  /\ UNCHANGED <<daemon, nft, rules, live, env>>
DownFlushButLast == /\ dpc = "flush"
                    /\ floor' = floor \ {Config[di][2]}
                    /\ live' = [live EXCEPT ![Config[di][2]] = NoRoute]
                    /\ intact' = FALSE /\ UNCHANGED sighted
                    /\ IF di + 1 < Len(Config) THEN dpc' = "rule" /\ di' = di + 1
                       ELSE dpc' = "done" /\ di' = 0
                    /\ UNCHANGED <<daemon, nft, rules, env>>

\* `ip route flush table T proto 194`: both of degc's defaults, never a
\* route of another tool.
DownFlush == /\ dpc = "flush"
             /\ floor' = floor \ {Config[di][2]}
             /\ live' = [live EXCEPT ![Config[di][2]] = NoRoute]
             /\ intact' = FALSE /\ UNCHANGED sighted
             /\ IF di < Len(Config) THEN dpc' = "rule" /\ di' = di + 1
                ELSE dpc' = "done" /\ di' = 0
             /\ UNCHANGED <<daemon, nft, rules, env>>

\* nft or ip cannot be run, or the operator interrupts it.
DownAborts == /\ dpc \in {"nft", "rule", "flush"}
              /\ dpc' = "off" /\ di' = 0
              /\ UNCHANGED <<daemon, kernel, env, history>>

DownExit == dpc = "done" /\ dpc' = "off" /\ UNCHANGED <<di, daemon, kernel, env, history>>

----------------------------------------------------------------------------
(* The host and the containers.                                            *)

\* A link or bridge goes away and the kernel drops the routes through it.
EgressDown(e) == /\ e \in up /\ up' = up \ {e}
                 /\ live' = [t \in Table |-> IF live[t] = e THEN NoRoute ELSE live[t]]
                 /\ UNCHANGED <<daemon, down, nft, rules, floor, alien, history>>

EgressUp(e) == /\ e \in Egress \ up /\ up' = up \cup {e}
               /\ UNCHANGED <<daemon, down, kernel, alien, history>>

\* Another tool puts a route of its own (not a metric-1 default) in a table.
ForeignRoute(t) == /\ t \notin alien /\ Cardinality(alien) < MaxAlien
                   /\ alien' = alien \cup {t}
                   /\ UNCHANGED <<daemon, down, kernel, up, history>>

\* Nothing degc programmed survives a reboot; other tools set up theirs.
Reboot == /\ pc' = "off" /\ plan' = << >> /\ gi' = 0 /\ started' = FALSE
          /\ dpc' = "off" /\ di' = 0
          /\ nft' = << >> /\ rules' = ForeignMarks \X {ForeignTable}
          /\ floor' = {} /\ live' = [t \in Table |-> NoRoute]
          /\ intact' = FALSE /\ sighted' = FALSE
          /\ UNCHANGED env

----------------------------------------------------------------------------
Init == /\ pc = "off" /\ started = FALSE /\ plan = << >> /\ gi = 0
        /\ dpc = "off" /\ di = 0
        /\ nft = << >> /\ rules = ForeignMarks \X {ForeignTable}
        /\ floor = {} /\ live = [t \in Table |-> NoRoute]
        /\ alien = {} /\ up = Egress
        /\ intact = FALSE /\ sighted = FALSE

Reconcile == \/ \E p \in World : List(p)
             \/ ListFails \/ Preflight \/ NftApply \/ NftRejected
             \/ ReplaceBlackhole \/ AddRule \/ AddRuleRefused \/ SetDefault \/ IpFails
Daemon == Start \/ Wake \/ Reconcile \/ Shutdown \/ Crash
DownStep == DownNft \/ DownRule \/ DownFlush \/ DownAborts \/ DownExit
Down   == DownStart \/ DownStep
Host   == \/ \E e \in Egress : EgressDown(e) \/ EgressUp(e)
          \/ \E t \in Table : ForeignRoute(t)
          \/ Reboot

Next == Daemon \/ Down \/ Host
Spec == Init /\ [][Next]_vars

\* The container restart policy, the resync ticker, and commands that end,
\* with or without success: neither a reconcile nor a `down` hangs for good.
Fairness == /\ WF_vars(Start) /\ WF_vars(Wake) /\ WF_vars(Reconcile)
            /\ WF_vars(DownStep)
LiveSpec == Spec /\ Fairness

----------------------------------------------------------------------------
Plans == {<< >>} \cup World

TypeOK ==
  /\ pc \in {"off", "list", "preflight", "idle"} \cup Checked \cup Programming
  /\ started \in BOOLEAN /\ intact \in BOOLEAN /\ sighted \in BOOLEAN
  /\ plan \in Plans /\ nft \in Plans
  /\ gi \in Nat /\ (pc \in Programming => gi \in DOMAIN plan)
  /\ dpc \in {"off", "nft", "rule", "flush", "done"}
  /\ di \in Nat /\ (dpc \in {"rule", "flush"} => di \in DOMAIN Config)
  /\ rules \subseteq Mark \X (Table \cup {ForeignTable})
  /\ floor \subseteq Table /\ alien \subseteq Table /\ up \subseteq Egress
  /\ live \in [Table -> Egress \cup {NoRoute}]

----------------------------------------------------------------------------
\* nft's plan was programmed to the last ip command, none of them refused, and
\* nothing but the host's own changes has touched the result since.
Synced == intact /\ pc \notin Programming

\* What can take a packet of gateway g elsewhere: a foreign route that another
\* tool put in the gateway's own table, or a second rule for its mark which
\* preflight let pass because `ip rule show` had failed.
Strays(g) == Lookups(g.mark) \ {g.table}
Diverted(g, out) == \/ out = Alien /\ g.table \in alien
                    \/ ~sighted /\ \E t \in Strays(g) : out \in Exits(t)

\* Once a reconcile has programmed a plan, every packet of a member leaves
\* through the egress of the gateway the plan gave it to or is dropped, or is
\* diverted by another tool's route or by a rule that preflight missed -
\* whatever egress flaps, daemon crashes, failed reconciles and earlier plans
\* the host has seen: no fall-through to main, no route left by another
\* gateway that used the table.
NoLeak ==
  Synced => \A a \in Addr : \A i \in Last(a) :
    \A out \in Fate(a) : out \in {Dropped, nft[i].egress} \/ Diverted(nft[i], out)

\* A mark that the nft table sets is looked up in its own gateway's table or
\* not at all, at any time until the next nft transaction, also halfway through
\* a reconcile or a `down`: this is what preflight and check_unique_routing are
\* for, when preflight is shown the rules.  What earlier reconciles left, those
\* that went on blindly included, does not matter.
MarkOwned ==
  sighted => \A i \in DOMAIN nft : Lookups(nft[i].mark) \subseteq {nft[i].table}

\* The blackhole is there before the fwmark rule and outlives it, so marked
\* packets never find their table empty: at every point of a reconcile, after
\* a crash between any two commands, and while `degc down` takes it apart.
RuleHasFloor ==
  ~Overlap => \A r \in rules : r[2] \in Table => r[2] \in floor

\* When `degc down` reaches its end nothing marks packets any more and no
\* gateway of gateways.yaml keeps a rule, a blackhole or a live default,
\* even when an earlier reconcile or an earlier `down` stopped halfway.
DownRestores ==
  (~Overlap /\ dpc = "done") =>
    /\ nft = << >>
    /\ \A d \in DOMAIN Config : /\ Config[d] \notin rules
                               /\ Config[d][2] \notin floor
                               /\ live[Config[d][2]] = NoRoute

\* What degc promises, see FailClosed: a mark loses its rule or its blackhole
\* only while no packet is marked, and is not taken while it leads elsewhere.
Published == {<<nft[i].mark, nft[i].table>> : i \in DOMAIN nft}
Covered   == {r \in rules : r[2] \in Table /\ r[2] \in floor}
FC == INSTANCE FailClosed WITH published <- Published, covered <- Covered
Abstract == FC!Spec

----------------------------------------------------------------------------
(* Liveness: what the periodic full reconcile recovers from.               *)

\* Something other than a successful reconcile of p: a refused command, the
\* daemon stopping, an operator or another tool, a lost link.
Faults(p) == \/ \E q \in World \ {p} : List(q)
             \/ ListFails \/ NftRejected \/ AddRuleRefused \/ (IpFails /\ ~SetDefault)
             \/ Shutdown \/ Crash \/ Reboot
             \/ DownStart
             \/ \E e \in Egress : EgressDown(e)

\* From some time on the containers compile to p and nothing else goes wrong.
Calm(p) == <>[][~Faults(p)]_vars /\ <>[]~Clash(p)

\* Every member's packets leave through its gateway, or are dropped when the
\* gateway has no egress or the packets are IPv6.
Follows(p) ==
  /\ nft = p
  /\ \A a \in Addr : \A i \in Last(a) :
       Fate(a) = {IF a \in Addr6 \/ p[i].egress = Unavailable
                  THEN Dropped ELSE p[i].egress}

\* However the host was left - halfway through a reconcile or a `down`, with
\* live defaults lost to a flap or stale ones of another plan, after a reboot
\* - the resync alone brings it to the plan once the egresses are up and the
\* faults stop, and it then stays there through every further reconcile.
Converges ==
  \A p \in World :
    (UniqueRouting(p) /\ Calm(p) /\ <>[](up = Egress)) => <>[]Follows(p)

\* docs/architecture.md:44-47 of a container egress: "re-resolves the gateway
\* container's current address on every reconcile (...) so a recreate just
\* updates the route", whatever the other gateways' egresses do.
RouteFollowsContainer ==
  \A p \in World : \A i \in DOMAIN p :
    (/\ UniqueRouting(p) /\ Calm(p) /\ p[i].egress \in NextHop
     /\ <>[](p[i].egress \in up)) => <>[](live[p[i].table] = p[i].egress)

----------------------------------------------------------------------------
(* What the documentation says and the code does not do.                   *)

\* docs/architecture.md:153-155: "the inet degc table (mark + kill-switch) and
\* the routing table (with the blackhole) are installed before membership is
\* populated. Failed initial apply -> exit non-zero, never half-open".  When a
\* startup reconcile ends on an ip command, and no `rule add` was refused before,
\* no member may be left marked with its packets falling through to main.
NeverHalfOpen ==
  [][(pc = "live" /\ intact /\ SetDefault /\ pc' = "off")
       => \A a \in Addr : Entries(a)' # {} => Wan \notin Fate(a)']_vars

\* src/enforce/route.rs:213-214: "Our own rule (same mark -> same table) is not
\* a conflict, so this stays quiet across reconciles", and :4-6 "every
\* reconcile converges": preflight refuses nothing that only degc wrote.
OwnStateNeverClashes ==
  (pc = "preflight" /\ alien = {}) =>
    (Clash(plan) => \E i \in DOMAIN plan : plan[i].mark \in ForeignMarks)
=============================================================================
