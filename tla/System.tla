------------------------------- MODULE System -------------------------------
(***************************************************************************)
(* From the labels of a container to the fate of its packets: the          *)
(* containers of Containers start and stop while the daemon of Enforce     *)
(* lists them, compiles what it listed and programs the host, one command  *)
(* at a time.  The plan is of the listing, not of what runs by then.       *)
(***************************************************************************)
EXTENDS Enforce

CONSTANTS
  None, Bad, Name, GatewayName, Tag, AutoMark, AutoTable, Net4, Net6, DefaultLocals,
  Declared, Leases, MaxRunning,   \* as in Containers
  File,                           \* the gateways of gateways.yaml
  Partial                         \* as in Watch

VARIABLES
  targets, known,   \* as in Containers
  listing,          \* daemon: what it is applying the plan of, as listed in Watch
  programmed,       \* history: the listing whose plan the nft table was made from
  applied,          \* history: the listing of the last reconcile that ended well
  missed            \* history: as in Watch

C == INSTANCE Containers WITH Config <- File

\* The lists of containers that Docker may return.
Instances == UNION {{C!Leased(c, as) : as \in Leases[c.name]} : c \in Declared}
Listings  == {ts \in C!BoundedSeq(Instances, MaxRunning) :
               \A i, j \in DOMAIN ts : i # j =>
                 /\ ts[i].name # ts[j].name
                 /\ C!ToSet(ts[i].addrs) \cap C!ToSet(ts[j].addrs) = {}}

ASSUME SystemAssumption ==
  /\ C!GatewaysAssumption /\ C!PlanAssumption /\ C!ContainersAssumption
  /\ \A ts \in Listings : C!Compile(File, ts) \in World
  /\ Config = [i \in DOMAIN File |-> <<C!MarkValue(File[i]), C!TableId(File[i])>>]
  /\ Partial \notin Listings
  /\ MaxRunning \in Nat
  /\ \A c \in Declared : "name" \in DOMAIN c

docker == <<targets, known>>
ghosts == <<programmed, applied, missed>>
system == <<vars, docker, listing, ghosts>>

----------------------------------------------------------------------------
\* Containers come and go between any two steps of the daemon.
DockerStep == C!Next /\ missed' = TRUE /\ UNCHANGED <<vars, listing, programmed, applied>>

\* How a reconcile ends: a failure after the first write leaves the host
\* halfway.
Ends(step) ==
  /\ step
  /\ applied' = IF pc \in Programming /\ pc' \in {"off", "idle"} THEN Partial ELSE applied
  /\ missed'  = (missed \/ (started /\ pc # "idle" /\ pc' = "idle"))
  /\ listing' = IF pc' \in {"off", "idle"} THEN Partial ELSE listing
  /\ UNCHANGED <<docker, programmed>>

SystemList ==
  \E p \in World :
    /\ p = C!Compiled /\ List(p)
    /\ listing' = IF pc' = "preflight" THEN targets ELSE Partial
    /\ missed' = (pc' = "idle" \/ (missed /\ pc' = "off"))
    /\ UNCHANGED <<docker, programmed, applied>>

SystemNft == /\ NftApply
             /\ programmed' = listing
             /\ IF plan = << >> THEN applied' = listing /\ listing' = Partial
                ELSE UNCHANGED <<applied, listing>>
             /\ UNCHANGED <<docker, missed>>

\* The last command of a reconcile that succeeds.
LastCommand == pc = "live" /\ gi = Len(plan) /\ plan[gi].egress \in up \cup {Unavailable}
SystemDone  == /\ LastCommand /\ SetDefault
               /\ applied' = listing /\ listing' = Partial
               /\ UNCHANGED <<docker, programmed, missed>>

SystemEnforce ==
  \/ Ends(\/ ListFails \/ Preflight \/ NftRejected \/ ReplaceBlackhole
          \/ AddRule \/ AddRuleRefused \/ (~LastCommand /\ SetDefault)
          \/ IpFails \/ Crash \/ Reboot)
  \/ /\ \/ Start \/ Wake \/ Shutdown \/ Down
        \/ \E e \in Egress : EgressDown(e) \/ EgressUp(e)
        \/ \E t \in Table : ForeignRoute(t)
     /\ UNCHANGED <<docker, listing, ghosts>>

SystemInit == /\ Init /\ C!Init
              /\ listing = Partial /\ programmed = << >> /\ applied = Partial /\ missed = FALSE

SystemNext == DockerStep \/ SystemList \/ SystemNft \/ SystemDone \/ SystemEnforce

SystemSpec == SystemInit /\ [][SystemNext]_system

LiveSystemSpec == SystemSpec /\ Fairness

----------------------------------------------------------------------------
Running == C!ToSet(targets)

\* The containers that the egress of gateway n names, and the places packets of
\* a container that asks for n may reach the internet by: those containers'
\* addresses, or the interface or router of the gateway.
Carriers(gs, n, ts) ==
  {t \in C!ToSet(ts) : \E g \in C!ToSet(gs) :
     g.name = n /\ g.egress.container \in {t.name, t.service} \ {None}}
Ways(gs, n, ts) ==
  (UNION {{g.egress.interface, g.egress.nextHop} \ {None} :
            g \in {g \in C!ToSet(gs) : g.name = n}})
    \cup UNION {C!ToSet(t.addrs) : t \in Carriers(gs, n, ts)}

Asks(t)       == C!OptsIn(t) /\ C!Declares(t) = None /\ t.via # None
AsksNothing(t) == ~C!OptsIn(t) /\ C!Declares(t) = None /\ t.tags = {}

\* A container that names its gateway reaches the internet through that gateway
\* alone or not at all, and one that asks for nothing is left alone, as long
\* as it runs with the addresses it was listed with and so do the containers of
\* its gateway - whichever others have come, gone and changed addresses since,
\* whatever reconciles failed or were cut short, and however the links flapped.
\* When a container of the gateway has gone, its address may be another's: see
\* EventuallyAsAsked.
AsAsked ==
  Synced =>
    LET gs == C!Merge(File, programmed)
    IN  \A t \in C!ToSet(programmed) \cap Running : \A a \in C!ToSet(t.addrs) \cap Addr4 :
          /\ (/\ Asks(t) /\ t.via \in C!Names(gs)
              /\ Carriers(gs, t.via, programmed) \subseteq Running) =>
               \A out \in Fate(a) :
                 \/ out \in {Dropped} \cup Ways(gs, t.via, targets)
                 \/ \E i \in DOMAIN gs : gs[i].name = t.via /\ Diverted(nft[i], out)
          /\ AsksNothing(t) => Fate(a) = {Wan}

\* The same of what the plan assigns, by label or by selector, and whatever
\* the gateway is: the packets of a container that was listed follow the
\* egress resolved for its gateway, and one that no gateway got as a member
\* keeps the host's own route.
AsPlanned ==
  Synced =>
    LET gs == C!Merge(File, programmed)
    IN  \A t \in C!ToSet(programmed) : \A a \in C!ToSet(t.addrs) \cap Addr4 :
          LET mine == {i \in DOMAIN gs : gs[i].name = C!Assignment(gs, t)}
          IN  IF mine = {} THEN Fate(a) = {Wan}
              ELSE \A out \in Fate(a) : out = Dropped \/ \E i \in mine :
                     out = C!ResolveEgress(gs[i], programmed) \/ Diverted(nft[i], out)

\* An address that went to another container is routed for its old owner only
\* until the next reconcile: once the containers and the links stay as they
\* are and reconciles succeed, whoever runs goes through its gateway as that
\* is addressed now, or nowhere while it is down.
SystemFaults ==
  \/ targets' # targets \/ Reboot \/ DownStart
  \/ pc # "off" /\ pc' = "off"
  \/ pc # "idle" /\ pc' = "idle" /\ ~SystemNft /\ ~SystemDone
  \/ AddRuleRefused

EventuallyAsAsked ==
  (<>[][~SystemFaults]_system /\ <>[](up = Egress)) =>
    <>[](LET gs == C!Merged
         IN  \A t \in Running : \A a \in C!ToSet(t.addrs) \cap Addr4 :
               /\ Asks(t) /\ t.via \in C!Names(gs) =>
                    LET ways == Ways(gs, t.via, targets) \ Addr6
                    IN  IF ways = {} THEN Fate(a) = {Dropped} ELSE Fate(a) \subseteq ways
               /\ AsksNothing(t) => Fate(a) = {Wan})

\* The loop of Watch takes a reconcile for one step, which succeeds, fails with
\* nothing written or fails halfway.  Command by command, with containers
\* changing in between, it is no more than that.
LoopState == CASE pc \in {"preflight"} \cup Checked \cup Programming -> "apply"
               [] OTHER -> pc
W == INSTANCE Watch WITH
       Snapshot <- Listings, MaxFlight <- 0, containers <- targets, pc <- LoopState,
       listed <- listing, stream <- IF started THEN "connecting" ELSE "none",
       flight <- 0, token <- FALSE, term <- FALSE
Loop == W!Spec
=============================================================================
