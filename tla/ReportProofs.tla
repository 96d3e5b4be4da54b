---------------------------- MODULE ReportProofs ----------------------------
(* Theorems about Report: what the log and the gauges say of the host,     *)
(* for every set of listings.                                              *)
EXTENDS Report, WatchProofs, PlanProofs

LEMMA ReportsLeave == Reports => UNCHANGED vars
  BY DEF Reports, Announce, SetMembers, SetGateways, ClearSeries, CreateSeries, SetAvailable,
         Recorded

LEMMA StepsOfWatch == [ReportNext]_<<vars, report>> => [Next]_vars
<1> SUFFICES ASSUME [ReportNext]_<<vars, report>> PROVE [Next]_vars
  OBVIOUS
<1>1. CASE UNCHANGED <<vars, report>>
  BY <1>1
<1>2. CASE Reports
  BY <1>2, ReportsLeave
<1>3. CASE Programs \/ ListingFails \/ ReconcileFails
  BY <1>3 DEF Programs, ListingFails, ReconcileFails, Next, Daemon, Work
<1>4. CASE Ends \/ Silent
  BY <1>4 DEF Ends, Silent, Next, Daemon, Work
<1> QED BY <1>1, <1>2, <1>3, <1>4 DEF ReportNext

\* What is logged and counted adds no behaviour to the loop of Watch.
THEOREM ReportIsWatch == ReportSpec => Spec
<1>1. ReportInit => Init
  BY DEF ReportInit
<1> QED BY <1>1, StepsOfWatch, PTL DEF ReportSpec, Spec

----------------------------------------------------------------------------
\* The summary that is remembered is the one that was announced, so that a
\* reconcile that finds it unchanged need not announce it again.
Told == last_fp = line /\ LogTells /\ UnresolvedWarned

LEMMA ToldInit == ReportInit => Told
  BY DEF ReportInit, Init, Told, LogTells, UnresolvedWarned, Programmed

\* A step that neither programs the host nor logs, nor starts a process.
LEMMA ToldKept ==
  ASSUME Told, last_fp' = last_fp, line' = line, warned \subseteq warned',
         started' => started, applied' = applied \/ applied' = Partial,
         at = "announce" => at' = "announce"
  PROVE  Told'
<1> USE DEF Told, LogTells, UnresolvedWarned, Programmed
<1>1. CASE applied' = applied
  BY <1>1
<1>2. CASE applied' = Partial
  BY <1>2
<1> QED BY <1>1, <1>2

LEMMA ToldForgotten == Forget /\ ~started' => Told'
  BY DEF Forget, Told, LogTells, UnresolvedWarned, Programmed

LEMMA SilentLeaves ==
  ASSUME Silent PROVE UNCHANGED <<applied, started, report>>
<1>1. CASE Docker
  BY <1>1 DEF Silent, Docker, Change, QuietChange, loop
<1>2. CASE Watcher
  BY <1>2 DEF Silent, Watcher, Subscribe, Deliver, StreamError, WatcherDies, LoseStream,
              Resubscribe, loop
<1>3. CASE Start \/ Tick \/ Wake \/ DebounceEnds
  BY <1>3 DEF Silent, Start, Tick, Wake, DebounceEnds, Begin
<1>4. CASE Drain \/ Rewatch \/ Terminate \/ List
  BY <1>4 DEF Silent, Drain, Rewatch, Terminate, List, loop
<1> QED BY <1>1, <1>2, <1>3, <1>4 DEF Silent

LEMMA ToldStep == TypeOK /\ Told /\ [ReportNext]_<<vars, report>> => Told'
<1> SUFFICES ASSUME TypeOK, Told, [ReportNext]_<<vars, report>> PROVE Told'
  OBVIOUS
<1>1. CASE UNCHANGED <<vars, report>>
  BY <1>1, ToldKept DEF vars, loop, report, log
<1>2. CASE Programs
  <2>1. applied' = listed /\ at' = "announce" /\ UNCHANGED <<last_fp, line>>
    BY <1>2 DEF Programs, Apply
  <2>2. UnresolvedWarnings[listed] \subseteq warned'
    BY <1>2 DEF Programs
  <2> QED BY <2>1, <2>2 DEF Told, LogTells, UnresolvedWarned
<1>3. CASE Announce
  <2>1. UNCHANGED <<applied, started>>
    BY <1>3 DEF Announce, vars, loop
  <2>2. last_fp' = line' /\ line' = Summary[applied] /\ warned \subseteq warned'
    BY <1>3 DEF Announce, Told, log
  <2> QED BY <2>1, <2>2 DEF Told, LogTells, UnresolvedWarned, Programmed
<1>4. CASE SetMembers \/ SetGateways \/ ClearSeries \/ CreateSeries \/ SetAvailable \/ Recorded
  <2>1. UNCHANGED vars /\ UNCHANGED <<last_fp, line, warned>> /\ at # "announce"
    BY <1>4 DEF SetMembers, SetGateways, ClearSeries, CreateSeries, SetAvailable, Recorded, log
  <2>2. UNCHANGED <<applied, started>>
    BY <2>1 DEF vars, loop
  <2> QED BY <2>1, <2>2, ToldKept
<1>5. CASE ListingFails
  <2>1. CASE started
    BY <1>5, <2>1, ToldKept DEF ListingFails, ListFails, report, log
  <2>2. CASE ~started
    BY <1>5, <2>2, ToldForgotten DEF ListingFails, ListFails, Fail, Exit
  <2> QED BY <2>1, <2>2
<1>6. CASE ReconcileFails
  <2>1. CASE started
    BY <1>6, <2>1, ToldKept DEF ReconcileFails, ApplyFails
  <2>2. CASE ~started
    BY <1>6, <2>2, ToldForgotten DEF ReconcileFails, ApplyFails, Fail, Exit
  <2> QED BY <2>1, <2>2
<1>7. CASE Ends
  BY <1>7, ToldForgotten DEF Ends, Crash, Shutdown, Exit
<1>8. CASE Silent
  <2>1. UNCHANGED <<last_fp, line, warned, at, applied, started>>
    BY <1>8, SilentLeaves DEF report, log
  <2> QED BY <2>1, ToldKept
<1> QED BY <1>1, <1>2, <1>3, <1>4, <1>5, <1>6, <1>7, <1>8 DEF ReportNext, Reports

\* The last INFO line describes the plan the host is programmed for, although
\* unchanged summaries are not logged and any number of reconciles may fail;
\* only between the last command and the line itself does it not.
THEOREM LogTrue == ReportSpec => []LogTells
<1>1. Told => LogTells
  BY DEF Told
<1> QED BY <1>1, ReportIsWatch, WatchTyped, ToldInit, ToldStep, PTL DEF ReportSpec

\* Whoever opted into a gateway that is not there has been warned of, although
\* the summary only counts them.
THEOREM WarningsComplete == ReportSpec => []UnresolvedWarned
<1>1. Told => UnresolvedWarned
  BY DEF Told
<1> QED BY <1>1, ReportIsWatch, WatchTyped, ToldInit, ToldStep, PTL DEF ReportSpec

----------------------------------------------------------------------------
(* The gauges: record sets the two sizes, clears the series of the         *)
(* gateways and creates and sets them again, one by one, while the server  *)
(* may be asked for them.                                                  *)

LEMMA SeriesProperties ==
  ASSUME NEW ts \in Snapshot, NEW s, s = Stats[ts].gateways
  PROVE  /\ s \in Seq(ToSet(s)) /\ Len(s) \in Nat /\ DOMAIN s = 1 .. Len(s)
         /\ \A i, j \in 1 .. Len(s) : i # j => s[i][1] # s[j][1]
         /\ \A i \in 1 .. Len(s) : s[i] = <<s[i][1], s[i][2]>> /\ s[i][2] \in BOOLEAN
<1> DEFINE gs == Merge(Config, ts)
           G  == ToSet(Config) \cup {DiscoveredGateway(ts[k]) : k \in DOMAIN ts}
<1>1. /\ Len(ts) \in Nat /\ DOMAIN ts = 1 .. Len(ts)
      /\ Len(Config) \in Nat /\ DOMAIN Config = 1 .. Len(Config)
      /\ DistinctNames(Config)
  BY ReportAssumption, LenProperties DEF ValidDocument, DistinctNames
<1>2. Config \in Seq(G)
  <2>1. \A i \in 1 .. Len(Config) : Config[i] \in G
    BY <1>1 DEF ToSet
  <2>2. Config \in [1 .. Len(Config) -> G]
    BY <1>1, <2>1, ReportAssumption, LenProperties
  <2> QED BY <1>1, <2>2, SeqDef
<1>3. \A k \in 1 .. Len(ts) : DiscoveredGateway(ts[k]) \in G
  BY <1>1
<1> HIDE DEF G
<1>4. gs \in Seq(G) /\ MergedTo(Config, ts, Len(ts), gs)
  BY <1>1, <1>2, <1>3, MergeProperties
<1>5. Len(gs) \in Nat /\ DOMAIN gs = 1 .. Len(gs) /\ DistinctNames(gs)
  BY <1>4, LenProperties DEF MergedTo
<1> DEFINE plan == Compile(Config, ts)
<1>6. DOMAIN plan = DOMAIN gs
  BY DEF Compile
<1>7. s = [i \in DOMAIN plan |-> <<gs[i].name, plan[i].egress # Unavailable>>]
  BY DEF Stats
<1> HIDE DEF gs, plan
<1>8. s = [i \in 1 .. Len(gs) |-> <<gs[i].name, plan[i].egress # Unavailable>>]
  BY <1>5, <1>6, <1>7
<1>9. s \in [1 .. Len(gs) -> ToSet(s)]
  BY <1>8 DEF ToSet
<1>10. s \in Seq(ToSet(s)) /\ Len(s) = Len(gs)
  BY <1>5, <1>9, SeqDef, LenProperties
<1>11. \A i \in 1 .. Len(s) : s[i][1] = gs[i].name
  BY <1>8, <1>10
<1>12. ASSUME NEW i \in 1 .. Len(s)
       PROVE  s[i] = <<s[i][1], s[i][2]>> /\ s[i][2] \in BOOLEAN
  <2>1. s[i] = <<gs[i].name, plan[i].egress # Unavailable>>
    BY <1>8, <1>10
  <2> QED BY <2>1
<1> QED BY <1>5, <1>8, <1>10, <1>11, <1>12 DEF DistinctNames

\* record has created and set the first p gateways of the series, and may have
\* created the next one.
SetUpTo(s, p) ==
  /\ p \in 0 .. Len(s)
  /\ pending \in Seq(ToSet(s)) /\ Len(pending) = Len(s) - p
  /\ \A i \in 1 .. Len(s) - p : pending[i] = s[p + i]
  /\ \/ DOMAIN available = {s[i][1] : i \in 1 .. p}
     \/ /\ p + 1 \in 1 .. Len(s)
        /\ DOMAIN available = {s[i][1] : i \in 1 .. p + 1}
        /\ available[s[p + 1][1]] = FALSE
  /\ \A i \in 1 .. p : available[s[i][1]] = s[i][2]

\* Where in record each gauge turns from the listing recorded before to the
\* one that the host is programmed for.
Gauged ==
  /\ recorded \in Snapshot \cup {Nothing}
  /\ at # "rest" => pc = "idle" /\ started /\ applied \in Snapshot
  /\ at = "rest" /\ Programmed => recorded = applied
  /\ members = IF at \in {"gateways", "clear", "series"} THEN Due(applied).members
               ELSE Due(recorded).members
  /\ gateways = IF at \in {"clear", "series"} THEN Len(Due(applied).gateways)
                ELSE Len(Due(recorded).gateways)
  /\ at # "series" => Shown = Series(recorded)
  /\ at = "series" => \E p \in Nat : SetUpTo(Due(applied).gateways, p)

LEMMA NoneDue == /\ Due(Nothing).members = 0 /\ Len(Due(Nothing).gateways) = 0
                 /\ {<<n, NoSeries[n]>> : n \in DOMAIN NoSeries} = Series(Nothing)
<1>1. Due(Nothing) = [members |-> 0, gateways |-> << >>]
  BY DEF Due
<1>2. DOMAIN NoSeries = {}
  BY DEF NoSeries
<1>3. DOMAIN Due(Nothing).gateways = {}
  BY <1>1
<1>4. Series(Nothing) = {}
  BY <1>3 DEF Series
<1> QED BY <1>1, <1>2, <1>4, EmptySeq

LEMMA GaugedForgotten == Forget /\ ~started' => Gauged'
<1> SUFFICES ASSUME Forget, ~started' PROVE Gauged'
  OBVIOUS
<1>1. /\ at' = "rest" /\ recorded' = Nothing /\ members' = 0 /\ gateways' = 0
      /\ available' = NoSeries
  BY DEF Forget
<1>2. Shown' = Series(Nothing)
  BY <1>1, NoneDue DEF Shown
<1> QED BY <1>1, <1>2, NoneDue DEF Gauged, Programmed

LEMMA GaugedInit == ReportInit => Gauged
<1> SUFFICES ASSUME ReportInit PROVE Gauged
  OBVIOUS
<1>1. /\ at = "rest" /\ recorded = Nothing /\ members = 0 /\ gateways = 0
      /\ available = NoSeries /\ ~started
  BY DEF ReportInit, Init
<1>2. Shown = Series(Nothing)
  BY <1>1, NoneDue DEF Shown
<1> QED BY <1>1, <1>2, NoneDue DEF Gauged, Programmed

\* A step that leaves the gauges alone: any between two reconciles that does
\* not program the host, and any that leaves the loop where it is.
LEMMA GaugedKept ==
  ASSUME Gauged, UNCHANGED <<at, members, gateways, available, pending, recorded>>,
         \/ at = "rest" /\ (Programmed' => Programmed /\ applied' = applied)
         \/ UNCHANGED <<pc, started, applied>>
  PROVE  Gauged'
<1>1. Shown' = Shown
  BY DEF Shown
<1>2. CASE at = "rest" /\ (Programmed' => Programmed /\ applied' = applied)
  BY <1>1, <1>2 DEF Gauged
<1>3. CASE UNCHANGED <<pc, started, applied>>
  <2>1. Programmed' = Programmed
    BY <1>3 DEF Programmed
  <2>2. at = "series" => \E p \in Nat : SetUpTo(Due(applied).gateways, p)'
    <3> SUFFICES ASSUME at = "series"
                 PROVE  \E p \in Nat : SetUpTo(Due(applied).gateways, p)'
      OBVIOUS
    <3>1. PICK p \in Nat : SetUpTo(Due(applied).gateways, p)
      BY DEF Gauged
    <3>2. SetUpTo(Due(applied).gateways, p)'
      BY <1>3, <3>1 DEF SetUpTo
    <3> QED BY <3>2
  <2>3. (Due(applied))' = Due(applied)
    BY <1>3
  <2> QED BY <1>1, <1>3, <2>1, <2>2, <2>3 DEF Gauged
<1> QED BY <1>2, <1>3

LEMMA SeriesDue ==
  ASSUME NEW ts \in Snapshot, NEW s, s = Due(ts).gateways
  PROVE  /\ s \in Seq(ToSet(s)) /\ Len(s) \in Nat /\ DOMAIN s = 1 .. Len(s)
         /\ \A i, j \in 1 .. Len(s) : i # j => s[i][1] # s[j][1]
         /\ \A i \in 1 .. Len(s) : s[i] = <<s[i][1], s[i][2]>> /\ s[i][2] \in BOOLEAN
<1>1. s = Stats[ts].gateways
  BY ReportAssumption DEF Due
<1> QED BY <1>1, SeriesProperties

LEMMA SeriesCleared ==
  ASSUME Gauged, ClearSeries PROVE SetUpTo(Due(applied).gateways, 0)'
<1> DEFINE s == Due(applied).gateways
<1>1. applied \in Snapshot /\ applied' = applied
  BY DEF Gauged, ClearSeries, vars, loop
<1>2. s = Due(applied).gateways
  OBVIOUS
<1>3. available' = NoSeries /\ pending' = s
  BY <1>1, ReportAssumption DEF ClearSeries, Due
<1>4. s' = s
  BY <1>1
<1> HIDE DEF s
<1>5. s \in Seq(ToSet(s)) /\ Len(s) \in Nat
  BY <1>1, <1>2, SeriesDue
<1>6. DOMAIN available' = {}
  BY <1>3 DEF NoSeries
<1>7. \A i \in 1 .. Len(s) - 0 : i \in 1 .. Len(s) /\ s[i] = s[0 + i]
  BY <1>5
<1>8. SetUpTo(s, 0)'
  BY <1>3, <1>4, <1>5, <1>6, <1>7 DEF SetUpTo
<1> QED BY <1>8 DEF s

\* What creating and setting the next series have in common.
LEMMA SeriesNext ==
  ASSUME NEW s, NEW p \in Nat, SetUpTo(s, p), pending # << >>, Len(s) \in Nat
  PROVE  /\ p + 1 \in 1 .. Len(s) /\ Head(pending) = s[p + 1]
         /\ Tail(pending) \in Seq(ToSet(s)) /\ Len(Tail(pending)) = Len(s) - (p + 1)
         /\ \A i \in 1 .. Len(s) - (p + 1) : Tail(pending)[i] = s[(p + 1) + i]
<1>1. pending \in Seq(ToSet(s)) /\ p \in 0 .. Len(s) /\ Len(pending) = Len(s) - p
  BY DEF SetUpTo
<1>2. Len(pending) \in Nat /\ Len(pending) # 0
  BY <1>1, EmptySeq, LenProperties
<1>3. p + 1 \in 1 .. Len(s)
  BY <1>1, <1>2
<1>4. Head(pending) = s[p + 1]
  <2>1. 1 \in 1 .. Len(s) - p
    BY <1>1, <1>2
  <2>2. Head(pending) = pending[1] 
    BY <1>1, HeadTailProperties
  <2> QED BY <2>1, <2>2 DEF SetUpTo
<1>5. /\ Tail(pending) \in Seq(ToSet(s)) /\ Len(Tail(pending)) = Len(pending) - 1
      /\ \A i \in 1 .. Len(pending) - 1 : Tail(pending)[i] = pending[i + 1]
  BY <1>1, HeadTailProperties
<1>6. \A i \in 1 .. Len(s) - (p + 1) : pending[i + 1] = s[(p + 1) + i]
  <2> TAKE i \in 1 .. Len(s) - (p + 1)
  <2>1. i + 1 \in 1 .. Len(s) - p /\ p + (i + 1) = (p + 1) + i
    BY <1>3
  <2> QED BY <2>1 DEF SetUpTo
<1>7. Len(pending) - 1 = Len(s) - (p + 1)
  BY <1>1
<1> QED BY <1>3, <1>4, <1>5, <1>6, <1>7

LEMMA SeriesCreated ==
  ASSUME Gauged, CreateSeries
  PROVE  \E p \in Nat : SetUpTo(Due(applied).gateways, p)'
<1> DEFINE s == Due(applied).gateways
<1>1. applied \in Snapshot /\ applied' = applied /\ pending' = pending
  BY DEF Gauged, CreateSeries, vars, loop
<1>2. PICK p \in Nat : SetUpTo(s, p)
  BY DEF Gauged, CreateSeries
<1>3. s = Due(applied).gateways
  OBVIOUS
<1>4. s' = s
  BY <1>1
<1> HIDE DEF s
<1>5. /\ Len(s) \in Nat
      /\ \A i, j \in 1 .. Len(s) : i # j => s[i][1] # s[j][1]
  BY <1>1, <1>3, SeriesDue
<1>6. p + 1 \in 1 .. Len(s) /\ Head(pending) = s[p + 1]
  BY <1>2, <1>5, SeriesNext DEF CreateSeries
<1> DEFINE m == s[p + 1][1]
<1>7. /\ m \notin DOMAIN available
      /\ available' = [k \in DOMAIN available \cup {m} |->
                         IF k = m THEN FALSE ELSE available[k]]
  BY <1>6 DEF CreateSeries
<1>8. DOMAIN available = {s[i][1] : i \in 1 .. p}
  <2>1. m \in {s[i][1] : i \in 1 .. p + 1}
    BY <1>6
  <2> QED BY <1>2, <1>7, <2>1 DEF SetUpTo
<1>9. \A i \in 1 .. p + 1 : i \in 1 .. p \/ i = p + 1
  OBVIOUS
<1>10. DOMAIN available' = {s[i][1] : i \in 1 .. p + 1} /\ available'[m] = FALSE
  BY <1>7, <1>8, <1>9
<1>11. ASSUME NEW i \in 1 .. p PROVE available'[s[i][1]] = s[i][2]
  <2>1. s[i][1] \in DOMAIN available
    BY <1>8
  <2>2. available[s[i][1]] = s[i][2]
    BY <1>2 DEF SetUpTo
  <2> QED BY <1>7, <2>1, <2>2
<1>12. SetUpTo(s, p)'
  BY <1>1, <1>2, <1>4, <1>6, <1>10, <1>11 DEF SetUpTo
<1> QED BY <1>12 DEF s

LEMMA SeriesSet ==
  ASSUME Gauged, SetAvailable
  PROVE  \E p \in Nat : SetUpTo(Due(applied).gateways, p)'
<1> DEFINE s == Due(applied).gateways
<1>1. applied \in Snapshot /\ applied' = applied
  BY DEF Gauged, SetAvailable, vars, loop
<1>2. PICK p \in Nat : SetUpTo(s, p)
  BY DEF Gauged, SetAvailable
<1>3. s = Due(applied).gateways
  OBVIOUS
<1>4. s' = s
  BY <1>1
<1> HIDE DEF s
<1>5. /\ Len(s) \in Nat
      /\ \A i, j \in 1 .. Len(s) : i # j => s[i][1] # s[j][1]
  BY <1>1, <1>3, SeriesDue
<1>6. /\ p + 1 \in 1 .. Len(s) /\ Head(pending) = s[p + 1]
      /\ Tail(pending) \in Seq(ToSet(s)) /\ Len(Tail(pending)) = Len(s) - (p + 1)
      /\ \A i \in 1 .. Len(s) - (p + 1) : Tail(pending)[i] = s[(p + 1) + i]
  BY <1>2, <1>5, SeriesNext DEF SetAvailable
<1> DEFINE m == s[p + 1][1]
<1>7. /\ m \in DOMAIN available /\ pending' = Tail(pending)
      /\ available' = [available EXCEPT ![m] = s[p + 1][2]]
  BY <1>6 DEF SetAvailable
<1>8. DOMAIN available = {s[i][1] : i \in 1 .. p + 1}
  <2>1. ~(m \in {s[i][1] : i \in 1 .. p})
    <3> SUFFICES ASSUME NEW i \in 1 .. p, m = s[i][1] PROVE FALSE
      OBVIOUS
    <3>1. i \in 1 .. Len(s) /\ i # p + 1
      BY <1>5, <1>6
    <3> QED BY <1>5, <1>6, <3>1
  <2> QED BY <1>2, <1>7, <2>1 DEF SetUpTo
<1>9. DOMAIN available' = {s[i][1] : i \in 1 .. p + 1} /\ available'[m] = s[p + 1][2]
  BY <1>7, <1>8
<1>10. ASSUME NEW i \in 1 .. p + 1 PROVE available'[s[i][1]] = s[i][2]
  <2>1. CASE i = p + 1
    BY <1>9, <2>1
  <2>2. CASE i # p + 1
    <3>1. i \in 1 .. p /\ i \in 1 .. Len(s)
      BY <1>5, <1>6, <2>2
    <3>2. s[i][1] # m
      BY <1>5, <1>6, <2>2, <3>1
    <3>3. s[i][1] \in DOMAIN available
      BY <1>8
    <3>4. available[s[i][1]] = s[i][2]
      BY <1>2, <3>1 DEF SetUpTo
    <3> QED BY <1>7, <3>2, <3>3, <3>4
  <2> QED BY <2>1, <2>2
<1>11. SetUpTo(s, p + 1)'
  <2>1. p + 1 \in 0 .. Len(s)
    BY <1>5, <1>6
  <2>2. /\ pending' \in Seq(ToSet(s)) /\ Len(pending') = Len(s) - (p + 1)
        /\ \A i \in 1 .. Len(s) - (p + 1) : pending'[i] = s[(p + 1) + i]
    BY <1>6, <1>7
  <2>3. DOMAIN available' = {s[i][1] : i \in 1 .. p + 1}
    BY <1>9
  <2>4. \A i \in 1 .. p + 1 : available'[s[i][1]] = s[i][2]
    BY <1>10
  <2> HIDE DEF m
  <2> QED BY <1>4, <2>1, <2>2, <2>3, <2>4 DEF SetUpTo
<1>12. p + 1 \in Nat
  OBVIOUS
<1> QED BY <1>11, <1>12 DEF s

\* What a scrape in the middle of record may show.
LEMMA SeriesShown ==
  ASSUME NEW ts \in Snapshot, NEW p \in Nat, SetUpTo(Due(ts).gateways, p)
  PROVE  /\ \A x \in Shown :
              x \in Series(ts) \/ (~x[2] /\ <<x[1], TRUE>> \in Series(ts))
         /\ pending = << >> => Shown = Series(ts)
<1> DEFINE s == Due(ts).gateways
           S == {s[i] : i \in DOMAIN s}
<1>1. S = Series(ts)
  BY DEF Series
<1>2. SetUpTo(s, p) /\ s = Due(ts).gateways
  OBVIOUS
<1> HIDE DEF s
<1>3. /\ Len(s) \in Nat /\ DOMAIN s = 1 .. Len(s)
      /\ \A i \in 1 .. Len(s) : s[i] = <<s[i][1], s[i][2]>> /\ s[i][2] \in BOOLEAN
  BY <1>2, SeriesDue
<1>4. /\ p \in 0 .. Len(s) /\ Len(pending) = Len(s) - p
      /\ \A i \in 1 .. p : available[s[i][1]] = s[i][2]
  BY <1>2 DEF SetUpTo
<1>5. ASSUME NEW i \in 1 .. p
      PROVE  s[i] \in S /\ <<s[i][1], available[s[i][1]]>> = s[i]
  <2>1. i \in 1 .. Len(s)
    BY <1>3, <1>4
  <2>2. available[s[i][1]] = s[i][2]
    BY <1>4
  <2>3. s[i] = <<s[i][1], s[i][2]>>
    BY <1>3, <2>1
  <2> QED BY <1>3, <2>1, <2>2, <2>3
<1>6. CASE DOMAIN available = {s[i][1] : i \in 1 .. p}
  <2>1. ASSUME NEW n \in DOMAIN available PROVE <<n, available[n]>> \in S
    <3>1. PICK i \in 1 .. p : n = s[i][1]
      BY <1>6
    <3> QED BY <1>5, <3>1
  <2>2. Shown \subseteq S
    BY <2>1 DEF Shown
  <2>3. ASSUME pending = << >>, NEW x \in S PROVE x \in Shown
    <3>1. Len(pending) = 0
      BY <2>3, EmptySeq
    <3>2. p = Len(s)
      <4>1. Len(s) \in Nat /\ p \in 0 .. Len(s) /\ Len(pending) = Len(s) - p
        BY <1>3, <1>4
      <4> QED BY <3>1, <4>1
    <3>3. PICK i \in 1 .. p : x = s[i]
      BY <1>3, <3>2
    <3>4. s[i][1] \in DOMAIN available
      BY <1>6
    <3> QED BY <1>5, <3>3, <3>4 DEF Shown
  <2> QED BY <1>1, <2>2, <2>3
<1>7. CASE /\ p + 1 \in 1 .. Len(s)
           /\ DOMAIN available = {s[i][1] : i \in 1 .. p + 1}
           /\ available[s[p + 1][1]] = FALSE
  <2>1. ASSUME NEW n \in DOMAIN available
        PROVE  \/ <<n, available[n]>> \in S
               \/ available[n] = FALSE /\ <<n, TRUE>> \in S
    <3>1. PICK i \in 1 .. p + 1 : n = s[i][1]
      BY <1>7
    <3>2. CASE i \in 1 .. p
      BY <1>5, <3>1, <3>2
    <3>3. CASE i = p + 1
      <4>1. s[p + 1] = <<n, s[p + 1][2]>> /\ s[p + 1][2] \in BOOLEAN /\ s[p + 1] \in S
        BY <1>3, <1>7, <3>1, <3>3
      <4>2. available[n] = FALSE
        BY <1>7, <3>1, <3>3
      <4>3. CASE s[p + 1][2] = TRUE
        <5>1. <<n, TRUE>> \in S
          BY <4>1, <4>3
        <5> QED BY <4>2, <5>1
      <4>4. CASE s[p + 1][2] = FALSE
        <5>1. <<n, available[n]>> \in S
          BY <4>1, <4>2, <4>4
        <5> QED BY <5>1
      <4>5. s[p + 1][2] = TRUE \/ s[p + 1][2] = FALSE
        BY <4>1
      <4> QED BY <4>3, <4>4, <4>5
    <3>4. i \in 1 .. p \/ i = p + 1
      OBVIOUS
    <3> QED BY <3>2, <3>3, <3>4
  <2>2. ASSUME NEW x \in Shown
        PROVE  x \in S \/ (~x[2] /\ <<x[1], TRUE>> \in S)
    <3>1. PICK n \in DOMAIN available : x = <<n, available[n]>>
      BY DEF Shown
    <3> QED BY <2>1, <3>1
  <2>3. pending # << >>
    <3>1. Len(s) \in Nat /\ p + 1 \in 1 .. Len(s) /\ Len(pending) = Len(s) - p
      BY <1>3, <1>4, <1>7
    <3>2. Len(pending) # 0
      BY <3>1
    <3> QED BY <3>2, EmptySeq
  <2> QED BY <1>1, <2>2, <2>3
<1> QED BY <1>2, <1>6, <1>7 DEF SetUpTo

LEMMA GaugedStep == TypeOK /\ Gauged /\ [ReportNext]_<<vars, report>> => Gauged'
<1> SUFFICES ASSUME TypeOK, Gauged, [ReportNext]_<<vars, report>> PROVE Gauged'
  OBVIOUS
<1>1. CASE UNCHANGED <<vars, report>>
  BY <1>1, GaugedKept DEF vars, loop, report, metrics
<1>2. CASE Programs
  <2>1. /\ pc = "apply" /\ pc' = "idle" /\ started' /\ applied' \in Snapshot /\ at' = "announce"
        /\ UNCHANGED <<members, gateways, available, recorded>>
    BY <1>2 DEF Programs, Apply, TypeOK, metrics
  <2>2. at = "rest"
    BY <2>1 DEF Gauged
  <2>3. Shown' = Shown
    BY <2>1 DEF Shown
  <2> QED BY <2>1, <2>2, <2>3 DEF Gauged
<1>3. CASE Announce \/ SetMembers \/ SetGateways
  <2>1. /\ UNCHANGED <<pc, started, applied, available, recorded>>
        /\ at # "rest" /\ at # "series" /\ at' # "rest" /\ at' # "series"
    BY <1>3 DEF Announce, SetMembers, SetGateways, vars, loop, metrics
  <2>2. applied \in Snapshot /\ applied # Nothing
    BY <2>1, ReportAssumption DEF Gauged
  <2>3. Due(applied) = Stats[applied]
    BY <2>2 DEF Due
  <2>4. Shown' = Shown
    BY <2>1 DEF Shown
  <2>5. /\ members' = IF at' \in {"gateways", "clear"} THEN Due(applied).members
                      ELSE Due(recorded).members
        /\ gateways' = IF at' = "clear" THEN Len(Due(applied).gateways)
                       ELSE Len(Due(recorded).gateways)
    BY <1>3, <2>3 DEF Gauged, Announce, SetMembers, SetGateways, metrics
  <2> QED BY <2>1, <2>4, <2>5 DEF Gauged
<1>4. CASE ClearSeries \/ CreateSeries \/ SetAvailable
  <2>1. /\ UNCHANGED <<pc, started, applied, members, gateways, recorded>>
        /\ at \in {"clear", "series"} /\ at' = "series"
    BY <1>4 DEF ClearSeries, CreateSeries, SetAvailable, vars, loop
  <2>2. \E p \in Nat : SetUpTo(Due(applied).gateways, p)'
    <3>1. CASE ClearSeries
      BY <3>1, SeriesCleared
    <3>2. CASE CreateSeries
      BY <3>2, SeriesCreated
    <3>3. CASE SetAvailable
      BY <3>3, SeriesSet
    <3> QED BY <1>4, <3>1, <3>2, <3>3
  <2>3. (Due(applied))' = Due(applied) /\ (Due(recorded))' = Due(recorded)
    BY <2>1
  <2> QED BY <2>1, <2>2, <2>3 DEF Gauged
<1>5. CASE Recorded
  <2>1. /\ UNCHANGED <<pc, started, applied, members, gateways, available>>
        /\ at = "series" /\ at' = "rest" /\ recorded' = applied /\ pending = << >>
    BY <1>5 DEF Recorded, vars, loop
  <2>2. applied \in Snapshot
    BY <2>1 DEF Gauged
  <2>3. PICK p \in Nat : SetUpTo(Due(applied).gateways, p)
    BY <2>1 DEF Gauged
  <2>4. Shown = Series(applied)
    BY <2>1, <2>2, <2>3, SeriesShown
  <2>5. Shown' = Shown
    BY <2>1 DEF Shown
  <2> QED BY <2>1, <2>2, <2>4, <2>5 DEF Gauged
<1>6. CASE ListingFails
  <2>1. CASE started
    <3>1. pc = "list" /\ UNCHANGED <<applied, started, report>>
      BY <1>6, <2>1 DEF ListingFails, ListFails, Fail
    <3> QED BY <3>1, GaugedKept DEF Gauged, Programmed, report, metrics
  <2>2. CASE ~started
    BY <1>6, <2>2, GaugedForgotten DEF ListingFails, ListFails, Fail, Exit
  <2> QED BY <2>1, <2>2
<1>7. CASE ReconcileFails
  <2>1. CASE started
    <3>1. /\ pc = "apply" /\ applied' \in {applied, Partial}
          /\ UNCHANGED <<started, at, members, gateways, available, pending, recorded>>
      BY <1>7, <2>1 DEF ReconcileFails, ApplyFails, Fail, metrics
    <3> QED BY <3>1, GaugedKept DEF Gauged, Programmed
  <2>2. CASE ~started
    BY <1>7, <2>2, GaugedForgotten DEF ReconcileFails, ApplyFails, Fail, Exit
  <2> QED BY <2>1, <2>2
<1>8. CASE Ends
  BY <1>8, GaugedForgotten DEF Ends, Crash, Shutdown, Exit
<1>9. CASE Silent
  <2>1. UNCHANGED <<applied, started, at, members, gateways, available, pending, recorded>>
    BY <1>9, SilentLeaves DEF report, metrics
  <2>2. CASE at = "rest"
    BY <2>1, <2>2, GaugedKept DEF Programmed
  <2>3. CASE at # "rest"
    <3>1. pc = "idle"
      BY <2>3 DEF Gauged
    <3>2. Docker \/ Watcher \/ Terminate
      BY <1>9, <2>3, <3>1 DEF Silent, Start, Drain, DebounceEnds, List
    <3>3. pc' = pc
      BY <3>2 DEF Docker, Change, QuietChange, Watcher, Subscribe, Deliver, StreamError,
                  WatcherDies, LoseStream, Resubscribe, Terminate, loop
    <3> QED BY <2>1, <3>3, GaugedKept
  <2> QED BY <2>2, <2>3
<1> QED BY <1>1, <1>2, <1>3, <1>4, <1>5, <1>6, <1>7, <1>8, <1>9 DEF ReportNext, Reports

LEMMA GaugedTells == TypeOK /\ Gauged => GaugesTell
<1> SUFFICES ASSUME TypeOK, Gauged PROVE GaugesTell
  OBVIOUS
<1>1. CASE at = "rest"
  BY <1>1 DEF Gauged, GaugesTell
<1>2. CASE at # "rest" /\ at # "series"
  BY <1>2 DEF Gauged, GaugesTell
<1>3. CASE at = "series"
  <2>1. applied \in Snapshot
    BY <1>3 DEF Gauged
  <2>2. PICK p \in Nat : SetUpTo(Due(applied).gateways, p)
    BY <1>3 DEF Gauged
  <2>3. \A x \in Shown :
          x \in Series(applied) \/ (~x[2] /\ <<x[1], TRUE>> \in Series(applied))
    BY <2>1, <2>2, SeriesShown
  <2> QED BY <1>3, <2>3 DEF Gauged, GaugesTell
<1> QED BY <1>1, <1>2, <1>3

\* Every scrape shows sizes and gateways of the listing recorded last or of
\* the one being recorded, although the gauges are cleared and set one after
\* the other and any number of reconciles may fail; between two reconciles it
\* shows one listing, the one the host is programmed for (src/obs.rs).
THEOREM GaugesTrue == ReportSpec => []GaugesTell
  BY ReportIsWatch, WatchTyped, GaugedInit, GaugedStep, GaugedTells, PTL DEF ReportSpec
=============================================================================
