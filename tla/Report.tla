------------------------------ MODULE Report -------------------------------
(***************************************************************************)
(* What an operator of `degc run` can see: the log line and warnings of    *)
(* reconcile_apply (src/main.rs), the warnings of SystemEnforcer::apply    *)
(* (src/enforce/mod.rs) and the metrics of src/obs.rs, driven by the loop  *)
(* of Watch.  A snapshot is here a listing, whose plan Plan computes.      *)
(*                                                                         *)
(* The metrics server answers a scrape from another thread at any time, so *)
(* between the last command of a reconcile and the end of `record` every   *)
(* write that it or the log shows is a step of its own.                    *)
(***************************************************************************)
EXTENDS Watch, Plan

CONSTANTS
  Config,   \* the gateways of gateways.yaml
  Nothing   \* no summary yet

\* A listing whose gateways collide only ever fails; ApplyFails stands for it.
ASSUME ReportAssumption ==
  /\ Config \in Seq(ToSet(Config)) /\ ValidDocument(Config)
  /\ Nothing \notin Snapshot
  /\ \A ts \in Snapshot : ts \in Seq(ToSet(ts)) /\ UniqueRouting(Merge(Config, ts))

VARIABLES
  at,         \* loop: what a reconcile has still to do once the host is programmed
  last_fp,    \* loop: the summary that was last announced
  line,       \* log: the last INFO line of this process
  warned,     \* log: the warnings of this process
  members,    \* degc_members
  gateways,   \* degc_gateways
  available,  \* degc_gateway_available, by gateway
  pending,    \* the gateways that record has still to set
  ready,      \* degc_ready, and the answer of /readyz
  recorded    \* history: the listing whose record was last completed

log     == <<line, warned>>
metrics == <<members, gateways, available, pending, ready, recorded>>
report  == <<at, last_fp, log, metrics>>

NoSeries == [n \in {} |-> FALSE]

----------------------------------------------------------------------------
(* The plan of a listing as it is shown.                                   *)

\* plan_summary: what the line says, and the fingerprint that decides whether
\* there is one.  It counts members and troubles and names the members.
Summary ==
  [ts \in Snapshot |->
     LET gs == Merge(Config, ts)  plan == Compile(Config, ts)
     IN  [gateways   |-> [i \in DOMAIN gs |->
                           [name   |-> gs[i].name,
                            egress |-> plan[i].egress,
                            count  |-> Cardinality(plan[i].members),
                            names  |-> MemberNames(gs, gs[i], ts)]],
          unresolved |-> Cardinality(Left(gs, ts, Unresolved)),
          conflicts  |-> Cardinality(Left(gs, ts, Conflict)),
          errors     |-> Cardinality(DiscoveryErrors(Config, ts))]]

UnresolvedWarnings ==
  [ts \in Snapshot |->
     {<<ts[k].name, ts[k].via>> : k \in Left(Merge(Config, ts), ts, Unresolved)}]
OtherWarnings ==
  [ts \in Snapshot |->
     {<<ts[k].name, Conflict>> : k \in Left(Merge(Config, ts), ts, Conflict)}
     \cup {<<ts[k].name, Bad>> : k \in DiscoveryErrors(Config, ts)}]

\* ReconcileStats: the number of members, and each gateway's availability.
Stats ==
  [ts \in Snapshot |->
     LET gs == Merge(Config, ts)  plan == Compile(Config, ts)
     IN  [members  |-> MapThenSumSet(LAMBDA i : Cardinality(plan[i].members), DOMAIN plan),
          gateways |-> [i \in DOMAIN plan |-> <<gs[i].name, plan[i].egress # Unavailable>>]]]

----------------------------------------------------------------------------
(* A reconcile from its last command on; `applied` is what it reports.     *)

\* Mutant of Programs: unresolved containers are warned of with the others.
ProgramsOnChange ==
  /\ Apply /\ at' = "announce"
  /\ warned' = IF last_fp = Summary[listed] THEN warned
               ELSE warned \cup UnresolvedWarnings[listed]
  /\ UNCHANGED <<last_fp, line, metrics>>

\* SystemEnforcer warns of unresolved containers at every reconcile.
Programs == /\ Apply /\ at' = "announce"
            /\ warned' = warned \cup UnresolvedWarnings[listed]
            /\ UNCHANGED <<last_fp, line, metrics>>

\* The loop logs a summary that has changed, with all its troubles.
Announce ==
  /\ at = "announce" /\ at' = "members"
  /\ LET fp == Summary[applied]
     IN  IF last_fp = fp THEN UNCHANGED <<last_fp, log>>
         ELSE /\ last_fp' = fp /\ line' = fp
              /\ warned' = warned \cup UnresolvedWarnings[applied] \cup OtherWarnings[applied]
  /\ UNCHANGED <<vars, metrics>>

\* Metrics::record, one write after the other.
SetMembers == /\ at = "members" /\ at' = "gateways"
              /\ members' = Stats[applied].members
              /\ UNCHANGED <<vars, last_fp, log, gateways, available, pending, ready, recorded>>

SetGateways == /\ at = "gateways" /\ at' = "clear"
               /\ gateways' = Len(Stats[applied].gateways)
               /\ UNCHANGED <<vars, last_fp, log, members, available, pending, ready, recorded>>

\* Mutant of ClearSeries: the series of gateways that are gone stay.
ClearNoSeries == /\ at = "clear" /\ at' = "series"
                 /\ available' = available /\ pending' = Stats[applied].gateways
                 /\ UNCHANGED <<vars, last_fp, log, members, gateways, ready, recorded>>

ClearSeries == /\ at = "clear" /\ at' = "series"
               /\ available' = NoSeries /\ pending' = Stats[applied].gateways
               /\ UNCHANGED <<vars, last_fp, log, members, gateways, ready, recorded>>

\* get_or_create shows a new series, at 0, before it is set.
CreateSeries ==
  /\ at = "series" /\ pending # << >>
  /\ LET n == Head(pending)[1]
     IN  /\ n \notin DOMAIN available
         /\ available' = [k \in DOMAIN available \cup {n} |->
                            IF k = n THEN FALSE ELSE available[k]]
  /\ UNCHANGED <<vars, at, last_fp, log, members, gateways, pending, ready, recorded>>

\* Mutant of SetAvailable: the new series is not set.
SetNothing ==
  /\ at = "series" /\ pending # << >>
  /\ Head(pending)[1] \in DOMAIN available
  /\ available' = available /\ pending' = Tail(pending)
  /\ UNCHANGED <<vars, at, last_fp, log, members, gateways, ready, recorded>>

SetAvailable ==
  /\ at = "series" /\ pending # << >>
  /\ Head(pending)[1] \in DOMAIN available
  /\ available' = [available EXCEPT ![Head(pending)[1]] = Head(pending)[2]]
  /\ pending' = Tail(pending)
  /\ UNCHANGED <<vars, at, last_fp, log, members, gateways, ready, recorded>>

Recorded == /\ at = "series" /\ pending = << >> /\ at' = "rest"
            /\ ready' = TRUE /\ recorded' = applied
            /\ UNCHANGED <<vars, last_fp, log, members, gateways, available, pending>>

----------------------------------------------------------------------------
(* The other ways a reconcile or the process ends.                         *)

\* With the process its metrics end, and its log is another's.
Forget == /\ at' = "rest" /\ last_fp' = Nothing /\ line' = Nothing /\ warned' = {}
          /\ members' = 0 /\ gateways' = 0 /\ available' = NoSeries
          /\ pending' = << >> /\ ready' = FALSE /\ recorded' = Nothing

\* A failed reconcile changes no gauge and no fingerprint.
ListingFails == /\ ListFails
                /\ IF started THEN UNCHANGED report ELSE Forget

\* Mutant of ReconcileFails: the fingerprint is remembered before the plan is
\* applied.
ReconcileFailsRemembers ==
  /\ ApplyFails
  /\ IF started THEN last_fp' = Summary[listed] /\ UNCHANGED <<at, log, metrics>> ELSE Forget

\* Whether the unresolved are warned of depends on where the reconcile fails.
ReconcileFails ==
  /\ ApplyFails
  /\ IF started
     THEN /\ warned' \in {warned, warned \cup UnresolvedWarnings[listed]}
          /\ UNCHANGED <<at, last_fp, line, metrics>>
     ELSE Forget

Ends == (Crash \/ (Shutdown /\ at = "rest")) /\ Forget

\* The steps that report nothing.  The watcher and the signal handlers are
\* there once the first reconcile is through, and the loop selects between two.
Silent == /\ \/ Docker \/ Start \/ Drain \/ DebounceEnds \/ List
             \/ (at = "rest" \/ ready) /\ (Watcher \/ Terminate)
             \/ at = "rest" /\ (Tick \/ Wake \/ Rewatch)
          /\ UNCHANGED report

----------------------------------------------------------------------------
ReportInit == /\ Init
              /\ at = "rest" /\ last_fp = Nothing /\ line = Nothing /\ warned = {}
              /\ members = 0 /\ gateways = 0 /\ available = NoSeries
              /\ pending = << >> /\ ready = FALSE /\ recorded = Nothing

\* What the loop does without waiting for anything.
Reports == \/ Announce \/ SetMembers \/ SetGateways \/ ClearSeries
           \/ CreateSeries \/ SetAvailable \/ Recorded

ReportNext == Programs \/ Reports \/ ListingFails \/ ReconcileFails \/ Ends \/ Silent

ReportSpec == ReportInit /\ [][ReportNext]_<<vars, report>>

LiveReportSpec == ReportSpec /\ Fairness /\ WF_<<vars, report>>(Reports)

----------------------------------------------------------------------------
Programmed == started /\ applied # Partial

\* The last INFO line describes what the host is programmed for, however many
\* reconciles have failed and whatever they were for; only a reconcile that has
\* just programmed the host has still to say so.
LogTells == Programmed /\ at # "announce" => line = Summary[applied]

\* Whoever opted into a gateway that is not there was warned of by the time the
\* host is programmed, even when the summary, which only counts them, is the
\* same as before.
UnresolvedWarned == Programmed => UnresolvedWarnings[applied] \subseteq warned

\* What the gauges should be for a listing, and before the first one.
Due(ts)   == IF ts = Nothing THEN [members |-> 0, gateways |-> << >>] ELSE Stats[ts]
Series(ts) == {Due(ts).gateways[i] : i \in DOMAIN Due(ts).gateways}
Shown     == {<<n, available[n]>> : n \in DOMAIN available}

\* A scrape at any moment, failed reconciles and halfway programmed hosts
\* included, shows the last reconcile that succeeded, or for a gauge that
\* record has reached the one it is recording: no size of an earlier listing,
\* no gateway that is gone from both, none that is up but was down in both.
\* The two can be mixed, and series are missing or at 0 while record is under
\* way; once it is over all gauges are of one listing, the one that the host is
\* programmed for unless a later reconcile has failed halfway.
GaugesTell ==
  LET now == IF at = "rest" THEN recorded ELSE applied
  IN  /\ members \in {Due(recorded).members, Due(now).members}
      /\ gateways \in {Len(Due(recorded).gateways), Len(Due(now).gateways)}
      /\ \/ Shown = Series(recorded)
         \/ \A s \in Shown : s \in Series(now) \/ (~s[2] /\ <<s[1], TRUE>> \in Series(now))
      /\ at = "rest" => Shown = Series(recorded)
      /\ at = "rest" /\ Programmed => recorded = applied

\* Once the containers stay as they are and reconciles succeed, log and
\* metrics come to describe them, and every scrape between two reconciles
\* shows all of it.
OperatorCatchesUp ==
  <>[][~(Docker \/ Faults)]_vars =>
    <>[](/\ line = Summary[containers] /\ ready
         /\ UnresolvedWarnings[containers] \subseteq warned
         /\ members = Stats[containers].members
         /\ gateways = Len(Stats[containers].gateways)
         /\ at = "rest" => Shown = Series(containers))
=============================================================================
