----------------------------- MODULE MCEnforce -----------------------------
(* A host with one gateway in gateways.yaml, the interface wg, and one     *)
(* gateway that a container declares by labels.                            *)
EXTENDS Enforce

CONSTANTS m1, m2, m3, m4, t1, t2, t3, t0, wg, ctr, ctr2, a1, a2, b6

MCMark == {m1, m2, m3, m4}
MCTable == {t1, t2, t3}
MCInterface == {wg}
MCNextHop == {ctr, ctr2}
MCAddr4 == {a1, a2}
MCAddr6 == {b6}
MCConfig == << <<m1, t1>> >>
MCForeignMarks == {m3}

G(m, t, e, s) == [mark |-> m, table |-> t, egress |-> e, members |-> s]

\* The gateway of gateways.yaml alone, with every member.
Sole == << G(m1, t1, wg, {a1, a2, b6}) >>
\* A discovered gateway joins it, loses its IPv4 address, moves to another
\* table, or shares the table of the configured one.
Joined   == << G(m1, t1, wg, {a1}), G(m2, t2, ctr, {a2, b6}) >>
NoAddr   == << G(m1, t1, wg, {a1}), G(m2, t2, Unavailable, {a2}) >>
Moved    == << G(m1, t1, wg, {a1}), G(m2, t3, ctr, {a2}) >>
Colliding == << G(m1, t1, wg, {a1}), G(m2, t1, ctr, {a2}) >>
\* A different gateway reuses the table, or a mark of another tool; members
\* change sides.
Reused  == << G(m1, t1, wg, {a2}), G(m4, t2, ctr2, {a1}) >>
Foreign == << G(m1, t1, wg, {a2}), G(m3, t2, ctr, {a1}) >>

MCWorld == {Sole, Joined, NoAddr, Moved, Colliding, Reused, Foreign}

\* With `down` beside the daemon: the discovered gateway joins, moves to another
\* table, or gives way to one with the mark of another tool.
OverlapWorld == {Joined, Moved, Foreign}
OverlapMark == {m1, m2, m3}
OverlapNextHop == {ctr}

\* Two gateways in gateways.yaml: the interface, and a container that is
\* running, recreated with another address, or absent.
PairConfig == << <<m1, t1>>, <<m2, t2>> >>
PairWorld == { << G(m1, t1, wg, {a1}), G(m2, t2, e, {a2}) >> :
               e \in {ctr, ctr2, Unavailable} }
PairMark == {m1, m2}
PairTable == {t1, t2}
NoAddr6 == {}
PairForeignMarks == {}
=============================================================================
