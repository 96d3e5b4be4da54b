---------------------------- MODULE FailClosed -----------------------------
(***************************************************************************)
(* What degc promises a container, without nft, ip, plans or processes.    *)
(* `published` are the <<mark, table>> pairs that packets are marked for,  *)
(* `covered` those whose rule and blackhole are both in place: a packet    *)
(* with a covered mark can leave by its gateway's live default or not at   *)
(* all.  `sighted` says whether degc could see the rules of the host when  *)
(* it published: it goes on without, and then promises less.               *)
(***************************************************************************)
CONSTANTS Mark, Table
VARIABLES published, covered, sighted

vars == <<published, covered, sighted>>

Init == published = {} /\ covered = {} /\ sighted = FALSE

\* Marking changes in one piece, gives a mark one table, and knowingly never
\* takes a mark whose packets are still diverted to another table.
Publish == /\ published' \in SUBSET (Mark \X Table) /\ sighted' \in BOOLEAN
           /\ \A r, s \in published' : (r[1] = s[1]) <=> (r[2] = s[2])
           /\ sighted' => \A r \in published', c \in covered : r[1] = c[1] => r[2] = c[2]
           /\ UNCHANGED covered

\* Marking ends in one piece.
Withdraw == published' = {} /\ UNCHANGED <<covered, sighted>>

Cover(r) == /\ r \in published
            /\ covered' = covered \cup {r}
            /\ UNCHANGED <<published, sighted>>

\* Coverage is taken back only while no packet is marked.
Uncover == /\ published = {}
           /\ covered' \in SUBSET covered
           /\ UNCHANGED <<published, sighted>>

Reboot == published' = {} /\ covered' = {} /\ sighted' = FALSE

Next == Publish \/ Withdraw \/ (\E r \in published : Cover(r)) \/ Uncover \/ Reboot
Spec == Init /\ [][Next]_vars
=============================================================================
