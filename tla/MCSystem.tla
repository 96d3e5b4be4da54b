------------------------------ MODULE MCSystem ------------------------------
(* Two gateways of the file: the container gw, and a router.  app asks for *)
(* the first, web for the second, and web may get the address gw had.      *)
EXTENDS System, TLC

CONSTANTS gw, app, web, vpn, edge, m, m2, t0, t1, t2, a1, a2, rtr, lan, ula

MCName == {gw, app, web}
MCGatewayName == {vpn, edge}
MCMark == {m, m2}
MCTable == {t1, t2}
MCAutoMark == (vpn :> m) @@ (edge :> m2)
MCAutoTable == (vpn :> t1) @@ (edge :> t2)
MCAddr4 == {a1, a2}
MCNextHop == {a1, rtr}
MCEmpty == {}
MCNet4 == {lan}
MCNet6 == {ula}

Plain == [snat |-> None, mark |-> None, table |-> None, locals |-> {}, default |-> None,
          members |-> None]
Box(n) == [name |-> n, service |-> None, gateway |-> None, enable |-> None, via |-> None,
           tags |-> {}, knobs |-> Plain]
MCDeclared == {Box(gw), [Box(app) EXCEPT !.enable = "true", !.via = vpn],
               [Box(web) EXCEPT !.enable = "true", !.via = edge]}
MCLeases == (gw :> {<<a1>>}) @@ (app :> {<<a2>>}) @@ (web :> {<<a1>>})

FileGateway(g, ctr, hop) ==
  [name |-> g, snat |-> None, mark |-> None, table |-> None, default |-> FALSE,
   locals |-> {}, members |-> {},
   egress |-> [interface |-> None, nextHop |-> hop, container |-> ctr]]
MCFile == << FileGateway(vpn, gw, None), FileGateway(edge, None, rtr) >>
MCConfig == << <<m, t1>>, <<m2, t2>> >>
MCWorld == { << [mark |-> m, table |-> t1, egress |-> e, members |-> s],
                [mark |-> m2, table |-> t2, egress |-> rtr, members |-> w] >> :
               e \in {a1, Unavailable}, s \in {{}, {a2}}, w \in {{}, {a1}} }

\* One gateway, whose container comes back with another address while the
\* application may get the one it had.
LiveName == {gw, app}
LiveGatewayName == {vpn}
LiveMark == {m}
LiveTable == {t1}
LiveAutoMark == vpn :> m
LiveAutoTable == vpn :> t1
LiveDeclared == {Box(gw), [Box(app) EXCEPT !.enable = "true", !.via = vpn]}
LiveLeases == (gw :> {<<a1>>, <<a2>>}) @@ (app :> {<<a1>>})
LiveFile == << FileGateway(vpn, gw, None) >>
LiveConfig == << <<m, t1>> >>
LiveWorld == { << [mark |-> m, table |-> t1, egress |-> e, members |-> s] >> :
                 e \in MCAddr4 \cup {Unavailable}, s \in {{}, {a1}} }

\* No step is guarded by applied and missed, and AsAsked and AsPlanned read
\* neither.
Seen == <<vars, docker, listing, programmed>>
=============================================================================
