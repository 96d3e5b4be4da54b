---------------------------- MODULE MCContainers ---------------------------
(* Two applications, two gateway containers that both claim "vpn" or the   *)
(* gateway of the file, and a third that declares another gateway.         *)
EXTENDS Ruleset

CONSTANTS app, web, gw, gwb, alt, svc, vpn, other, file, host, tag, ma, mb, mc, md,
          ta, tb, tc, td, a1, a2, a3, a4, a5, b6,
          lan, ula, internet, wg

MCName == {app, web, gw, gwb, alt, svc}
MCGatewayName == {vpn, other, file, host}
MCTag == {tag}
MCMark == {ma, mb, mc, md}
MCTable == {ta, tb, tc, td}
MCAutoMark == (vpn :> ma) @@ (other :> mb) @@ (file :> mc) @@ (host :> md)
MCAutoTable == (vpn :> ta) @@ (other :> tb) @@ (file :> tc) @@ (host :> td)
MCAddr4 == {a1, a2, a3, a4, a5}
MCAddr6 == {b6}

MCNet4 == {lan}
MCNet6 == {ula}
MCDefaultLocals == {lan}

\* vpn and other are told apart by characters that no nft identifier can have.
MCSanitized == (vpn :> "vpn_1") @@ (other :> "vpn_1") @@ (file :> "file") @@ (host :> "host")

Plain == [snat |-> None, mark |-> None, table |-> None, locals |-> {}, default |-> None,
          members |-> None]
Box(n) == [name |-> n, service |-> None, gateway |-> None, enable |-> None, via |-> None,
           tags |-> {}, knobs |-> Plain]

MCDeclared ==
  { [Box(app) EXCEPT !.enable = "true", !.via = vpn],        \* names its gateway
    [Box(app) EXCEPT !.enable = "true", !.gateway = Bad],    \* the default one
    [Box(web) EXCEPT !.tags = {tag}, !.service = svc],       \* by selector
    [Box(web) EXCEPT !.tags = {tag}, !.enable = "true", !.via = host],
    [Box(gw)  EXCEPT !.gateway = vpn, !.knobs.members = {tag, Bad}, !.knobs.snat = "true",
                     !.knobs.locals = {ula}],
    [Box(gwb) EXCEPT !.gateway = vpn, !.knobs.table = Bad],
    [Box(gwb) EXCEPT !.gateway = vpn, !.service = svc, !.knobs.default = "true"],
    [Box(gwb) EXCEPT !.gateway = file, !.knobs.default = "true"],
    [Box(alt) EXCEPT !.gateway = other, !.knobs.members = {tag}, !.knobs.default = "true",
                     !.enable = "true"] }

MCLeases == (app :> {<<a1>>, <<a1, b6>>}) @@ (web :> {<<a2>>, << >>}) @@ (gw :> {<<a3>>, <<b6>>})
            @@ (gwb :> {<<a4>>}) @@ (alt :> {<<a5>>, <<a1>>})

\* Without a gateways.yaml, and with one gateway that is reached by its service
\* and one that is an interface of the host.
NoConfig == << >>
FileGateway(n, iface, ctr) ==
  [name |-> n, snat |-> None, mark |-> None, table |-> None, default |-> FALSE, locals |-> {},
   members |-> {}, egress |-> [interface |-> iface, nextHop |-> None, container |-> ctr]]
FileConfig == <<FileGateway(file, None, svc), FileGateway(host, wg, None)>>
=============================================================================
