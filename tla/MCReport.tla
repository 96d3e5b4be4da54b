------------------------------ MODULE MCReport -----------------------------
(* A gateway of the file, reached by its service, and four listings: the   *)
(* gateway runs or does not, a container declares a second gateway, a      *)
(* member is recreated with another address, one typo follows another.     *)
EXTENDS Report

CONSTANTS app, gw, alt, typo, typp, vpn, other, nope, ma, mb, ta, tb, a1, a2, a3, a4, u1, lan, ula

MCName == {app, gw, alt, typo, typp}
MCGatewayName == {vpn, other, nope}
MCMark == {ma, mb}
MCTable == {ta, tb}
MCAutoMark == (vpn :> ma) @@ (other :> mb) @@ (nope :> mb)
MCAutoTable == (vpn :> ta) @@ (other :> tb) @@ (nope :> tb)
MCAddr4 == {a1, a2, a3, a4, u1}
MCEmpty == {}
MCNet4 == {lan}
MCNet6 == {ula}

MCConfig == << [name |-> vpn, snat |-> None, mark |-> None, table |-> None, default |-> FALSE,
                locals |-> {}, members |-> {},
                egress |-> [interface |-> None, nextHop |-> None, container |-> gw]] >>

Plain == [snat |-> None, mark |-> None, table |-> None, locals |-> {}, default |-> None,
          members |-> None]
Box(n, a) == [name |-> n, service |-> None, gateway |-> None, enable |-> None, via |-> None,
              tags |-> {}, knobs |-> Plain, addrs |-> <<a>>]
Member(n, a, g) == [Box(n, a) EXCEPT !.enable = "true", !.via = g]

MCSnapshot ==
  { <<Box(gw, a1), Member(app, a2, vpn), Member(typo, u1, nope)>>,
    <<Box(gw, a1), Member(app, a3, vpn), Member(typp, u1, nope)>>,
    <<Member(app, a2, vpn), [Box(alt, a4) EXCEPT !.gateway = other],
      [Box(typp, u1) EXCEPT !.gateway = nope, !.knobs.mark = Bad]>> }
=============================================================================
