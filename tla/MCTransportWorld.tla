-------------------------- MODULE MCTransportWorld --------------------------
(* A scaled-down transport arena for TLC.                                   *)
EXTENDS TransportWorld, TLC

MCFloor == {<<1, 1>>, <<2, 1>>, <<3, 1>>, <<1, 2>>, <<2, 2>>}
MCZone == {<<2, 2>>}
MCAgentStart == (Agent0 :> <<1, 1>>) @@ (Agent1 :> <<3, 1>>)
MCPackageStart == (0 :> <<1, 2>>) @@ (1 :> <<2, 1>>)

=============================================================================
