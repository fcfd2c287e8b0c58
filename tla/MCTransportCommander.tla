------------------------ MODULE MCTransportCommander ------------------------
(* A scaled-down transport arena for the commander: every cell of a 3 by 2    *)
(* floor is a start, and, as in the real one, each agent starts facing left,  *)
(* where no package is.                                                       *)
EXTENDS TransportCommander, TLC

MCFloor == (1 .. 3) \X (1 .. 2)
MCZone == {<<2, 2>>}
MCAgentStart == (Agent0 :> <<1, 1>>) @@ (Agent1 :> <<2, 1>>)
MCPackageStart == (0 :> <<1, 2>>) @@ (1 :> <<3, 1>>) @@ (2 :> <<3, 2>>)

=============================================================================
