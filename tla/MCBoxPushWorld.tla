--------------------------- MODULE MCBoxPushWorld ---------------------------
(* A scaled-down BoxPush arena for TLC: five columns by three rows of      *)
(* floor, the zone on the left, one heavy and one light box.               *)
EXTENDS BoxPushWorld, TLC

CONSTANTS heavy, light

MCBoxes    == {heavy, light}
MCRequired == [b \in MCBoxes |-> IF b = heavy THEN 2 ELSE 1]
MCGoalZone == {<<1, y>> : y \in 1 .. Height - 2}
MCAgentStart == (Agent0 :> <<5, 3>>) @@ (Agent1 :> <<5, 2>>)
MCBoxStart == (heavy :> <<2, 3>>) @@ (light :> <<3, 2>>)

=============================================================================
