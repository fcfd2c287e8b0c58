-------------------------- MODULE MCBoxPushAttempt --------------------------
(* The frozen V1 instance for TLC.                                         *)
EXTENDS BoxPushAttempt, TLC

CONSTANTS heavy, light

MCBoxes    == {heavy, light}
MCRequired == [b \in MCBoxes |-> IF b = heavy THEN 2 ELSE 1]
MCGoalZone == {<<1, y>> : y \in 1 .. Height - 2}
FrozenAgentStart == (Agent0 :> <<10, 10>>) @@ (Agent1 :> <<10, 9>>)
FrozenBoxStart == (heavy :> <<6, 6>>) @@ (light :> <<8, 4>>)

=============================================================================
