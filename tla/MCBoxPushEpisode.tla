--------------------------- MODULE MCBoxPushEpisode ---------------------------
(* The frozen V1 instance, its three tasks and every configuration for TLC. *)
EXTENDS BoxPushEpisode, TLC

CONSTANTS heavy, light

MCBoxes    == {heavy, light}
MCRequired == [b \in MCBoxes |-> IF b = heavy THEN 2 ELSE 1]
MCGoalZone == {<<1, y>> : y \in 1 .. Height - 2}
FrozenAgentStart == (Agent0 :> <<10, 10>>) @@ (Agent1 :> <<10, 9>>)
FrozenBoxStart == (heavy :> <<6, 6>>) @@ (light :> <<8, 4>>)
MCBoxOrder == <<heavy, light>>
MCTasks == {{heavy}, {light}, {heavy, light}}

MCConfigs ==
  [policy : {"symbolic_primary", "advisory_two_track"}, halt_on_fault : BOOLEAN,
   nl_track : {FALSE}]

=============================================================================
