----------------------- MODULE MCCooperativeGridEpisode -----------------------
(* The layout of grid_env.py and every fault-free configuration for TLC.   *)
EXTENDS CooperativeGridEpisode, TLC

MCCorridor == (1 .. 7) \X {1}
MCDoor == <<4, 2>>
MCGoalCells == (3 .. 5) \X {4}
MCCells == MCCorridor \cup {MCDoor} \cup ((1 .. 7) \X (3 .. 4))
MCHandleLeft == <<3, 1>>
MCHandleRight == <<5, 1>>
MCStartAt == (A :> <<1, 1>>) @@ (B :> <<7, 1>>)

MCConfigs ==
  [policy : {"symbolic_primary", "advisory_two_track"}, halt_on_fault : BOOLEAN,
   nl_track : {FALSE}]

=============================================================================
