-------------------------- MODULE MCCooperativeGrid --------------------------
(* The layout of grid_env.py for TLC.                                      *)
EXTENDS CooperativeGridModel, TLC

MCCorridor == (1 .. 7) \X {1}
MCDoor == <<4, 2>>
MCGoalCells == (3 .. 5) \X {4}
MCCells == MCCorridor \cup {MCDoor} \cup ((1 .. 7) \X (3 .. 4))
MCHandleLeft == <<3, 1>>
MCHandleRight == <<5, 1>>
MCStartAt == (A :> <<1, 1>>) @@ (B :> <<7, 1>>)

\* The horizon of the planner is wide enough: no step leads back into what is solved.
ASSUME Before(Solved[Horizon + 1]) \subseteq Solved[Horizon + 1]

=============================================================================
