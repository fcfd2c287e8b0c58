SPECIFICATION EpisodeSpec
CONSTANTS
  A = A
  B = B
  Cells <- MCCells
  Door <- MCDoor
  HandleLeft <- MCHandleLeft
  HandleRight <- MCHandleRight
  GoalCells <- MCGoalCells
  Corridor <- MCCorridor
  StartAt <- MCStartAt
  StepLimits = {3, 5, 12, 16, 200}
  NoState = NoState
  NoPartner = NoPartner
  NoHead = NoHead
  DoorName = door
  NoWorld = NoWorld
  EmptyPlan = EmptyPlan
  Configs <- MCConfigs
  ExecBudget = 12
  PrimBudget = 600
  MaxRejections = 5
  Threshold = 3
  MaxPrimitives = 200
INVARIANT PriceOfJam
PROPERTY JamDecides
