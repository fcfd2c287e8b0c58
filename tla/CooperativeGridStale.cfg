SPECIFICATION Spec
CONSTANTS
  A = A
  B = B
  Cells <- MCCells
  Door <- MCDoor
  HandleLeft <- MCHandleLeft
  HandleRight <- MCHandleRight
  GoalCells <- MCGoalCells
  Corridor <- MCCorridor
  StartAt <- MCStartAt
  StepLimits = {200}
  NoState = NoState
  NoPartner = NoPartner
  NoHead = NoHead
  DoorName = door
INVARIANT CacheFollowsBackend
