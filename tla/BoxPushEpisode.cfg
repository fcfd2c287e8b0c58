SPECIFICATION EpisodeSpec
CONSTANTS
  Agent0 = agent_0
  Agent1 = agent_1
  heavy = box_0
  light = box_1
  Boxes <- MCBoxes
  Required <- MCRequired
  Width = 12
  Height = 12
  GoalZone <- MCGoalZone
  AgentStart <- FrozenAgentStart
  BoxStart <- FrozenBoxStart
  GotoBudget = 40
  PushBudget = 30
  CoopBudget = 150
  ExploreBudget = 30
  NoProgress = 8
  WaitLimit = 10
  StuckLimit = 4
  HardCap = 600
  BoxOrder <- MCBoxOrder
  NoHead = NoHead
  Tasks <- MCTasks
  Configs <- MCConfigs
  ExecBudget = 50
  PrimBudget = 600
  MaxRejections = 5
  Threshold = 3
  MaxPrimitives = 600
  NoWorld = NoWorld
  EmptyPlan = EmptyPlan
INVARIANT PriceOfFailure
PROPERTIES
  TasksDecide
  NoMismatch
  StaleBeliefExplains
