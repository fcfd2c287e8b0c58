SPECIFICATION AttemptSpec
CONSTANTS
  Agent0 = agent_0
  Agent1 = agent_1
  heavy = box_0
  light = box_1
  Boxes <- MCBoxes
  Required <- MCRequired
  Width = 12
  Height = 12
  GoalZone <- MCGoalZone
  AgentStart <- FrozenAgentStart
  BoxStart <- FrozenBoxStart
  GotoBudget = 40
  PushBudget = 30
  CoopBudget = 150
  ExploreBudget = 30
  NoProgress = 8
  WaitLimit = 10
  StuckLimit = 4
  HardCap = 600
INVARIANTS
  WithinBudget
  PushesDeliver
  OnlyPartnerBlocksPose
  SubstitutionIsFault
  DeliveryIsReal
