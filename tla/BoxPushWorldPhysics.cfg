SPECIFICATION Spec
CONSTANTS
  Agent0 = agent_0
  Agent1 = agent_1
  heavy = box_0
  light = box_1
  Boxes <- MCBoxes
  Required <- MCRequired
  Width = 7
  Height = 5
  GoalZone <- MCGoalZone
  AgentStart <- MCAgentStart
  BoxStart <- MCBoxStart
INVARIANTS
  NoOverlap
  GridTracksWorld
PROPERTIES
  DeliveredRests
  HeavyMovesInTandem
