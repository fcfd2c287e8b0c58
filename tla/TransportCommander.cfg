SPECIFICATION CommanderSpec
CONSTANTS
  Agent0 = agent_0
  Agent1 = agent_1
  Light = {1, 2}
  Heavy = 0
  Targets = {0, 1}
  Floor <- MCFloor
  Zone <- MCZone
  AgentStart <- MCAgentStart
  PackageStart <- MCPackageStart
  Nobody = Nobody
  Nothing = Nothing
  Width = 5
  Height = 4
  SkillBudget = 3
  ExploreBudget = 3
  StuckLimit = 1
INVARIANTS
  MapTells
  BeliefIsReal
PROPERTIES
  FirstNotices
  MissedIsKept
