SPECIFICATION Spec
CONSTANTS
  Agent0 = agent_0
  Agent1 = agent_1
  Light = {1}
  Heavy = 0
  Targets = {0, 1}
  Floor <- MCFloor
  Zone <- MCZone
  AgentStart <- MCAgentStart
  PackageStart <- MCPackageStart
  Nobody = Nobody
  Nothing = Nothing
INVARIANTS
  AgentsApart
  RecordsAgree
  RewardsTell
PROPERTIES
  HoldIsRigid
