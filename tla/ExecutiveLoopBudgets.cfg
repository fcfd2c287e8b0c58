SPECIFICATION Spec
CONSTANTS
  Calls = {c1}
  Worlds = {w1, g}
  Goal = {g}
  NoWorld = NoWorld
  NoCall = NoCall
  NoPlan = NoPlan
  EmptyPlan = EmptyPlan
  Configs <- AllConfigs
  Advices <- MCAdvices
  ExecBudget = 3
  PrimBudget = 3
  MaxRejections = 2
  Threshold = 2
  MaxPrimitives = 2
INVARIANTS
  BudgetHolds
  ChargedIsSpent
  FailClosed
PROPERTIES
  EpisodeEnds
  KeepsContract
