SPECIFICATION Spec
CONSTANTS
  Calls = {c1, c2}
  Worlds = {w1, w2, g}
  Goal = {g}
  NoWorld = NoWorld
  NoCall = NoCall
  NoPlan = NoPlan
  EmptyPlan = EmptyPlan
  Configs <- AllConfigs
  Advices <- MCAdvices
  ExecBudget = 4
  PrimBudget = 9
  MaxRejections = 1
  Threshold = 2
  MaxPrimitives = 0
SYMMETRY Alike
INVARIANTS
  NoUnadvisedRepeat
  OutcomeJustified
  FreshBelief
  AdviceIsEarned
