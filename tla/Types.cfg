CONSTANTS
  PropOrder <- MCPropOrder
  Asked <- MCAsked
  Flows <- MCFlows
  Branches <- MCBranches
  Scope <- MCScope
  MAX_GENERALISED = 40
  DepthLimit = 24
  MAX_UNIFY_DEPTH = 20
  MaxCalls = 3
  FewCalls = 2
  SaveAfter = {1}
  Budgets = {1, 4, 8}
SPECIFICATION Spec
PROPERTIES Solved AgreedIsAccepted EitherWay ZonkIsApply FlattenInContext BranchesHaveNoOrder QuantifiedIsOwned UsesAreApart
CHECK_DEADLOCK FALSE
