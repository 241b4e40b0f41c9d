CONSTANTS
  h1 = h1
  h2 = h2
  vDefault = vDefault
  vSet = vSet
  NoneValue = NoneValue
  FieldSeq <- AgentFields
  Optional <- AgentOptional
  Values <- MCValues
  DefaultOf <- AgentDefaults
  GenBuild = TRUE
  Handles <- MCHandles
  None <- NoneValue
SPECIFICATION Spec
INVARIANTS TypeOK BuildOutcome
