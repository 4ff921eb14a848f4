CONSTANTS
  Names = {a}
  Replicas = {r}
  MaxUid = 1
  DeletePolicies = {}
  NameReuse = FALSE
  StampSteps = {1}
  Prerequisites <- NoPrerequisite
  MaxPods = 1
  MaxEdits = 0
  Registries = 2
  HasBroker = TRUE
  FaultSets = {{}}
SPECIFICATION Spec
INVARIANTS
  MessagesTellPreviousState
CHECK_DEADLOCK FALSE
