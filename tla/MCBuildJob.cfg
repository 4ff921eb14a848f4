CONSTANTS
  Names = {a}
  Replicas = {r}
  MaxUid = 2
  DeletePolicies = {"background", "foreground"}
  NameReuse = TRUE
  StampSteps = {1}
  Prerequisites <- NoPrerequisite
  MaxPods = 2
  MaxEdits = 1
  Registries = 2
  HasBroker = TRUE
  FaultSets <- MCFaultSets
SPECIFICATION FairSpec
INVARIANTS
  TypeOK
  CompletedIsPushed
  OutcomeOfLatestStart
  OutcomeMessagesAreTrue
  OutcomeMessageIsLast
  SuccessIsReported
PROPERTIES
  ImplementsLifecycle
  EveryBuildFinishes
CHECK_DEADLOCK FALSE
