CONSTANTS
  Names = {a}
  Replicas = {r}
  Leader = r
  MaxUid = 2
  DeletePolicies = {"background", "foreground"}
  NameReuse = TRUE
  StampSteps = {1}
  Prerequisites <- TwoPrerequisites
  Dynamic = {}
  BadQuantity = {}
SPECIFICATION FairSpec
PROPERTIES
  EveryBuildGetsItsJob
  DeletedBuildLeavesNothing
  DeletionEnds
  
