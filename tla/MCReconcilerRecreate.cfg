CONSTANTS
  Names = {a}
  Replicas = {r}
  Leader = r
  MaxUid = 2
  DeletePolicies = {"background"}
  NameReuse = TRUE
  StampSteps = {1}
  Prerequisites <- AllPrerequisites
  Dynamic = {a}
  BadQuantity = {}
SPECIFICATION Spec
INVARIANTS
  LiveJobHasPrerequisites
