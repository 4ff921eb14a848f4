CONSTANTS
  Names = {a, b}
  Replicas = {r}
  Leader = r
  MaxUid = 2
  DeletePolicies = {"background", "foreground"}
  NameReuse = FALSE
  StampSteps = {1}
  Prerequisites <- OnePrerequisite
  Dynamic = {a, b}
  BadQuantity = {b}
SPECIFICATION Spec
INVARIANTS
  TypeOK
  JobMountsItsCredentials
  LiveJobHasPrerequisites
