CONSTANTS
  Names = {a, b}
  Replicas = {r1, r2}
  MaxUid = 2
  DeletePolicies = {}
  NameReuse = FALSE
  StampSteps = {0, 1}
  Prerequisites <- NoPrerequisite
  Retention = 1
SPECIFICATION FairSpec
PROPERTIES
  Converges
