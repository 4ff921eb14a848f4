CONSTANTS
  Names = {a, b, c}
  Replicas = {r1, r2}
  MaxUid = 3
  DeletePolicies = {"background"}
  NameReuse = FALSE
  StampSteps = {1}
  Prerequisites <- NoPrerequisite
  Retention = 1
SYMMETRY Symmetry
SPECIFICATION Spec
INVARIANTS
  TypeOK
  OnlyFinishedCollected
  NewestKept
