CONSTANTS
  Replicas = {a, b}
  SchemaOf <- MCSchemaOf
  Schemas = {"old", "new"}
  CredSets = {{"acr"}, {"gcr"}, {"acr", "gce"}}
  AcrAttempts = 3
  Flags <- MCFlags
  MaxFaults = 3
  MaxDeletes = 1
SPECIFICATION Spec
INVARIANTS
  CrdInPlace
  RunsWithItsLoaders
PROPERTIES
  EveryReplicaStarts
CHECK_DEADLOCK FALSE
