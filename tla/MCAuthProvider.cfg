CONSTANTS
  Hosts <- MCHosts
  CloudOf <- MCCloudOf
  Loaders = {"acr", "gcr"}
  Specs <- MCSpecs
  Edits <- MCEdits
  SecretHosts <- MCSecretHosts
  MaxRestarts = 1
  MaxRequests = 2
  RequestHosts <- MCRequestHosts
  MaxSessions = 2
SPECIFICATION Spec
INVARIANTS
  TypeOK
  PrecedenceKept
  RegistriesSeeTheirCredentials
  DynamicEntriesAreMounted
  AuthorityKeysAgree
CHECK_DEADLOCK FALSE
