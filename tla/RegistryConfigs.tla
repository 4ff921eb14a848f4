-------------------------- MODULE RegistryConfigs --------------------------
(***************************************************************************)
(* The build job turns the registries section of its CIB into one          *)
(* configuration per host (buildRegistryConfigs): from inline credentials, *)
(* from a Secret, whose other hosts are taken along, from the mounted      *)
(* cloud credentials, or without authentication.                           *)
(***************************************************************************)
EXTENDS CloudAuth

VARIABLES
  job,      \* the build job in buildRegistryConfigs
  configs   \* configuredRegistries: a configuration for each of some hosts

configVars == <<job, configs>>

JobSteps == {"wait", "loop", "configured", "failed"}

Errors == {"", "invalid", "secret", "notInSecret", "notMounted"}

ConfigTypeOK ==
  /\ job \in [step : JobSteps, i : Nat, error : Errors]
  /\ DOMAIN configs \subseteq Hosts
  /\ \A h \in DOMAIN configs : configs[h].nonSSL \in BOOLEAN

ConfigInit ==
  /\ job = [step |-> "wait", i |-> 1, error |-> ""]
  /\ configs = <<>>

\* The Job exists once the controller is done; the process reads its CIB.
JobStarts ==
  /\ job.step = "wait"
  /\ auth.step = "done"
  /\ job' = [job EXCEPT !.step = "loop"]
  /\ UNCHANGED configs

ApiReg == registries[job.i]

Looping == job.step = "loop" /\ job.i <= Len(registries)

Fail(error) ==
  /\ job' = [job EXCEPT !.step = "failed", !.error = error]
  /\ UNCHANGED configs

\* Credentials that are found for the server of an entry override others.
Explicit(credentials, others) ==
  [h \in DOMAIN others \cup {ApiReg.server} |->
     IF h = ApiReg.server THEN [auth |-> credentials, nonSSL |-> ApiReg.nonSSL] ELSE others[h]]

Configure(new) ==
  /\ configs' = new
  /\ job' = [job EXCEPT !.i = @ + 1]

InvalidEntry ==
  /\ Looping
  /\ ~Validate(ApiReg.basicAuth)
  /\ Fail("invalid")

InlineEntry ==
  /\ Looping
  /\ Validate(ApiReg.basicAuth)
  /\ IsInline(ApiReg.basicAuth)
  /\ Configure(Explicit(Credentials("inline", ApiReg.server, job.i), configs))

(***************************************************************************)
(* A Secret: its credentials for the server of the entry, and for each of  *)
(* its other hosts that has no configuration yet.                          *)
(***************************************************************************)
SecretName == ApiReg.basicAuth.secretName

Implicit(h) == [auth |-> Credentials(SecretName, h, 0), nonSSL |-> FALSE]

\* Mutant of SecretConfigs: hosts that are configured are loaded as well.
SecretOverrides ==
  Explicit(Credentials(SecretName, ApiReg.server, 0),
    [h \in DOMAIN configs \cup SecretHosts[SecretName] |->
       IF h \in SecretHosts[SecretName] THEN Implicit(h) ELSE configs[h]])

SecretConfigs ==
  Explicit(Credentials(SecretName, ApiReg.server, 0),
    [h \in DOMAIN configs \cup SecretHosts[SecretName] |->
       IF h \in DOMAIN configs THEN configs[h] ELSE Implicit(h)])

SecretEntry ==
  /\ Looping
  /\ Validate(ApiReg.basicAuth)
  /\ ~IsInline(ApiReg.basicAuth)
  /\ IsSecret(ApiReg.basicAuth)
  /\ \/ ApiReg.server \in SecretHosts[SecretName] /\ Configure(SecretConfigs)
     \/ ApiReg.server \notin SecretHosts[SecretName] /\ Fail("notInSecret")
     \/ Fail("secret")   \* it cannot be fetched, or is not a docker config

DynamicEntry ==
  /\ Looping
  /\ Validate(ApiReg.basicAuth)
  /\ ~IsInline(ApiReg.basicAuth)
  /\ ~IsSecret(ApiReg.basicAuth)
  /\ ApiReg.dynamic
  /\ \/ ApiReg.server \in DOMAIN mounted /\ Configure(Explicit(mounted[ApiReg.server], configs))
     \/ ApiReg.server \notin DOMAIN mounted /\ Fail("notMounted")

PlainEntry ==
  /\ Looping
  /\ Validate(ApiReg.basicAuth)
  /\ ~IsInline(ApiReg.basicAuth)
  /\ ~IsSecret(ApiReg.basicAuth)
  /\ ~ApiReg.dynamic
  /\ Configure(Explicit(Credentials("none", ApiReg.server, 0), configs))

Configured ==
  /\ job.step = "loop"
  /\ job.i > Len(registries)
  /\ job' = [job EXCEPT !.step = "configured"]
  /\ UNCHANGED configs

BuildRegistryConfigs ==
  \/ JobStarts
  \/ InvalidEntry
  \/ InlineEntry
  \/ SecretEntry
  \/ DynamicEntry
  \/ PlainEntry
  \/ Configured

(***************************************************************************)
(* What a host should be configured with, said without a loop: by the last *)
(* entry that names it, else by the first Secret that an entry names and   *)
(* that contains it.                                                       *)
(***************************************************************************)
Naming(h) == {i \in DOMAIN registries : registries[i].server = h}

Containing(h) ==
  {i \in DOMAIN registries :
     /\ IsSecret(registries[i].basicAuth)
     /\ h \in SecretHosts[registries[i].basicAuth.secretName]}

SourceOf(e) ==
  IF IsInline(e.basicAuth) THEN "inline"
  ELSE IF IsSecret(e.basicAuth) THEN e.basicAuth.secretName
  ELSE IF e.dynamic THEN "cloud"
  ELSE "none"

Expected(h) ==
  IF Naming(h) # {}
  THEN LET i == Max(Naming(h))
           e == registries[i]
       IN [auth |-> Credentials(SourceOf(e), h, IF SourceOf(e) = "inline" THEN i ELSE 0),
           nonSSL |-> e.nonSSL]
  ELSE [auth |-> Credentials(registries[Min(Containing(h))].basicAuth.secretName, h, 0),
        nonSSL |-> FALSE]
=============================================================================
