----------------------------- MODULE CloudAuth -----------------------------
(***************************************************************************)
(* Where the controller takes part in the authentication of a build with   *)
(* registries: the registries section of a CIB, and the cloud credentials  *)
(* that checkCloudRegistrySecrets requests for it (internal/cloud) and     *)
(* leaves in a Secret, which the Job of the build mounts.                  *)
(*                                                                         *)
(* An entry of the section has a position, a server, its BasicAuth, and    *)
(* the flags dynamicCloudCredentials and nonSSL.  Credentials are known by *)
(* where they come from: a source, the host they are for, and for those    *)
(* written in the section itself the position of the entry.                *)
(***************************************************************************)
EXTENDS Integers, Sequences, FiniteSets, FiniteSetsExt, Functions

CONSTANTS
  Hosts,        \* hosts of registries, as written in entries and in secrets
  CloudOf,      \* CloudOf[h]: the cloud whose pattern host h matches, or "none"
  Loaders,      \* the clouds registered when the controller started
  Specs,        \* the registries sections that a CIB may have
  Edits,        \* the sections that a user may edit it into
  SecretHosts,  \* SecretHosts[s]: the hosts in the auths of Secret s
  MaxRestarts   \* bound: reconciles that start again after a failure

Clouds == {"ecr", "acr", "gcr"}

ASSUME CloudAuthAssumption ==
  /\ CloudOf \in [Hosts -> Clouds \cup {"none"}]
  /\ Loaders \subseteq Clouds
  /\ \A s \in DOMAIN SecretHosts : SecretHosts[s] \subseteq Hosts
  /\ MaxRestarts \in Nat

VARIABLES
  registries,  \* spec.registries of the CIB
  edited,      \* has a user edited it?
  auth,        \* the controller in checkCloudRegistrySecrets
  mounted      \* the credentials in the Secret of the build, NoSecret before

authVars == <<registries, edited, auth, mounted>>

NoSecret == <<>>

Credentials(source, host, position) ==
  [from |-> source, host |-> host, entry |-> position]

(***************************************************************************)
(* BasicAuthConfig: which of its four fields are set.                      *)
(***************************************************************************)
BasicAuths ==
  [username : BOOLEAN, password : BOOLEAN, secretName : DOMAIN SecretHosts \cup {""},
   secretNamespace : BOOLEAN]

IsInline(b) == b.username /\ b.password

IsSecret(b) == b.secretName # "" /\ b.secretNamespace

Validate(b) ==
  \/ ~b.username /\ ~b.password /\ b.secretName = "" /\ ~b.secretNamespace
  \/ /\ b.username = b.password
     /\ (b.secretName # "") = b.secretNamespace
     /\ ~(IsInline(b) /\ IsSecret(b))

Entries ==
  [server : Hosts, basicAuth : BasicAuths, dynamic : BOOLEAN, nonSSL : BOOLEAN]

ASSUME SectionsAssumption == Specs \subseteq Seq(Entries) /\ Edits \subseteq Seq(Entries)

\* A source is known by its name: a Secret has none of the other sources' names.
ASSUME SourcesAssumption == DOMAIN SecretHosts \cap {"", "inline", "cloud", "none"} = {}

(***************************************************************************)
(* The calls that the loader of a cloud makes, in order: the token of the  *)
(* controller itself, the challenge of the registry, the exchange of one   *)
(* for the other.  Only the first call of ACR is tried again.              *)
(***************************************************************************)
Challenge == "ChallengeLoginServer"

\* authenticate, of each cloud.  What the calls bring is not told apart.
ecrCalls == <<"GetAuthorizationToken">>

acrCalls == <<"EnsureFresh", Challenge, "GetFromExchange">>

gcrCalls == <<"Token", Challenge, "GetToken">>

Calls == [ecr |-> ecrCalls, acr |-> acrCalls, gcr |-> gcrCalls]

\* Mutant of Attempts: retry tries once more.
OneMoreAttempt(call) == IF call = "EnsureFresh" THEN 4 ELSE 1

Attempts(call) == IF call = "EnsureFresh" THEN 3 ELSE 1

(***************************************************************************)
(* auth.i is the entry looked at, auth.call the next call of its loader    *)
(* (0 before the loader is chosen), auth.tried the failed attempts of that *)
(* call, and auth.auths the hosts that have their credentials so far.      *)
(***************************************************************************)
AuthSteps == {"loop", "loader", "secret", "failed", "done"}

AuthTypeOK ==
  /\ registries \in Seq(Entries)
  /\ edited \in BOOLEAN
  /\ auth \in [step : AuthSteps, i : Nat, call : 0..3, tried : 0..2,
               auths : SUBSET Hosts, restarts : 0..MaxRestarts]
  /\ DOMAIN mounted \subseteq Hosts

AuthStart(restarts) ==
  [step |-> "loop", i |-> 1, call |-> 0, tried |-> 0, auths |-> {}, restarts |-> restarts]

AuthInit ==
  /\ registries \in Specs
  /\ edited = FALSE
  /\ auth = AuthStart(0)
  /\ mounted = NoSecret

Entry == registries[auth.i]

SkipEntry ==
  /\ auth.step = "loop"
  /\ auth.i <= Len(registries)
  /\ ~Entry.dynamic
  /\ auth' = [auth EXCEPT !.i = @ + 1]
  /\ UNCHANGED <<registries, edited, mounted>>

(***************************************************************************)
(* RetrieveAuthorization: the loader registered for the server, or an      *)
(* error when there is none.                                               *)
(***************************************************************************)
RetrieveAuthorization ==
  /\ auth.step = "loop"
  /\ auth.i <= Len(registries)
  /\ Entry.dynamic
  /\ auth' = IF CloudOf[Entry.server] \in Loaders
             THEN [auth EXCEPT !.step = "loader", !.call = 1, !.tried = 0]
             ELSE [auth EXCEPT !.step = "failed"]
  /\ UNCHANGED <<registries, edited, mounted>>

LoaderCalls == Calls[CloudOf[Entry.server]]

CallSucceeds ==
  /\ auth.step = "loader"
  /\ auth' = IF auth.call < Len(LoaderCalls)
             THEN [auth EXCEPT !.call = @ + 1, !.tried = 0]
             ELSE [auth EXCEPT !.step = "loop", !.i = @ + 1, !.call = 0, !.tried = 0,
                               !.auths = @ \cup {Entry.server}]
  /\ UNCHANGED <<registries, edited, mounted>>

\* Mutant of CallFails: a registry that cannot be authenticated is left out.
CallFailsLeftOut ==
  /\ auth.step = "loader"
  /\ auth' = IF auth.tried + 1 < Attempts(LoaderCalls[auth.call])
             THEN [auth EXCEPT !.tried = @ + 1]
             ELSE [auth EXCEPT !.step = "loop", !.i = @ + 1, !.call = 0, !.tried = 0]
  /\ UNCHANGED <<registries, edited, mounted>>

\* Also an ECR answer without exactly one token: a nil pointer that ends the
\* controller, which reconciles the build again when it is restarted.
CallFails ==
  /\ auth.step = "loader"
  /\ auth' = IF auth.tried + 1 < Attempts(LoaderCalls[auth.call])
             THEN [auth EXCEPT !.tried = @ + 1]
             ELSE [auth EXCEPT !.step = "failed"]
  /\ UNCHANGED <<registries, edited, mounted>>

LoopEnds ==
  /\ auth.step = "loop"
  /\ auth.i > Len(registries)
  /\ auth' = [auth EXCEPT !.step = IF auth.auths = {} THEN "done" ELSE "secret"]
  /\ UNCHANGED <<registries, edited, mounted>>

\* withOwnedResource: a Secret that is there already is left as it is.  A later
\* step of the reconcile may fail, and everything is done again.
CreateSecret ==
  /\ auth.step = "secret"
  /\ mounted' = IF mounted # NoSecret THEN mounted
                ELSE [h \in auth.auths |-> Credentials("cloud", h, 0)]
  /\ \E step \in {"done", "failed"} : auth' = [auth EXCEPT !.step = step]
  /\ UNCHANGED <<registries, edited>>

CreateSecretFails ==
  /\ auth.step = "secret"
  /\ auth' = [auth EXCEPT !.step = "failed"]
  /\ UNCHANGED <<registries, edited, mounted>>

\* The CIB is queued again, and read again.
Requeue ==
  /\ auth.step = "failed"
  /\ auth.restarts < MaxRestarts
  /\ auth' = AuthStart(auth.restarts + 1)
  /\ UNCHANGED <<registries, edited, mounted>>

\* An edit is seen by the next reconcile; one that runs has a copy, which is not
\* kept here: edits are between reconciles, or before the Job reads the CIB.
UserEdits ==
  /\ auth.step \in {"failed", "done"}
  /\ ~edited
  /\ registries' \in Edits
  /\ edited' = TRUE
  /\ UNCHANGED <<auth, mounted>>

Authenticate ==
  \/ SkipEntry
  \/ RetrieveAuthorization
  \/ CallSucceeds
  \/ CallFails
  \/ LoopEnds
  \/ CreateSecret
  \/ CreateSecretFails
=============================================================================
