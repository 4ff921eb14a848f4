---------------------------- MODULE AuthProvider ----------------------------
(***************************************************************************)
(* How a build authenticates: BuildAndPush configures the hosts of the     *)
(* client, opens a session for the build and one for each push, and resets *)
(* the hosts.  During a session buildkit asks its dynamicAuthProvider, in  *)
(* handlers that run concurrently, for credentials, tokens and the key     *)
(* that vouches for tokens.                                                *)
(*                                                                         *)
(* With CloudAuth and RegistryConfigs this is the whole way from a CIB's   *)
(* registries section to the credentials that a registry is shown.         *)
(***************************************************************************)
EXTENDS RegistryConfigs

CONSTANTS
  MaxRequests,   \* bound: handlers that run during a session
  RequestHosts,  \* the hosts they are asked about
  MaxSessions    \* bound: sessions of one BuildAndPush

ASSUME AuthProviderAssumption == MaxRequests \in Nat /\ MaxSessions \in Nat

VARIABLES
  hosts,    \* the client: are its hosts configured?
  session,  \* the current session and the seeds of its provider
  request   \* request[r]: the r-th handler of the session

sessionVars == <<hosts, session, request>>

vars == <<authVars, configVars, sessionVars>>

Requests == 1..MaxRequests

RequestKinds == {"Credentials", "FetchToken", "TokenAuthority"}

RequestSteps == {"idle", "lookup", "get", "post", "seed", "answered", "failed", "dropped"}

NoRequest == [step |-> "idle"]

SessionTypeOK ==
  /\ hosts \in {"default", "configured", "reset"}
  /\ session.n \in 0..MaxSessions
  /\ session.open \in BOOLEAN
  /\ session.seeds \in [RequestHosts -> 0..MaxRequests]
  /\ \A r \in Requests : request[r].step \in RequestSteps

TypeOK == AuthTypeOK /\ ConfigTypeOK /\ SessionTypeOK

NewSession(n, open) == [n |-> n, open |-> open, seeds |-> [h \in RequestHosts |-> 0]]

Init ==
  /\ AuthInit
  /\ ConfigInit
  /\ hosts = "default"
  /\ session = NewSession(0, FALSE)
  /\ request = [r \in Requests |-> NoRequest]

ConfigureHosts ==
  /\ job.step = "configured"
  /\ hosts = "default"
  /\ hosts' = "configured"
  /\ UNCHANGED <<session, request>>

\* A session has a provider of its own, without seeds.
OpenSession ==
  /\ hosts = "configured"
  /\ ~session.open
  /\ session.n < MaxSessions
  /\ session' = NewSession(session.n + 1, TRUE)
  /\ request' = [r \in Requests |-> NoRequest]
  /\ UNCHANGED hosts

\* Handlers that still run have nobody to answer.
CloseSession ==
  /\ session.open
  /\ session' = [session EXCEPT !.open = FALSE]
  /\ request' = [r \in Requests |->
       IF request[r].step \in {"answered", "failed"} THEN request[r] ELSE [step |-> "dropped"]]
  /\ UNCHANGED hosts

\* Deferred by BuildAndPush, which may return after any of its sessions.
ResetHosts ==
  /\ hosts = "configured"
  /\ ~session.open
  /\ hosts' = "reset"
  /\ UNCHANGED <<session, request>>

(***************************************************************************)
(* credentials: those configured for the host, under the name that docker  *)
(* gives its hub; empty ones when the host is not configured.              *)
(***************************************************************************)
\* Mutant of ConfiguredHost: the hub goes by the name it is asked by.
AskedHost(host) == host

ConfiguredHost(host) ==
  IF host = "registry-1.docker.io" THEN "https://index.docker.io/v1/" ELSE host

Anonymous(host) == Credentials("none", host, 0)

HostCredentials(host) ==
  LET h == ConfiguredHost(host)
  IN IF hosts = "configured" /\ h \in DOMAIN configs THEN configs[h].auth ELSE Anonymous(h)

HasSecret(credentials) == credentials.from # "none"

Ask(r) ==
  /\ session.open
  /\ request[r].step = "idle"
  /\ \A q \in 1..(r - 1) : request[q].step # "idle"
  /\ \E kind \in RequestKinds, h \in RequestHosts :
       request' = [request EXCEPT ![r] =
         [step |-> "lookup", kind |-> kind, host |-> h, auth |-> Anonymous(h), key |-> 0]]
  /\ UNCHANGED <<hosts, session>>

LookUp(r) ==
  /\ request[r].step = "lookup"
  /\ request' = [request EXCEPT ![r].auth = HostCredentials(request[r].host),
       ![r].step = [Credentials |-> "answered", FetchToken |-> "get",
                    TokenAuthority |-> "seed"][request[r].kind]]
  /\ UNCHANGED <<hosts, session>>

\* FetchToken: with GET; with POST when there is a secret and GET is refused.
FetchToken(r) ==
  /\ \/ /\ request[r].step \in {"get", "post"}
        /\ \E step \in {"answered", "failed"} : request' = [request EXCEPT ![r].step = step]
     \/ /\ request[r].step = "get"
        /\ HasSecret(request[r].auth)
        /\ request' = [request EXCEPT ![r].step = "post"]
  /\ UNCHANGED <<hosts, session>>

(***************************************************************************)
(* getAuthorityKey: the key is made from the seed of the host, which       *)
(* getSeed draws under a mutex, or from nothing when there is no secret.   *)
(***************************************************************************)
FreshSeed == Max({session.seeds[h] : h \in RequestHosts}) + 1

\* Mutant of SeedOf: without the mutex the seed of another handler is missed.
SeedRaced(h) == FreshSeed

SeedOf(h) == IF session.seeds[h] = 0 THEN FreshSeed ELSE session.seeds[h]

TokenAuthority(r) ==
  /\ request[r].step = "seed"
  /\ session' = [session EXCEPT !.seeds[request[r].host] = SeedOf(request[r].host)]
  /\ request' = [request EXCEPT ![r].step = "answered",
       ![r].key = IF HasSecret(request[r].auth) THEN SeedOf(request[r].host) ELSE 0]
  /\ UNCHANGED hosts

Handle(r) == Ask(r) \/ LookUp(r) \/ FetchToken(r) \/ TokenAuthority(r)

BuildAndPush == ConfigureHosts \/ OpenSession \/ CloseSession \/ ResetHosts

Next ==
  \/ Authenticate /\ UNCHANGED <<configVars, sessionVars>>
  \/ Requeue /\ UNCHANGED <<configVars, sessionVars>>
  \/ job.step = "wait" /\ UserEdits /\ UNCHANGED <<configVars, sessionVars>>
  \/ BuildRegistryConfigs /\ UNCHANGED <<authVars, sessionVars>>
  \/ BuildAndPush /\ UNCHANGED <<authVars, configVars>>
  \/ \E r \in Requests : Handle(r) /\ UNCHANGED <<authVars, configVars>>

Spec == Init /\ [][Next]_vars

-----------------------------------------------------------------------------
(***************************************************************************)
(* Properties                                                              *)
(***************************************************************************)

(***************************************************************************)
(* buildRegistryConfigs: "explicit auth entries from the CR take strict    *)
(* precedence".  When it returns, exactly the hosts that the section names *)
(* or that one of its Secrets contains are configured, each as Expected,   *)
(* whatever the order of the entries.                                      *)
(***************************************************************************)
PrecedenceKept ==
  job.step = "configured" =>
    /\ DOMAIN configs = {h \in Hosts : Naming(h) \cup Containing(h) # {}}
    /\ \A h \in DOMAIN configs : configs[h] = Expected(h)

(***************************************************************************)
(* End to end: whatever a handler answers or asks a token with, during the *)
(* build or a push, is what the section says about that host, cloud        *)
(* credentials included, and nothing for a host it says nothing about.     *)
(* The section knows the hub of docker by the name of its index.           *)
(***************************************************************************)
RegistriesSeeTheirCredentials ==
  \A r \in Requests :
    request[r].step \in {"get", "post", "seed", "answered"} =>
      LET asked == request[r].host
          h == IF asked = "registry-1.docker.io" THEN "https://index.docker.io/v1/" ELSE asked
      IN request[r].auth =
           IF h \in Hosts /\ Naming(h) \cup Containing(h) # {} THEN Expected(h).auth
           ELSE Anonymous(h)

(***************************************************************************)
(* The controller and the job agree on cloud credentials: as long as the   *)
(* CIB is not edited in between, the Secret that the job mounts has every  *)
(* registry that the job looks for, even after reconciles that failed half *)
(* way and a Secret that was left by one of them.                          *)
(***************************************************************************)
DynamicEntriesAreMounted ==
  job.error = "notMounted" => edited

(***************************************************************************)
(* GetTokenAuthority and VerifyTokenAuthority are separate calls and may   *)
(* run together: in one session they derive the same key for a host, and   *)
(* never the same one for two hosts that have a secret.                    *)
(***************************************************************************)
AuthorityKeysAgree ==
  \A q, r \in Requests :
    /\ request[q].step = "answered" /\ request[q].kind = "TokenAuthority"
    /\ request[r].step = "answered" /\ request[r].kind = "TokenAuthority"
    => IF request[q].host = request[r].host
       THEN request[q].key = request[r].key
       ELSE request[q].key # request[r].key \/ request[q].key = 0
=============================================================================
