------------------------- MODULE AuthProviderProofs -------------------------
(***************************************************************************)
(* The way of the credentials of a build, from the registries section of   *)
(* its CIB to the registries, for any sections, Secrets, clouds, requests  *)
(* and sessions.                                                           *)
(*                                                                         *)
(* The loop of checkCloudRegistrySecrets has found, at every entry, the    *)
(* credentials of the dynamic entries before it (MountInv); the loop of    *)
(* buildRegistryConfigs has configured, at every entry, what the entries   *)
(* before it say (LoopInv); the handlers of a session look the hosts up    *)
(* while they are configured (RequestInv), and the seeds that they draw    *)
(* belong to one host each (SeedInv).                                      *)
(***************************************************************************)
EXTENDS AuthProvider, FiniteSetTheorems, TLAPS

(***************************************************************************)
(* checkCloudRegistrySecrets: while a loader is called the section is the  *)
(* one that the loop is in.                                                *)
(***************************************************************************)
AuthInv ==
  /\ auth.i >= 1
  /\ auth.step = "loader" =>
       /\ auth.i <= Len(registries)
       /\ CloudOf[Entry.server] \in Loaders
       /\ auth.call \in 1..Len(LoaderCalls)
  /\ job.step # "wait" => auth.step = "done"

\* The dynamic entries before position n, or all of them.
DynamicBefore(n) == {i \in DOMAIN registries : i < n /\ registries[i].dynamic}

Servers(S) == {registries[i].server : i \in S}

(***************************************************************************)
(* As long as nobody edits the section, a loop that has passed an entry    *)
(* has the credentials of its server, and a Secret has those of all.       *)
(***************************************************************************)
MountInv ==
  /\ \A h \in DOMAIN mounted : mounted[h] = Credentials("cloud", h, 0)
  /\ ~edited =>
       /\ auth.step \in {"loop", "loader", "secret"} =>
            Servers(DynamicBefore(auth.i)) \subseteq auth.auths
       /\ auth.step = "secret" => auth.i > Len(registries)
       /\ mounted # NoSecret \/ auth.step = "done" =>
            Servers(DynamicBefore(Len(registries) + 1)) \subseteq DOMAIN mounted
       /\ job.error # "notMounted"

(***************************************************************************)
(* buildRegistryConfigs after the entries before position n: the positions *)
(* that name host h, and those whose Secret contains it.                   *)
(***************************************************************************)
Added(e) == IF IsSecret(e.basicAuth) THEN SecretHosts[e.basicAuth.secretName] ELSE {}

NamedBefore(h, n) == {i \in DOMAIN registries : i < n /\ registries[i].server = h}

HeldBefore(h, n) == {i \in DOMAIN registries : i < n /\ h \in Added(registries[i])}

FromEntry(i, h) ==
  LET e == registries[i]
  IN [auth |-> Credentials(SourceOf(e), h, IF SourceOf(e) = "inline" THEN i ELSE 0),
      nonSSL |-> e.nonSSL]

FromSecret(i, h) ==
  [auth |-> Credentials(registries[i].basicAuth.secretName, h, 0), nonSSL |-> FALSE]

ByLastName(h, n) ==
  \E i \in NamedBefore(h, n) :
    /\ \A j \in NamedBefore(h, n) : j <= i
    /\ configs[h] = FromEntry(i, h)

ByFirstSecret(h, n) ==
  /\ NamedBefore(h, n) = {}
  /\ \E i \in HeldBefore(h, n) :
       /\ \A j \in HeldBefore(h, n) : i <= j
       /\ configs[h] = FromSecret(i, h)

LoopInv ==
  /\ job \in [step : JobSteps, i : Nat, error : Errors]
  /\ job.i >= 1
  /\ job.step = "wait" => job.i = 1 /\ DOMAIN configs = {}
  /\ job.step = "configured" => job.i > Len(registries)
  /\ DOMAIN configs = {h \in Hosts : NamedBefore(h, job.i) \cup HeldBefore(h, job.i) # {}}
  /\ \A h \in DOMAIN configs : ByLastName(h, job.i) \/ ByFirstSecret(h, job.i)

(***************************************************************************)
(* What a registry should be shown for a host that buildkit asks about.    *)
(***************************************************************************)
Due(host) ==
  LET h == ConfiguredHost(host)
  IN IF h \in Hosts /\ Naming(h) \cup Containing(h) # {} THEN Expected(h).auth
     ELSE Anonymous(h)

Running == {"lookup", "get", "post", "seed"}

\* A handler that has been called.
Called(q) ==
  /\ q = [step |-> q.step, kind |-> q.kind, host |-> q.host, auth |-> q.auth, key |-> q.key]
  /\ q.kind \in RequestKinds
  /\ q.host \in RequestHosts

\* The handlers: they run in an open session, while the hosts are configured.
RequestInv ==
  /\ hosts \in {"default", "configured", "reset"}
  /\ hosts # "default" => job.step = "configured"
  /\ session \in [n : 0..MaxSessions, open : BOOLEAN, seeds : [RequestHosts -> Nat]]
  /\ session.open => hosts = "configured"
  /\ DOMAIN request = Requests
  /\ \A r \in Requests :
       /\ request[r].step \in RequestSteps
       /\ request[r].step \in Running => session.open
       /\ request[r].step \in Running \cup {"answered", "failed"} => Called(request[r])
       /\ request[r].step = "seed" => request[r].kind = "TokenAuthority"
       /\ request[r].step \in {"get", "post"} => request[r].kind = "FetchToken"
       /\ request[r].step \in {"get", "post", "seed", "answered"} =>
            job.step = "configured" /\ request[r].auth = Due(request[r].host)

\* The handlers that have a key.
Keyed == {r \in Requests : request[r].step = "answered" /\ request[r].kind = "TokenAuthority"}

(***************************************************************************)
(* The seeds: no two hosts share one, a key is made from the seed of its   *)
(* host, and there are no more seeds than handlers that have a key.        *)
(***************************************************************************)
SeedInv ==
  /\ \A g, h \in RequestHosts : session.seeds[g] = session.seeds[h] /\ g # h => session.seeds[g] = 0
  /\ RequestHosts # {} =>
       \E h \in RequestHosts : \A g \in RequestHosts : session.seeds[g] <= session.seeds[h]
  /\ \A h \in RequestHosts : session.seeds[h] <= Cardinality(Keyed)
  /\ \A r \in Keyed :
       /\ session.seeds[request[r].host] # 0
       /\ request[r].key = IF HasSecret(request[r].auth)
                           THEN session.seeds[request[r].host] ELSE 0

IInv == AuthTypeOK /\ AuthInv /\ MountInv /\ LoopInv /\ RequestInv /\ SeedInv
-----------------------------------------------------------------------------
(***************************************************************************)
(* The controller                                                          *)
(***************************************************************************)

(***************************************************************************)
(* The calls of the loaders: no more than three, and no more than three    *)
(* attempts at any.                                                        *)
(***************************************************************************)
LEMMA LoaderTables ==
  /\ \A c \in Clouds : Len(Calls[c]) \in 1..3
  /\ \A call : Attempts(call) \in 1..3
  BY DEF Clouds, Calls, ecrCalls, acrCalls, gcrCalls, Attempts

(***************************************************************************)
(* An entry of the section is well typed.                                  *)
(***************************************************************************)
LEMMA EntryType ==
  ASSUME AuthTypeOK, NEW i \in DOMAIN registries
  PROVE  registries[i] \in Entries
  BY DEF AuthTypeOK

(***************************************************************************)
(* What a step of the loop changes of auth.                                *)
(***************************************************************************)
AuthRecords ==
  [step : AuthSteps, i : Nat, call : 0..3, tried : 0..2,
   auths : SUBSET Hosts, restarts : 0..MaxRestarts]

(***************************************************************************)
(* An update of auth, one field or several, is well typed when the new     *)
(* values are.                                                             *)
(***************************************************************************)
LEMMA AuthUpdates ==
  ASSUME NEW a \in AuthRecords, NEW step \in AuthSteps, NEW i \in Nat, NEW c \in 0..3,
         NEW t \in 0..2, NEW S \in SUBSET Hosts
  PROVE  /\ [a EXCEPT !.step = step] \in AuthRecords
         /\ [a EXCEPT !.step = step, !.call = c, !.tried = t] \in AuthRecords
         /\ [a EXCEPT !.call = c, !.tried = t] \in AuthRecords
         /\ [a EXCEPT !.tried = t] \in AuthRecords
         /\ [a EXCEPT !.step = step, !.i = i, !.call = c, !.tried = t, !.auths = S] \in AuthRecords
  BY Zenon DEF AuthRecords

(***************************************************************************)
(* A step of checkCloudRegistrySecrets keeps its types.                    *)
(***************************************************************************)
LEMMA AuthenticateType ==
  ASSUME IInv, Authenticate \/ Requeue, UNCHANGED <<configVars, sessionVars>>
  PROVE  AuthTypeOK' /\ AuthInv'
<1> USE DEF IInv
<1>0. UNCHANGED <<registries, edited, job>>
  BY Zenon DEF Authenticate, SkipEntry, RetrieveAuthorization, CallSucceeds, CallFails, LoopEnds,
         CreateSecret, CreateSecretFails, Requeue, configVars
<1>1. /\ auth \in AuthRecords
      /\ auth.i >= 1 /\ Len(registries) \in Nat
  BY DEF AuthTypeOK, AuthInv, AuthRecords
<1>a. /\ auth.i \in Nat /\ auth.call \in 0..3 /\ auth.tried \in 0..2 /\ auth.auths \in SUBSET Hosts
      /\ auth.i + 1 \in Nat /\ auth.i + 1 >= 1
      /\ 0 \in 0..3 /\ 1 \in 0..3 /\ 0 \in 0..2 /\ AuthSteps = {"loop", "loader", "secret", "failed", "done"}
  BY <1>1 DEF AuthRecords, AuthSteps
<1>b. auth' \in AuthRecords /\ DOMAIN mounted' \subseteq Hosts => AuthTypeOK'
  BY Zenon, <1>0 DEF AuthTypeOK, AuthRecords
<1>2. auth.i <= Len(registries) => auth.i \in DOMAIN registries /\ Entry \in Entries
  BY <1>1, EntryType DEF AuthTypeOK, Entry
<1>3. CASE SkipEntry
  BY <1>0, <1>1, <1>3 DEF SkipEntry, AuthTypeOK, AuthInv, AuthSteps, AuthRecords
<1>4. CASE RetrieveAuthorization
  <2>1. Entry \in Entries /\ Len(registries) \in Nat
    BY Zenon, <1>1, <1>2, <1>4 DEF RetrieveAuthorization
  <2>2. CloudOf[Entry.server] \in Loaders => Len(LoaderCalls) \in 1..3
    BY Zenon, <2>1, CloudAuthAssumption, LoaderTables DEF LoaderCalls
  <2>3. auth'.i = auth.i /\ Entry' = Entry /\ LoaderCalls' = LoaderCalls
    BY <1>0, <1>1, <1>4 DEF RetrieveAuthorization, Entry, LoaderCalls
  <2>4. auth' \in AuthRecords
    BY <1>1, <1>4, <1>a, AuthUpdates, Zenon DEF RetrieveAuthorization
  <2>5. auth'.step = "loader" => CloudOf[Entry.server] \in Loaders /\ auth'.call = 1
    BY Zenon, <1>1, <1>4 DEF RetrieveAuthorization, AuthRecords
  <2>6. \A n \in 1..3 : 1 \in 1..n
    OBVIOUS
  <2>7. auth'.step = "loader" => auth'.call \in 1..Len(LoaderCalls)
    BY <2>2, <2>5, <2>6, Zenon
  <2>8. AuthTypeOK'
    BY Zenon, <1>4, <1>b, <2>4 DEF RetrieveAuthorization, AuthTypeOK
  <2>9. AuthInv'
    BY Zenon, <1>0, <1>1, <1>4, <2>3, <2>5, <2>7 DEF RetrieveAuthorization, AuthInv
  <2> QED
    BY Zenon, <2>8, <2>9
<1>5. CASE CallSucceeds
  <2>1. /\ auth.i <= Len(registries) /\ Entry \in Entries /\ CloudOf[Entry.server] \in Loaders
        /\ auth.call \in 1..Len(LoaderCalls)
    BY Zenon, <1>2, <1>5 DEF CallSucceeds, AuthInv
  <2>2. Len(LoaderCalls) \in 1..3
    BY Zenon, <2>1, CloudAuthAssumption, LoaderTables DEF LoaderCalls
  <2>3. Entry.server \in Hosts
    BY Zenon, <2>1 DEF Entries
  <2>4. CASE auth.call < Len(LoaderCalls)
    <3>1. auth' = [auth EXCEPT !.call = @ + 1, !.tried = 0]
      BY Zenon, <1>5, <2>4 DEF CallSucceeds
    <3>2. auth'.i = auth.i /\ Entry' = Entry /\ LoaderCalls' = LoaderCalls
      BY <1>0, <1>1, <3>1 DEF Entry, LoaderCalls
    <3>3. \A n \in 1..3 : \A c \in 1..n : c < n => c + 1 \in 1..3 /\ c + 1 \in 1..n
      OBVIOUS
    <3>4. auth.call + 1 \in 1..3 /\ auth.call + 1 \in 1..Len(LoaderCalls)
      BY Zenon, <2>1, <2>2, <2>4, <3>3
    <3>5. auth' \in AuthRecords
      <4>1. auth.call + 1 \in 0..3
        BY <3>4
      <4> QED
        BY <1>1, <1>a, <3>1, <4>1, AuthUpdates, Zenon
    <3>6. auth'.step = "loader" /\ auth'.call = auth.call + 1
      BY Zenon, <1>1, <1>5, <3>1 DEF CallSucceeds, AuthRecords
    <3>7. AuthTypeOK'
      BY Zenon, <1>5, <1>b, <3>5 DEF CallSucceeds, AuthTypeOK
    <3>8. AuthInv'
      BY Zenon, <1>0, <1>1, <1>5, <2>1, <3>2, <3>4, <3>6 DEF AuthInv, CallSucceeds
    <3> QED
      BY Zenon, <3>7, <3>8
  <2>5. CASE ~(auth.call < Len(LoaderCalls))
    <3>1. auth' = [auth EXCEPT !.step = "loop", !.i = @ + 1, !.call = 0, !.tried = 0,
                               !.auths = @ \cup {Entry.server}]
      BY Zenon, <1>5, <2>5 DEF CallSucceeds
    <3>2. auth.auths \cup {Entry.server} \in SUBSET Hosts
      BY Zenon, <1>a, <2>3
    <3>3. auth' \in AuthRecords
      BY <1>1, <1>a, <3>1, <3>2, AuthUpdates, Zenon
    <3>4. auth'.step = "loop" /\ auth'.i = auth.i + 1
      BY Zenon, <1>1, <3>1 DEF AuthRecords
    <3>5. AuthTypeOK'
      BY Zenon, <1>5, <1>b, <3>3 DEF CallSucceeds, AuthTypeOK
    <3>6. AuthInv'
      BY Zenon, <1>0, <1>5, <1>a, <3>4 DEF AuthInv, CallSucceeds
    <3> QED
      BY Zenon, <3>5, <3>6
  <2> QED
    BY Zenon, <2>4, <2>5
<1>6. CASE CallFails
  <2>1. CASE auth.tried + 1 < Attempts(LoaderCalls[auth.call])
    <3>1. auth' = [auth EXCEPT !.tried = @ + 1]
      BY Zenon, <1>6, <2>1 DEF CallFails
    <3>2. auth'.i = auth.i /\ auth'.call = auth.call /\ Entry' = Entry /\ LoaderCalls' = LoaderCalls
      BY <1>0, <1>1, <3>1 DEF Entry, LoaderCalls
    <3>3. auth.tried + 1 \in 0..2
      <4>1. Attempts(LoaderCalls[auth.call]) \in 1..3
        BY LoaderTables, Zenon
      <4> QED
        BY <1>a, <2>1, <4>1
    <3>4. auth' \in AuthRecords
      BY <1>1, <1>a, <3>1, <3>3, AuthUpdates, Zenon
    <3>5. AuthTypeOK'
      BY Zenon, <1>6, <1>b, <3>4 DEF CallFails, AuthTypeOK
    <3>6. AuthInv'
      BY Zenon, <1>0, <1>1, <1>6, <3>2 DEF AuthInv, CallFails
    <3> QED
      BY Zenon, <3>5, <3>6
  <2>2. CASE ~(auth.tried + 1 < Attempts(LoaderCalls[auth.call]))
    <3>1. auth' = [auth EXCEPT !.step = "failed"]
      BY Zenon, <1>6, <2>2 DEF CallFails
    <3>2. auth' \in AuthRecords
      BY <1>1, <1>a, <3>1, AuthUpdates, Zenon
    <3>3. AuthTypeOK'
      BY Zenon, <1>6, <1>b, <3>2 DEF CallFails, AuthTypeOK
    <3>4. AuthInv'
      BY Zenon, <1>0, <1>1, <1>6, <3>1 DEF AuthInv, CallFails, AuthRecords
    <3> QED
      BY Zenon, <3>3, <3>4
  <2> QED
    BY Zenon, <2>1, <2>2
<1>7. CASE LoopEnds
  BY Zenon, <1>0, <1>1, <1>7 DEF LoopEnds, AuthTypeOK, AuthInv, AuthSteps, AuthRecords
<1>8. CASE CreateSecret
  <2>1. DOMAIN mounted' \subseteq Hosts
    BY Zenon, <1>1, <1>8 DEF CreateSecret, AuthTypeOK
  <2> QED
    BY Zenon, <1>0, <1>1, <1>8, <2>1 DEF CreateSecret, AuthTypeOK, AuthInv, AuthSteps, AuthRecords
<1>9. CASE CreateSecretFails
  BY Zenon, <1>0, <1>1, <1>9 DEF CreateSecretFails, AuthTypeOK, AuthInv, AuthSteps, AuthRecords
<1>10. CASE Requeue
  BY <1>0, <1>1, <1>10, CloudAuthAssumption
  DEF Requeue, AuthStart, AuthTypeOK, AuthInv, AuthSteps, AuthRecords
<1> QED
  BY Zenon, <1>3, <1>4, <1>5, <1>6, <1>7, <1>8, <1>9, <1>10 DEF Authenticate

(***************************************************************************)
(* The loop has one more entry behind it: it is there, and if it is        *)
(* dynamic its server counts.                                              *)
(***************************************************************************)
LEMMA OneMoreDynamic ==
  ASSUME AuthTypeOK, NEW n \in DOMAIN registries, NEW S, Servers(DynamicBefore(n)) \subseteq S,
         registries[n].dynamic => registries[n].server \in S
  PROVE  Servers(DynamicBefore(n + 1)) \subseteq S
<1>1. ASSUME NEW i \in DynamicBefore(n + 1) PROVE registries[i].server \in S
  <2>1. i \in DOMAIN registries /\ i < n + 1 /\ registries[i].dynamic /\ i \in Nat /\ n \in Nat
    BY <1>1 DEF DynamicBefore, AuthTypeOK
  <2>2. CASE i = n
    BY Zenon, <2>1, <2>2
  <2>3. CASE i < n
    <3>1. i \in DynamicBefore(n)
      BY Zenon, <2>1, <2>3 DEF DynamicBefore
    <3> QED
      BY <3>1, Zenon DEF Servers
  <2> QED
    BY <2>1, <2>2, <2>3
<1> QED
  BY <1>1, Zenon DEF Servers

(***************************************************************************)
(* Past the last entry, the loop has seen every dynamic one.               *)
(***************************************************************************)
LEMMA AllDynamic ==
  ASSUME AuthTypeOK, NEW n \in Nat, n > Len(registries)
  PROVE  DynamicBefore(n) = DynamicBefore(Len(registries) + 1)
  BY DEF DynamicBefore, AuthTypeOK

(***************************************************************************)
(* A step of checkCloudRegistrySecrets collects the credentials of every   *)
(* dynamic entry, and leaves a Secret of an earlier attempt, which has     *)
(* them all, as it is.                                                     *)
(***************************************************************************)
LEMMA AuthenticateMount ==
  ASSUME IInv, Authenticate \/ Requeue, UNCHANGED <<configVars, sessionVars>>
  PROVE  MountInv'
<1> USE DEF IInv
<1>0. UNCHANGED <<registries, edited, job>>
  BY Zenon DEF Authenticate, SkipEntry, RetrieveAuthorization, CallSucceeds, CallFails, LoopEnds,
         CreateSecret, CreateSecretFails, Requeue, configVars
<1>1. auth \in AuthRecords /\ auth.i \in Nat /\ auth.i >= 1 /\ Len(registries) \in Nat
  BY DEF AuthTypeOK, AuthInv, AuthRecords
<1>2. auth.i <= Len(registries) => auth.i \in DOMAIN registries
  BY <1>1 DEF AuthTypeOK
<1>3. \A n : DynamicBefore(n)' = DynamicBefore(n)
  BY Zenon, <1>0 DEF DynamicBefore
<1>4. \A S : Servers(S)' = Servers(S)
  BY Zenon, <1>0 DEF Servers
<1>5. CASE SkipEntry
  <2>1. auth'.step = "loop" /\ auth'.i = auth.i + 1 /\ auth'.auths = auth.auths /\ mounted' = mounted
    BY Zenon, <1>1, <1>5 DEF SkipEntry, AuthRecords
  <2>2. ~edited => Servers(DynamicBefore(auth.i + 1)) \subseteq auth.auths
    BY Zenon, <1>2, <1>5, OneMoreDynamic DEF SkipEntry, MountInv, Entry
  <2> QED
    BY <1>0, <1>3, <1>4, <1>5, <2>1, <2>2 DEF MountInv, SkipEntry
<1>6. CASE RetrieveAuthorization
  <2>1. /\ auth'.step \in {"loader", "failed"} /\ auth'.i = auth.i /\ auth'.auths = auth.auths
        /\ mounted' = mounted
    BY Zenon, <1>1, <1>6 DEF RetrieveAuthorization, AuthRecords
  <2> QED
    BY <1>0, <1>3, <1>4, <1>6, <2>1 DEF MountInv, RetrieveAuthorization
<1>7. CASE CallSucceeds
  <2>1. CASE auth.call < Len(LoaderCalls)
    <3>1. auth'.step = "loader" /\ auth'.i = auth.i /\ auth'.auths = auth.auths /\ mounted' = mounted
      BY Zenon, <1>1, <1>7, <2>1 DEF CallSucceeds, AuthRecords
    <3> QED
      BY <1>0, <1>3, <1>4, <1>7, <3>1 DEF MountInv, CallSucceeds
  <2>2. CASE ~(auth.call < Len(LoaderCalls))
    <3>1. /\ auth'.step = "loop" /\ auth'.i = auth.i + 1
          /\ auth'.auths = auth.auths \cup {Entry.server} /\ mounted' = mounted
      BY Zenon, <1>1, <1>7, <2>2 DEF CallSucceeds, AuthRecords
    <3>2. auth.i \in DOMAIN registries
      BY Zenon, <1>2, <1>7 DEF CallSucceeds, AuthInv
    <3>3. ~edited => Servers(DynamicBefore(auth.i + 1)) \subseteq auth'.auths
      BY Zenon, <1>7, <3>1, <3>2, OneMoreDynamic DEF CallSucceeds, MountInv, Entry
    <3> QED
      BY <1>0, <1>3, <1>4, <1>7, <3>1, <3>3 DEF MountInv, CallSucceeds
  <2> QED
    BY Zenon, <2>1, <2>2
<1>8. CASE CallFails
  <2>1. /\ auth'.step \in {"loader", "failed"} /\ auth'.i = auth.i /\ auth'.auths = auth.auths
        /\ mounted' = mounted
    BY Zenon, <1>1, <1>8 DEF CallFails, AuthRecords
  <2> QED
    BY <1>0, <1>3, <1>4, <1>8, <2>1 DEF MountInv, CallFails
<1>9. CASE LoopEnds
  <2>1. /\ auth'.step = IF auth.auths = {} THEN "done" ELSE "secret"
        /\ auth'.i = auth.i /\ auth'.auths = auth.auths /\ mounted' = mounted
    BY Zenon, <1>1, <1>9 DEF LoopEnds, AuthRecords
  <2>2. DynamicBefore(auth.i) = DynamicBefore(Len(registries) + 1)
    BY Zenon, <1>1, <1>9, AllDynamic DEF LoopEnds
  <2> QED
    BY <1>0, <1>3, <1>4, <1>9, <2>1, <2>2 DEF MountInv, LoopEnds
<1>10. CASE CreateSecret
  <2>1. /\ auth'.step \in {"done", "failed"} /\ auth'.i = auth.i /\ auth'.auths = auth.auths
    BY Zenon, <1>1, <1>10 DEF CreateSecret, AuthRecords
  <2>2. ~edited => DynamicBefore(auth.i) = DynamicBefore(Len(registries) + 1)
    BY Zenon, <1>1, <1>10, AllDynamic DEF CreateSecret, MountInv
  <2>3. CASE mounted # NoSecret
    BY <1>0, <1>3, <1>4, <1>10, <2>1, <2>3 DEF MountInv, CreateSecret
  <2>4. CASE mounted = NoSecret
    <3>1. mounted' = [h \in auth.auths |-> Credentials("cloud", h, 0)]
      BY Zenon, <1>10, <2>4 DEF CreateSecret
    <3> QED
      BY <1>0, <1>3, <1>4, <1>10, <2>1, <2>2, <3>1 DEF MountInv, CreateSecret
  <2> QED
    BY Zenon, <2>3, <2>4
<1>11. CASE CreateSecretFails
  <2>1. auth'.step = "failed" /\ mounted' = mounted
    BY Zenon, <1>1, <1>11 DEF CreateSecretFails, AuthRecords
  <2> QED
    BY <1>0, <1>3, <1>4, <1>11, <2>1 DEF MountInv, CreateSecretFails
<1>12. CASE Requeue
  <2>1. auth'.step = "loop" /\ auth'.i = 1 /\ mounted' = mounted
    BY Zenon, <1>12 DEF Requeue, AuthStart
  <2>2. DynamicBefore(1) = {}
    BY DEF DynamicBefore, AuthTypeOK
  <2>3. Servers(DynamicBefore(1)) = {}
    BY Zenon, <2>2 DEF Servers
  <2>4. Servers(DynamicBefore(auth.i))' = {}
    BY Zenon, <1>3, <1>4, <2>1, <2>3
  <2>5. Servers(DynamicBefore(Len(registries) + 1))' = Servers(DynamicBefore(Len(registries) + 1))
    BY Zenon, <1>0, <1>3, <1>4
  <2> QED
    BY Zenon, <1>0, <2>1, <2>4, <2>5 DEF MountInv
<1> QED
  BY Zenon, <1>5, <1>6, <1>7, <1>8, <1>9, <1>10, <1>11, <1>12 DEF Authenticate

-----------------------------------------------------------------------------
(***************************************************************************)
(* The build job                                                           *)
(***************************************************************************)

(***************************************************************************)
(* One more entry: it names its server, and its Secret contains its hosts. *)
(***************************************************************************)
LEMMA OneMoreEntry ==
  ASSUME AuthTypeOK, NEW n \in DOMAIN registries, NEW h
  PROVE  /\ NamedBefore(h, n + 1) =
              NamedBefore(h, n) \cup (IF registries[n].server = h THEN {n} ELSE {})
         /\ HeldBefore(h, n + 1) =
              HeldBefore(h, n) \cup (IF h \in Added(registries[n]) THEN {n} ELSE {})
         /\ \A i \in NamedBefore(h, n) \cup HeldBefore(h, n) : i < n /\ i \in Nat
<1>1. n \in Nat /\ DOMAIN registries \subseteq Nat
  BY DEF AuthTypeOK
<1>2. \A i \in DOMAIN registries : i < n + 1 <=> i < n \/ i = n
  BY <1>1
<1>3. ~(n < n)
  BY <1>1
<1>4. NamedBefore(h, n + 1) =
        NamedBefore(h, n) \cup (IF registries[n].server = h THEN {n} ELSE {})
  BY <1>2, <1>3, Zenon DEF NamedBefore
<1>5. HeldBefore(h, n + 1) =
        HeldBefore(h, n) \cup (IF h \in Added(registries[n]) THEN {n} ELSE {})
  BY <1>2, <1>3, Zenon DEF HeldBefore
<1>6. \A i \in NamedBefore(h, n) \cup HeldBefore(h, n) : i < n /\ i \in Nat
  BY <1>1, Zenon DEF NamedBefore, HeldBefore
<1> QED
  BY Zenon, <1>4, <1>5, <1>6

(***************************************************************************)
(* The loop of buildRegistryConfigs: an entry that configures its server,  *)
(* and the hosts of its Secret that have no configuration yet, keeps the   *)
(* last entry that names a host, else the first Secret that contains it,   *)
(* as the one that configures it.                                          *)
(***************************************************************************)
LEMMA EntryConfigured ==
  ASSUME AuthTypeOK, LoopInv, Looping, UNCHANGED registries, job' = [job EXCEPT !.i = @ + 1],
         DOMAIN configs' = DOMAIN configs \cup {ApiReg.server} \cup Added(ApiReg),
         configs'[ApiReg.server] = FromEntry(job.i, ApiReg.server),
         \A h \in DOMAIN configs : h # ApiReg.server => configs'[h] = configs[h],
         \A h \in Added(ApiReg) \ DOMAIN configs :
           h # ApiReg.server => configs'[h] = FromSecret(job.i, h)
  PROVE  LoopInv'
<1> DEFINE s == ApiReg.server
<1> SUFFICES ASSUME NEW n, n = job.i PROVE LoopInv'
  BY Zenon
<1>1. /\ job \in [step : JobSteps, i : Nat, error : Errors]
      /\ n \in Nat /\ n \in DOMAIN registries /\ job.step = "loop"
  BY DEF LoopInv, Looping, AuthTypeOK
<1>2. ApiReg \in Entries
  BY Zenon, <1>1, EntryType DEF ApiReg
<1>3. s \in Hosts /\ Added(ApiReg) \subseteq Hosts
  <2>1. s \in Hosts /\ ApiReg.basicAuth.secretName \in DOMAIN SecretHosts \cup {""}
    BY Zenon, <1>2 DEF Entries, BasicAuths
  <2>2. IsSecret(ApiReg.basicAuth) => ApiReg.basicAuth.secretName \in DOMAIN SecretHosts
    BY Zenon, <2>1 DEF IsSecret
  <2> QED
    BY Zenon, <2>1, <2>2, CloudAuthAssumption DEF Added
<1>4. /\ job' \in [step : JobSteps, i : Nat, error : Errors]
      /\ job'.i = n + 1 /\ job'.i >= 1 /\ job'.step = "loop"
  BY <1>1
<1>5. \A h, m : /\ NamedBefore(h, m)' = NamedBefore(h, m)
                /\ HeldBefore(h, m)' = HeldBefore(h, m)
                /\ FromEntry(m, h)' = FromEntry(m, h)
                /\ FromSecret(m, h)' = FromSecret(m, h)
  BY Zenon DEF NamedBefore, HeldBefore, FromEntry, FromSecret
<1>6. \A h : /\ NamedBefore(h, n + 1) = NamedBefore(h, n) \cup (IF s = h THEN {n} ELSE {})
             /\ HeldBefore(h, n + 1) =
                  HeldBefore(h, n) \cup (IF h \in Added(ApiReg) THEN {n} ELSE {})
             /\ \A i \in NamedBefore(h, n) \cup HeldBefore(h, n) : i < n /\ i \in Nat
  BY Zenon, <1>1, OneMoreEntry DEF ApiReg
<1>7. DOMAIN configs' = {h \in Hosts : NamedBefore(h, n + 1) \cup HeldBefore(h, n + 1) # {}}
  <2>1. DOMAIN configs = {h \in Hosts : NamedBefore(h, n) \cup HeldBefore(h, n) # {}}
    BY Zenon DEF LoopInv
  <2> QED
    BY <1>3, <1>6, <2>1
<1>8. ASSUME NEW h \in DOMAIN configs', NEW m, m = n + 1
      PROVE  (ByLastName(h, m) \/ ByFirstSecret(h, m))'
  <2>1. NamedBefore(h, m)' = NamedBefore(h, n + 1) /\ HeldBefore(h, m)' = HeldBefore(h, n + 1)
    BY Zenon, <1>5, <1>8
  <2>2. CASE h = s
    <3>1. n \in NamedBefore(h, n + 1) /\ \A j \in NamedBefore(h, n + 1) : j <= n
      BY <1>1, <1>6, <2>2
    <3>2. configs'[h] = FromEntry(n, h)'
      BY Zenon, <1>5, <2>2
    <3> QED
      BY Zenon, <2>1, <3>1, <3>2 DEF ByLastName
  <2>3. CASE h # s /\ h \in DOMAIN configs
    <3>1. configs'[h] = configs[h] /\ NamedBefore(h, n + 1) = NamedBefore(h, n)
      <4>1. configs'[h] = configs[h]
        BY Zenon, <2>3
      <4>2. NamedBefore(h, n + 1) = NamedBefore(h, n) \cup {}
        BY <1>6, <2>3, Zenon
      <4> QED
        BY Zenon, <4>1, <4>2
    <3>2. CASE ByLastName(h, n)
      <4>1. PICK i \in NamedBefore(h, n) :
              (\A j \in NamedBefore(h, n) : j <= i) /\ configs[h] = FromEntry(i, h)
        BY Zenon, <3>2 DEF ByLastName
      <4>2. configs'[h] = FromEntry(i, h)'
        BY Zenon, <1>5, <3>1, <4>1
      <4> QED
        BY Zenon, <2>1, <3>1, <4>1, <4>2 DEF ByLastName
    <3>3. CASE ByFirstSecret(h, n)
      <4>1. PICK i \in HeldBefore(h, n) :
              (\A j \in HeldBefore(h, n) : i <= j) /\ configs[h] = FromSecret(i, h)
        BY Zenon, <3>3 DEF ByFirstSecret
      <4>2. i \in HeldBefore(h, n + 1) /\ \A j \in HeldBefore(h, n + 1) : i <= j
        BY <1>1, <1>6, <4>1
      <4>3. configs'[h] = FromSecret(i, h)' /\ NamedBefore(h, m)' = {}
        BY Zenon, <1>5, <2>1, <3>1, <3>3, <4>1 DEF ByFirstSecret
      <4> QED
        BY Zenon, <2>1, <4>2, <4>3 DEF ByFirstSecret
    <3> QED
      BY Zenon, <2>3, <3>2, <3>3 DEF LoopInv
  <2>4. CASE h # s /\ h \notin DOMAIN configs
    <3>1. h \in Added(ApiReg)
      BY Zenon, <1>8, <2>4
    <3>2. NamedBefore(h, n) = {} /\ HeldBefore(h, n) = {}
      BY Zenon, <1>3, <2>4, <3>1 DEF LoopInv
    <3>3. NamedBefore(h, n + 1) = {} /\ HeldBefore(h, n + 1) = {n}
      BY Zenon, <1>6, <2>4, <3>1, <3>2
    <3>4. configs'[h] = FromSecret(n, h)'
      BY Zenon, <1>5, <2>4, <3>1
    <3> QED
      BY <1>1, <2>1, <3>3, <3>4 DEF ByFirstSecret
  <2> QED
    BY Zenon, <2>2, <2>3, <2>4
<1>9. PICK m : m = job'.i /\ m = n + 1
  BY Zenon, <1>4
<1>10. \A h \in DOMAIN configs' : (ByLastName(h, m) \/ ByFirstSecret(h, m))'
  BY Zenon, <1>8, <1>9
<1> QED
  BY Zenon, <1>4, <1>5, <1>7, <1>9, <1>10 DEF LoopInv

(***************************************************************************)
(* A step that leaves the section, the job and its configurations alone.   *)
(***************************************************************************)
LEMMA LoopKept ==
  ASSUME LoopInv, UNCHANGED <<registries, job, configs>>
  PROVE  LoopInv'
<1>1. \A h, m : /\ NamedBefore(h, m)' = NamedBefore(h, m)
                /\ HeldBefore(h, m)' = HeldBefore(h, m)
                /\ FromEntry(m, h)' = FromEntry(m, h)
                /\ FromSecret(m, h)' = FromSecret(m, h)
  BY Zenon DEF NamedBefore, HeldBefore, FromEntry, FromSecret
<1>2. \A h, m : /\ ByLastName(h, m)' <=> ByLastName(h, m)
                /\ ByFirstSecret(h, m)' <=> ByFirstSecret(h, m)
  BY Zenon, <1>1 DEF ByLastName, ByFirstSecret
<1> QED
  BY Zenon, <1>1, <1>2 DEF LoopInv

(***************************************************************************)
(* An entry that is not a Secret configures its server alone.              *)
(***************************************************************************)
LEMMA ServerConfigured ==
  ASSUME AuthTypeOK, LoopInv, Looping, UNCHANGED registries, ~IsSecret(ApiReg.basicAuth),
         NEW c, Configure(Explicit(c, configs)),
         [auth |-> c, nonSSL |-> ApiReg.nonSSL] = FromEntry(job.i, ApiReg.server)
  PROVE  LoopInv'
<1>1. Added(ApiReg) = {}
  BY Zenon DEF Added
<1>2. configs' = Explicit(c, configs) /\ job' = [job EXCEPT !.i = @ + 1]
  BY Zenon DEF Configure
<1>3. DOMAIN configs' = DOMAIN configs \cup {ApiReg.server}
  BY Zenon, <1>2 DEF Explicit
<1>4. configs'[ApiReg.server] = FromEntry(job.i, ApiReg.server)
  BY Zenon, <1>2 DEF Explicit
<1>5. \A h \in DOMAIN configs : h # ApiReg.server => configs'[h] = configs[h]
  BY Zenon, <1>2 DEF Explicit
<1> QED
  BY Zenon, <1>1, <1>2, <1>3, <1>4, <1>5, EntryConfigured

(***************************************************************************)
(* A step of buildRegistryConfigs keeps what the entries so far say.       *)
(***************************************************************************)
LEMMA ConfigsInv ==
  ASSUME IInv, BuildRegistryConfigs, UNCHANGED <<authVars, sessionVars>>
  PROVE  LoopInv'
<1> USE DEF IInv
<1>0. UNCHANGED <<registries, edited, auth, mounted>>
  BY Zenon DEF authVars
<1>1. job \in [step : JobSteps, i : Nat, error : Errors] /\ Len(registries) \in Nat
  BY DEF LoopInv, AuthTypeOK
<1>2. Looping => job.i \in DOMAIN registries /\ ApiReg \in Entries
  BY EntryType DEF Looping, ApiReg, LoopInv, AuthTypeOK
<1>3. \A h, m : /\ NamedBefore(h, m)' = NamedBefore(h, m)
                /\ HeldBefore(h, m)' = HeldBefore(h, m)
                /\ FromEntry(m, h)' = FromEntry(m, h)
                /\ FromSecret(m, h)' = FromSecret(m, h)
  BY Zenon, <1>0 DEF NamedBefore, HeldBefore, FromEntry, FromSecret
<1>4. ASSUME UNCHANGED configs, job'.i = job.i,
             job' \in [step : JobSteps, i : Nat, error : Errors], job'.step # "wait",
             job'.step = "configured" => job.i > Len(registries)
      PROVE  LoopInv'
  <2>1. \A h, m : /\ ByLastName(h, m)' <=> ByLastName(h, m)
                  /\ ByFirstSecret(h, m)' <=> ByFirstSecret(h, m)
    BY Zenon, <1>3, <1>4 DEF ByLastName, ByFirstSecret
  <2> QED
    BY Zenon, <1>0, <1>3, <1>4, <2>1 DEF LoopInv
<1>5. ASSUME NEW e \in Errors, Looping, Fail(e) PROVE LoopInv'
  BY Zenon, <1>1, <1>4, <1>5 DEF Fail, JobSteps
<1>6. CASE JobStarts
  BY Zenon, <1>1, <1>4, <1>6 DEF JobStarts, JobSteps
<1>7. CASE InvalidEntry
  BY Zenon, <1>5, <1>7 DEF InvalidEntry, Errors
<1>8. CASE InlineEntry
  <2>1. Looping /\ IsInline(ApiReg.basicAuth) /\ ~IsSecret(ApiReg.basicAuth)
    BY Zenon, <1>8 DEF InlineEntry, Validate, IsInline, IsSecret
  <2>2. [auth |-> Credentials("inline", ApiReg.server, job.i), nonSSL |-> ApiReg.nonSSL]
          = FromEntry(job.i, ApiReg.server)
    BY Zenon, <2>1 DEF FromEntry, SourceOf, ApiReg
  <2> QED
    BY Zenon, <1>0, <1>8, <2>1, <2>2, ServerConfigured DEF InlineEntry
<1>9. CASE SecretEntry
  <2>1. CASE ApiReg.server \in SecretHosts[SecretName] /\ Configure(SecretConfigs)
    <3>1. Looping /\ ~IsInline(ApiReg.basicAuth) /\ IsSecret(ApiReg.basicAuth)
      BY Zenon, <1>9 DEF SecretEntry
    <3>2. Added(ApiReg) = SecretHosts[SecretName]
      BY Zenon, <3>1 DEF Added, SecretName
    <3>3. configs' = SecretConfigs /\ job' = [job EXCEPT !.i = @ + 1]
      BY Zenon, <2>1 DEF Configure
    <3>4. SecretName \in DOMAIN SecretHosts /\ SecretName # "inline"
      <4>1. ApiReg.basicAuth.secretName \in DOMAIN SecretHosts
        BY Zenon, <1>2, <3>1 DEF Entries, BasicAuths, IsSecret
      <4> QED
        BY Zenon, <4>1, SourcesAssumption DEF SecretName
    <3>5. [auth |-> Credentials(SecretName, ApiReg.server, 0), nonSSL |-> ApiReg.nonSSL]
            = FromEntry(job.i, ApiReg.server)
      BY Zenon, <3>1, <3>4 DEF FromEntry, SourceOf, ApiReg, SecretName
    <3>6. \A h : Implicit(h) = FromSecret(job.i, h)
      BY Zenon DEF Implicit, FromSecret, SecretName, ApiReg
    <3>7. /\ DOMAIN configs' = DOMAIN configs \cup {ApiReg.server} \cup Added(ApiReg)
          /\ configs'[ApiReg.server] = FromEntry(job.i, ApiReg.server)
          /\ \A h \in DOMAIN configs : h # ApiReg.server => configs'[h] = configs[h]
          /\ \A h \in Added(ApiReg) \ DOMAIN configs :
               h # ApiReg.server => configs'[h] = FromSecret(job.i, h)
      BY Zenon, <3>2, <3>3, <3>5, <3>6 DEF SecretConfigs, Explicit
    <3> QED
      BY Zenon, <1>0, <3>1, <3>3, <3>7, EntryConfigured
  <2>2. CASE Fail("notInSecret") \/ Fail("secret")
    BY Zenon, <1>5, <1>9, <2>2 DEF SecretEntry, Errors
  <2> QED
    BY Zenon, <1>9, <2>1, <2>2 DEF SecretEntry
<1>10. CASE DynamicEntry
  <2>1. /\ Looping /\ ~IsInline(ApiReg.basicAuth) /\ ~IsSecret(ApiReg.basicAuth)
        /\ ApiReg.dynamic
    BY Zenon, <1>10 DEF DynamicEntry
  <2>2. CASE ApiReg.server \in DOMAIN mounted /\ Configure(Explicit(mounted[ApiReg.server], configs))
    <3>1. mounted[ApiReg.server] = Credentials("cloud", ApiReg.server, 0)
      BY Zenon, <2>2 DEF MountInv
    <3>2. [auth |-> mounted[ApiReg.server], nonSSL |-> ApiReg.nonSSL]
            = FromEntry(job.i, ApiReg.server)
      BY Zenon, <2>1, <3>1 DEF FromEntry, SourceOf, ApiReg
    <3> QED
      BY Zenon, <1>0, <2>1, <2>2, <3>2, ServerConfigured
  <2>3. CASE Fail("notMounted")
    BY Zenon, <1>5, <2>1, <2>3 DEF Errors
  <2> QED
    BY Zenon, <1>10, <2>2, <2>3 DEF DynamicEntry
<1>11. CASE PlainEntry
  <2>1. /\ Looping /\ ~IsInline(ApiReg.basicAuth) /\ ~IsSecret(ApiReg.basicAuth)
        /\ ~ApiReg.dynamic
    BY Zenon, <1>11 DEF PlainEntry
  <2>2. [auth |-> Credentials("none", ApiReg.server, 0), nonSSL |-> ApiReg.nonSSL]
          = FromEntry(job.i, ApiReg.server)
    BY Zenon, <2>1 DEF FromEntry, SourceOf, ApiReg
  <2> QED
    BY Zenon, <1>0, <1>11, <2>1, <2>2, ServerConfigured DEF PlainEntry
<1>12. CASE Configured
  BY Zenon, <1>1, <1>4, <1>12 DEF Configured, JobSteps
<1> QED
  BY Zenon, <1>6, <1>7, <1>8, <1>9, <1>10, <1>11, <1>12 DEF BuildRegistryConfigs

(***************************************************************************)
(* The job runs once the controller is done, and finds what it looks for   *)
(* in the Secret, unless the section was edited after it was made.         *)
(***************************************************************************)
LEMMA ConfigsMount ==
  ASSUME IInv, BuildRegistryConfigs, UNCHANGED <<authVars, sessionVars>>
  PROVE  AuthTypeOK' /\ AuthInv' /\ MountInv'
<1> USE DEF IInv
<1>0. UNCHANGED <<registries, edited, auth, mounted>>
  BY Zenon DEF authVars
<1>1. job \in [step : JobSteps, i : Nat, error : Errors]
  BY Zenon DEF LoopInv
<1>2. auth.step = "done" /\ job'.step # "wait"
  BY Zenon, <1>1 DEF AuthInv, BuildRegistryConfigs, JobStarts, InvalidEntry, InlineEntry, SecretEntry,
              DynamicEntry, PlainEntry, Configured, Looping, Fail, Configure
<1>3. AuthTypeOK'
  BY Zenon, <1>0 DEF AuthTypeOK
<1>4. AuthInv'
  BY Zenon, <1>0, <1>2 DEF AuthInv, Entry, LoaderCalls
<1>5. ASSUME ~edited PROVE job'.error # "notMounted"
  <2>1. job.error # "notMounted"
    BY Zenon, <1>5 DEF MountInv
  <2>2. CASE DynamicEntry
    <3>1. ApiReg.server \in DOMAIN mounted
      <4>1. job.i \in DynamicBefore(Len(registries) + 1)
        BY <1>1, <2>2 DEF DynamicEntry, DynamicBefore, Looping, ApiReg, LoopInv, AuthTypeOK
      <4>2. ApiReg.server \in Servers(DynamicBefore(Len(registries) + 1))
        BY Zenon, <4>1 DEF Servers, ApiReg
      <4> QED
        BY Zenon, <1>2, <1>5, <4>2 DEF MountInv
    <3> QED
      BY Zenon, <1>1, <2>1, <2>2, <3>1 DEF DynamicEntry, Configure
  <2>3. CASE JobStarts \/ InlineEntry \/ PlainEntry \/ Configured
    BY Zenon, <1>1, <2>1, <2>3 DEF JobStarts, InlineEntry, PlainEntry, Configured, Configure
  <2>4. CASE InvalidEntry \/ SecretEntry
    BY Zenon, <1>1, <2>1, <2>4 DEF InvalidEntry, SecretEntry, Fail, Configure
  <2> QED
    BY Zenon, <2>2, <2>3, <2>4 DEF BuildRegistryConfigs
<1>6. MountInv'
  BY Zenon, <1>0, <1>5 DEF MountInv, Servers, DynamicBefore
<1> QED
  BY Zenon, <1>3, <1>4, <1>6

(***************************************************************************)
(* An edit of the section comes before the job has read any of it.         *)
(***************************************************************************)
LEMMA EditInv ==
  ASSUME IInv, job.step = "wait", UserEdits, UNCHANGED <<configVars, sessionVars>>
  PROVE  AuthTypeOK' /\ AuthInv' /\ MountInv' /\ LoopInv'
<1> USE DEF IInv
<1>0. UNCHANGED <<auth, mounted, job, configs>> /\ registries' \in Seq(Entries) /\ edited' = TRUE
  BY Zenon, SectionsAssumption DEF UserEdits, configVars
<1>1. AuthTypeOK'
  BY Zenon, <1>0 DEF AuthTypeOK
<1>2. AuthInv'
  BY Zenon, <1>0 DEF AuthInv, UserEdits
<1>3. MountInv'
  BY Zenon, <1>0 DEF MountInv
<1>4. job.i = 1 /\ DOMAIN configs = {}
  BY Zenon DEF LoopInv
<1>5. \A h, m : m = 1 => NamedBefore(h, m)' = {} /\ HeldBefore(h, m)' = {}
  BY <1>0 DEF NamedBefore, HeldBefore
<1>6. LoopInv'
  BY Zenon, <1>0, <1>4, <1>5 DEF LoopInv
<1> QED
  BY Zenon, <1>1, <1>2, <1>3, <1>6

(***************************************************************************)
(* The largest and the least element of a set of positions.                *)
(***************************************************************************)
LEMMA MaxMin ==
  ASSUME NEW S, S \subseteq Int, NEW i \in S
  PROVE  /\ (\A j \in S : j <= i) => Max(S) = i
         /\ (\A j \in S : i <= j) => Min(S) = i
<1>0. \A j \in S : j <= i /\ i <= j => j = i
  OBVIOUS
<1>1. ASSUME \A j \in S : j <= i PROVE Max(S) = i
  <2>1. \A j \in S : i >= j
    BY Zenon, <1>1
  <2>2. Max(S) \in S /\ \A j \in S : Max(S) >= j
    BY <2>1, Zenon DEF Max
  <2>3. i <= Max(S) /\ Max(S) <= i
    BY Zenon, <1>1, <2>2
  <2> QED
    BY Zenon, <1>0, <2>2, <2>3
<1>2. ASSUME \A j \in S : i <= j PROVE Min(S) = i
  <2>1. Min(S) \in S /\ \A j \in S : Min(S) =< j
    BY <1>2, Zenon DEF Min
  <2>2. Min(S) <= i /\ i <= Min(S)
    BY Zenon, <1>2, <2>1
  <2> QED
    BY Zenon, <1>0, <2>1, <2>2
<1> QED
  BY Zenon, <1>1, <1>2

(***************************************************************************)
(* When the loop has ended, every host has the configuration that the      *)
(* section says without a loop.                                            *)
(***************************************************************************)
LEMMA AsExpected ==
  ASSUME AuthTypeOK, LoopInv, job.step = "configured"
  PROVE  /\ DOMAIN configs = {h \in Hosts : Naming(h) \cup Containing(h) # {}}
         /\ \A h \in DOMAIN configs : configs[h] = Expected(h)
<1>1. job.i \in Nat /\ job.i > Len(registries) /\ DOMAIN registries \subseteq Int
  BY DEF LoopInv, AuthTypeOK
<1>2. \A i \in DOMAIN registries : i < job.i
  BY <1>1 DEF AuthTypeOK
<1>3. \A h : NamedBefore(h, job.i) = Naming(h)
  BY Zenon, <1>2 DEF NamedBefore, Naming
<1>4. \A h : HeldBefore(h, job.i) = Containing(h)
  BY Zenon, <1>2 DEF HeldBefore, Containing, Added
<1>5. ASSUME NEW h \in DOMAIN configs PROVE configs[h] = Expected(h)
  <2>0. Naming(h) \subseteq Int /\ Containing(h) \subseteq Int
    BY Zenon, <1>1 DEF Naming, Containing
  <2>1. CASE ByLastName(h, job.i)
    <3>1. PICK i \in Naming(h) : (\A j \in Naming(h) : j <= i) /\ configs[h] = FromEntry(i, h)
      BY <1>3, <2>1 DEF ByLastName
    <3>2. Max(Naming(h)) = i
      BY Zenon, <2>0, <3>1, MaxMin
    <3> QED
      BY Zenon, <3>1, <3>2 DEF Expected, FromEntry
  <2>2. CASE ByFirstSecret(h, job.i)
    <3>1. PICK i \in Containing(h) :
            (\A j \in Containing(h) : i <= j) /\ configs[h] = FromSecret(i, h)
      BY <1>4, <2>2 DEF ByFirstSecret
    <3>2. Min(Containing(h)) = i
      BY Zenon, <2>0, <3>1, MaxMin
    <3>3. Naming(h) = {}
      BY Zenon, <1>3, <2>2 DEF ByFirstSecret
    <3> QED
      BY Zenon, <3>1, <3>2, <3>3 DEF Expected, FromSecret
  <2> QED
    BY Zenon, <1>5, <2>1, <2>2 DEF LoopInv
<1>6. DOMAIN configs = {h \in Hosts : Naming(h) \cup Containing(h) # {}}
  BY Zenon, <1>3, <1>4 DEF LoopInv
<1> QED
  BY Zenon, <1>5, <1>6

-----------------------------------------------------------------------------
(***************************************************************************)
(* The sessions                                                            *)
(***************************************************************************)

(***************************************************************************)
(* Credentials of a host, looked up while the hosts are configured, are    *)
(* those that the section says.                                            *)
(***************************************************************************)
LEMMA LookedUp ==
  ASSUME AuthTypeOK, LoopInv, job.step = "configured", hosts = "configured", NEW host
  PROVE  HostCredentials(host) = Due(host)
<1> DEFINE h == ConfiguredHost(host)
<1>1. CASE h \in DOMAIN configs
  BY Zenon, <1>1, AsExpected DEF HostCredentials, Due
<1>2. CASE h \notin DOMAIN configs
  BY Zenon, <1>2, AsExpected DEF HostCredentials, Due
<1> QED
  BY Zenon, <1>1, <1>2

(***************************************************************************)
(* Steps of the controller and of the job: there is no session before the  *)
(* hosts are configured, and what a host is due stays then.                *)
(***************************************************************************)
LEMMA SessionKept ==
  ASSUME IInv, UNCHANGED sessionVars, job.step = "configured" => UNCHANGED <<job, registries>>
  PROVE  RequestInv' /\ SeedInv'
<1> USE DEF IInv
<1>0. UNCHANGED <<hosts, session, request>>
  BY Zenon DEF sessionVars
<1>1. SeedInv'
  BY Zenon, <1>0 DEF SeedInv, Keyed
<1>2. CASE job.step = "configured"
  <2>1. \A h : Due(h)' = Due(h)
    BY Zenon, <1>2 DEF Due, Naming, Containing, Expected
  <2> QED
    BY Zenon, <1>0, <1>1, <1>2, <2>1 DEF RequestInv
<1>3. CASE job.step # "configured"
  <2>1. hosts = "default" /\ ~session.open
    BY Zenon, <1>3 DEF RequestInv
  <2>2. \A r \in Requests : request[r].step \notin {"get", "post", "seed", "answered"}
    BY Zenon, <1>3 DEF RequestInv
  <2> QED
    BY Zenon, <1>0, <1>1, <2>1, <2>2 DEF RequestInv
<1> QED
  BY Zenon, <1>2, <1>3

(***************************************************************************)
(* Opening and closing a session, and the hosts of the client: a new       *)
(* session has no handlers and no seeds, a closed one keeps its answers.   *)
(***************************************************************************)
LEMMA BuildAndPushInv ==
  ASSUME IInv, BuildAndPush, UNCHANGED <<authVars, configVars>>
  PROVE  RequestInv' /\ SeedInv'
<1> USE DEF IInv
<1>0. UNCHANGED <<registries, job>>
  BY Zenon DEF authVars, configVars
<1>1. \A h : Due(h)' = Due(h)
  BY Zenon, <1>0 DEF Due, Naming, Containing, Expected
<1>2. CASE ConfigureHosts
  <2>1. RequestInv'
    BY Zenon, <1>0, <1>1, <1>2 DEF ConfigureHosts, RequestInv
  <2>2. SeedInv'
    BY Zenon, <1>2 DEF ConfigureHosts, SeedInv, Keyed
  <2> QED
    BY Zenon, <2>1, <2>2
<1>3. CASE ResetHosts
  <2>1. RequestInv'
    BY Zenon, <1>0, <1>1, <1>3 DEF ResetHosts, RequestInv
  <2>2. SeedInv'
    BY Zenon, <1>3 DEF ResetHosts, SeedInv, Keyed
  <2> QED
    BY Zenon, <2>1, <2>2
<1>4. CASE OpenSession
  <2>1. /\ session' = [n |-> session.n + 1, open |-> TRUE, seeds |-> [h \in RequestHosts |-> 0]]
        /\ hosts' = "configured" /\ hosts = "configured" /\ session.n + 1 \in 0..MaxSessions
    BY <1>4, AuthProviderAssumption DEF OpenSession, NewSession, RequestInv
  <2>2. \A r \in Requests : request'[r].step = "idle"
    BY Zenon, <1>4 DEF OpenSession, NoRequest
  <2>3. DOMAIN request' = Requests
    BY Zenon, <1>4 DEF OpenSession
  <2>4. session' \in [n : 0..MaxSessions, open : BOOLEAN, seeds : [RequestHosts -> Nat]]
    BY Zenon, <2>1
  <2>5. RequestInv'
    BY Zenon, <1>0, <2>1, <2>2, <2>3, <2>4 DEF RequestInv, RequestSteps, Running
  <2>6. Keyed' = {}
    BY Zenon, <2>2 DEF Keyed
  <2>7. \A h \in RequestHosts : session'.seeds[h] = 0
    BY Zenon, <2>1
  <2>8. Cardinality(Keyed') = 0
    BY Zenon, <2>6, FS_EmptySet
  <2>9. SeedInv'
    BY <2>6, <2>7, <2>8 DEF SeedInv
  <2> QED
    BY Zenon, <2>5, <2>9
<1>5. CASE CloseSession
  <2>1. /\ session' \in [n : 0..MaxSessions, open : BOOLEAN, seeds : [RequestHosts -> Nat]]
        /\ session'.open = FALSE /\ session'.seeds = session.seeds /\ hosts' = hosts
    BY Zenon, <1>5 DEF CloseSession, RequestInv
  <2>2. /\ DOMAIN request' = Requests
        /\ \A r \in Requests :
             IF request[r].step \in {"answered", "failed"} THEN request'[r] = request[r]
             ELSE request'[r].step = "dropped"
    BY Zenon, <1>5 DEF CloseSession
  <2>3. RequestInv'
    BY Zenon, <1>0, <1>1, <2>1, <2>2 DEF RequestInv, RequestSteps, Running
  <2>4. Keyed' = Keyed /\ \A r \in Keyed : request'[r] = request[r]
    BY Zenon, <2>2 DEF Keyed
  <2>5. SeedInv'
    BY <2>1, <2>4 DEF SeedInv
  <2> QED
    BY Zenon, <2>3, <2>5
<1> QED
  BY Zenon, <1>2, <1>3, <1>4, <1>5 DEF BuildAndPush

(***************************************************************************)
(* A step of one handler, which leaves the session open: it is where its   *)
(* kind of request leads, with the credentials that its host is due.       *)
(***************************************************************************)
LEMMA HandlerRequest ==
  ASSUME IInv, NEW r \in Requests, UNCHANGED <<authVars, configVars, hosts>>,
         session' \in [n : 0..MaxSessions, open : BOOLEAN, seeds : [RequestHosts -> Nat]],
         session.open, session'.open,
         NEW q, request' = [request EXCEPT ![r] = q],
         q.step \in RequestSteps \ {"idle", "dropped"}, Called(q),
         q.step = "seed" => q.kind = "TokenAuthority",
         q.step \in {"get", "post"} => q.kind = "FetchToken",
         q.step \in {"get", "post", "seed", "answered"} => q.auth = Due(q.host)
  PROVE  RequestInv'
<1> USE DEF IInv
<1>0. UNCHANGED <<registries, job>> /\ job.step = "configured" /\ hosts = "configured"
  BY Zenon DEF authVars, configVars, RequestInv
<1>1. \A h : Due(h)' = Due(h)
  BY Zenon, <1>0 DEF Due, Naming, Containing, Expected
<1>2. /\ DOMAIN request' = Requests /\ request'[r] = q
      /\ \A p \in Requests : p # r => request'[p] = request[p]
  BY Zenon DEF RequestInv
<1>3. ASSUME NEW p \in Requests
      PROVE  /\ request'[p].step \in RequestSteps
             /\ request'[p].step \in Running \cup {"answered", "failed"} => Called(request'[p])
             /\ request'[p].step = "seed" => request'[p].kind = "TokenAuthority"
             /\ request'[p].step \in {"get", "post"} => request'[p].kind = "FetchToken"
             /\ request'[p].step \in {"get", "post", "seed", "answered"} =>
                  request'[p].auth = Due(request'[p].host)
  <2>1. CASE p = r
    BY Zenon, <1>2, <2>1
  <2>2. CASE p # r
    BY Zenon, <1>2, <2>2 DEF RequestInv
  <2> QED
    BY Zenon, <2>1, <2>2
<1> QED
  BY Zenon, <1>0, <1>1, <1>2, <1>3 DEF RequestInv, Called

(***************************************************************************)
(* A handler that takes no seed leaves the seeds as they are, and those    *)
(* that have a key.                                                        *)
(***************************************************************************)
LEMMA HandlerStep ==
  ASSUME IInv, NEW r \in Requests, UNCHANGED <<authVars, configVars, hosts, session>>,
         NEW q, request' = [request EXCEPT ![r] = q],
         session.open, q.step \in RequestSteps \ {"idle", "dropped"}, Called(q),
         r \notin Keyed, q.step = "answered" => q.kind # "TokenAuthority",
         q.step = "seed" => q.kind = "TokenAuthority",
         q.step \in {"get", "post"} => q.kind = "FetchToken",
         q.step \in {"get", "post", "seed", "answered"} => q.auth = Due(q.host)
  PROVE  RequestInv' /\ SeedInv'
<1> USE DEF IInv
<1>1. /\ session' \in [n : 0..MaxSessions, open : BOOLEAN, seeds : [RequestHosts -> Nat]]
      /\ session'.open
  BY Zenon DEF RequestInv
<1>2. RequestInv'
  BY Zenon, <1>1, HandlerRequest
<1>3. Keyed' = Keyed /\ \A p \in Keyed : request'[p] = request[p]
  BY Zenon DEF Keyed, RequestInv
<1>4. SeedInv'
  BY <1>3 DEF SeedInv
<1> QED
  BY Zenon, <1>2, <1>4

(***************************************************************************)
(* The steps of a handler before it takes a seed.                          *)
(***************************************************************************)
LEMMA AskInv ==
  ASSUME IInv, NEW r \in Requests, Ask(r), UNCHANGED <<authVars, configVars>>
  PROVE  RequestInv' /\ SeedInv'
<1>1. PICK kind \in RequestKinds, h \in RequestHosts :
        request' = [request EXCEPT ![r] =
          [step |-> "lookup", kind |-> kind, host |-> h, auth |-> Anonymous(h), key |-> 0]]
  BY Zenon DEF Ask
<1> DEFINE q == [step |-> "lookup", kind |-> kind, host |-> h, auth |-> Anonymous(h), key |-> 0]
<1>2. Called(q) /\ q.step = "lookup"
  BY Zenon DEF Called
<1>3. r \notin Keyed /\ session.open /\ UNCHANGED <<hosts, session>>
  BY Zenon DEF Keyed, Ask
<1>4. q.step \in RequestSteps \ {"idle", "dropped"}
  BY Zenon, <1>2 DEF RequestSteps
<1>5. request' = [request EXCEPT ![r] = q]
  BY Zenon, <1>1
<1> HIDE DEF q
<1> QED
  BY Zenon, <1>2, <1>3, <1>4, <1>5, HandlerStep

(***************************************************************************)
(* A handler that has been called goes on: EXCEPT changes its step.        *)
(***************************************************************************)
LEMMA CalledStep ==
  ASSUME RequestInv, NEW r \in Requests, Called(request[r]), NEW step
  PROVE  [request EXCEPT ![r].step = step] =
           [request EXCEPT ![r] = [step |-> step, kind |-> request[r].kind, host |-> request[r].host,
                                   auth |-> request[r].auth, key |-> request[r].key]]
<1> DEFINE p == request[r]
<1>1. p = [step |-> p.step, kind |-> p.kind, host |-> p.host, auth |-> p.auth, key |-> p.key]
  BY Zenon DEF Called
<1>2. [p EXCEPT !.step = step] =
        [step |-> step, kind |-> p.kind, host |-> p.host, auth |-> p.auth, key |-> p.key]
  BY <1>1
<1> QED
  BY Zenon, <1>2 DEF RequestInv

(***************************************************************************)
(* The same when it has looked its credentials up.                         *)
(***************************************************************************)
LEMMA CalledUpdate ==
  ASSUME RequestInv, NEW r \in Requests, Called(request[r]), NEW step, NEW auths
  PROVE  [request EXCEPT ![r].auth = auths, ![r].step = step] =
           [request EXCEPT ![r] = [step |-> step, kind |-> request[r].kind, host |-> request[r].host,
                                   auth |-> auths, key |-> request[r].key]]
<1> DEFINE p == request[r]
           b == [p EXCEPT !.auth = auths]
<1>1. p = [step |-> p.step, kind |-> p.kind, host |-> p.host, auth |-> p.auth, key |-> p.key]
  BY Zenon DEF Called
<1>2. b = [step |-> p.step, kind |-> p.kind, host |-> p.host, auth |-> auths, key |-> p.key]
  BY <1>1
<1> HIDE DEF b
<1>3. [b EXCEPT !.step = step] =
        [step |-> step, kind |-> p.kind, host |-> p.host, auth |-> auths, key |-> p.key]
  BY <1>2
<1> QED
  BY Zenon, <1>3 DEF RequestInv, b

(***************************************************************************)
(* credentials: the handler has what its host is due, and goes on as its   *)
(* kind of request asks.                                                   *)
(***************************************************************************)
LEMMA LookUpInv ==
  ASSUME IInv, NEW r \in Requests, LookUp(r), UNCHANGED <<authVars, configVars>>
  PROVE  RequestInv' /\ SeedInv'
<1> DEFINE p == request[r]
           step == [Credentials |-> "answered", FetchToken |-> "get",
                    TokenAuthority |-> "seed"][p.kind]
           q == [step |-> step, kind |-> p.kind, host |-> p.host,
                 auth |-> HostCredentials(p.host), key |-> p.key]
<1>1. Called(p) /\ session.open /\ hosts = "configured" /\ job.step = "configured"
  BY Zenon DEF IInv, LookUp, RequestInv, Running
<1>2. p.kind \in RequestKinds /\ p.host \in RequestHosts
  BY Zenon, <1>1 DEF Called
<1>3. /\ step \in RequestSteps \ {"idle", "dropped"}
      /\ step = "answered" => p.kind # "TokenAuthority"
      /\ step = "seed" => p.kind = "TokenAuthority"
      /\ step # "post" /\ (step = "get" => p.kind = "FetchToken")
  BY <1>2 DEF RequestKinds, RequestSteps
<1>4. r \notin Keyed /\ UNCHANGED <<hosts, session>>
  BY Zenon DEF Keyed, LookUp
<1>5. request' = [request EXCEPT ![r] = q]
  <2>1. request' = [request EXCEPT ![r].auth = HostCredentials(p.host), ![r].step = step]
    BY Zenon DEF LookUp
  <2>2. RequestInv
    BY Zenon DEF IInv
  <2> HIDE DEF step
  <2>3. [request EXCEPT ![r].auth = HostCredentials(p.host), ![r].step = step] =
          [request EXCEPT ![r] = q]
    BY Zenon, <1>1, <2>2, CalledUpdate
  <2> QED
    BY Zenon, <2>1, <2>3
<1>6. HostCredentials(p.host) = Due(p.host)
  BY Zenon, <1>1, LookedUp DEF IInv
<1>7. /\ q.step = step /\ q.kind = p.kind /\ q.host = p.host /\ q.auth = Due(p.host)
      /\ Called(q)
  BY Zenon, <1>2, <1>6 DEF Called
<1> HIDE DEF q, step
<1> QED
  BY Zenon, <1>1, <1>3, <1>4, <1>5, <1>7, HandlerStep

(***************************************************************************)
(* FetchToken, which tries GET, then POST, with the credentials it has.    *)
(***************************************************************************)
LEMMA FetchTokenInv ==
  ASSUME IInv, NEW r \in Requests, FetchToken(r), UNCHANGED <<authVars, configVars>>
  PROVE  RequestInv' /\ SeedInv'
<1> DEFINE p == request[r]
<1>1. PICK step \in {"post", "answered", "failed"} : request' = [request EXCEPT ![r].step = step]
  BY Zenon DEF FetchToken
<1> DEFINE q == [step |-> step, kind |-> p.kind, host |-> p.host, auth |-> p.auth, key |-> p.key]
<1>2. /\ Called(p) /\ session.open /\ p.kind = "FetchToken" /\ p.auth = Due(p.host)
      /\ p.step # "answered"
  BY Zenon DEF IInv, FetchToken, RequestInv, Running
<1>3. r \notin Keyed /\ UNCHANGED <<hosts, session>>
  BY Zenon, <1>2 DEF Keyed, FetchToken
<1>4. request' = [request EXCEPT ![r] = q]
  BY Zenon, <1>1, <1>2, CalledStep DEF IInv
<1>5. /\ q.step = step /\ q.kind = "FetchToken" /\ q.auth = Due(q.host) /\ Called(q)
      /\ q.step \in RequestSteps \ {"idle", "dropped"} /\ q.step # "seed"
  BY Zenon, <1>2 DEF Called, RequestSteps
<1> HIDE DEF q
<1> QED
  BY Zenon, <1>2, <1>3, <1>4, <1>5, HandlerStep

(***************************************************************************)
(* getSeed: the seed of a host is not zero and not that of another host,   *)
(* it stays when it is drawn already, and one more handler pays for it.    *)
(***************************************************************************)
LEMMA SeedFacts ==
  ASSUME IInv, NEW h \in RequestHosts
  PROVE  /\ SeedOf(h) \in Nat \ {0}
         /\ session.seeds[h] # 0 => SeedOf(h) = session.seeds[h]
         /\ \A g \in RequestHosts : g # h => session.seeds[g] # SeedOf(h)
         /\ SeedOf(h) <= Cardinality(Keyed) + 1
         /\ \/ session.seeds[h] # 0
            \/ \A g \in RequestHosts : session.seeds[g] <= SeedOf(h)
<1> USE DEF IInv
<1> DEFINE f == session.seeds
           S == {f[g] : g \in RequestHosts}
<1>1. f \in [RequestHosts -> Nat]
  BY Zenon DEF RequestInv
<1>2. Cardinality(Keyed) \in Nat
  <2>1. IsFiniteSet(Requests)
    BY AuthProviderAssumption, FS_Interval DEF Requests
  <2>2. IsFiniteSet(Keyed)
    BY Zenon, <2>1, FS_Subset DEF Keyed
  <2> QED
    BY Zenon, <2>2, FS_CardinalityType
<1>3. PICK m \in RequestHosts : \A g \in RequestHosts : f[g] <= f[m]
  BY Zenon DEF SeedInv
<1>4. Max(S) = f[m]
  <2>1. S \subseteq Int /\ f[m] \in S /\ \A j \in S : j <= f[m]
    BY <1>1, <1>3
  <2> HIDE DEF S
  <2> QED
    BY Zenon, <2>1, MaxMin
<1>5. FreshSeed = f[m] + 1 /\ f[m] \in Nat /\ f[m] <= Cardinality(Keyed)
  BY Zenon, <1>1, <1>4 DEF FreshSeed, SeedInv
<1>6. CASE f[h] = 0
  <2>1. SeedOf(h) = f[m] + 1
    BY Zenon, <1>5, <1>6 DEF SeedOf
  <2>2. \A g \in RequestHosts : f[g] \in Nat /\ f[g] <= f[m]
    BY Zenon, <1>1, <1>3
  <2> HIDE DEF f
  <2>3. SeedOf(h) \in Nat \ {0} /\ SeedOf(h) <= Cardinality(Keyed) + 1
    BY <1>2, <1>5, <2>1
  <2>4. \A g \in RequestHosts : f[g] # SeedOf(h) /\ f[g] <= SeedOf(h)
    BY <1>5, <2>1, <2>2
  <2> QED
    BY Zenon, <1>6, <2>3, <2>4 DEF f
<1>7. CASE f[h] # 0
  <2>1. SeedOf(h) = f[h]
    BY Zenon, <1>7 DEF SeedOf
  <2>2. f[h] \in Nat \ {0} /\ f[h] <= Cardinality(Keyed)
    BY Zenon, <1>1, <1>7 DEF SeedInv
  <2>3. f[h] <= Cardinality(Keyed) + 1
    BY <1>2, <2>2
  <2>4. \A g \in RequestHosts : g # h => f[g] # f[h]
    BY Zenon, <1>7 DEF SeedInv
  <2> QED
    BY Zenon, <1>7, <2>1, <2>2, <2>3, <2>4
<1> QED
  BY Zenon, <1>6, <1>7

(***************************************************************************)
(* getAuthorityKey, for a handler that has looked its host up.             *)
(***************************************************************************)
LEMMA TokenAuthorityInv ==
  ASSUME IInv, NEW r \in Requests, TokenAuthority(r), UNCHANGED <<authVars, configVars>>
  PROVE  RequestInv' /\ SeedInv'
<1> USE DEF IInv
<1> DEFINE p == request[r]
<1>1. PICK h, seed, key :
        /\ h = p.host /\ seed = SeedOf(h)
        /\ key = IF HasSecret(p.auth) THEN seed ELSE 0
  BY Zenon
<1> DEFINE q == [step |-> "answered", kind |-> p.kind, host |-> p.host, auth |-> p.auth, key |-> key]
<1>2. /\ Called(p) /\ session.open /\ p.kind = "TokenAuthority" /\ p.auth = Due(p.host)
      /\ p.step = "seed" /\ h \in RequestHosts
  BY Zenon, <1>1 DEF TokenAuthority, RequestInv, Running, Called
<1>3. /\ seed \in Nat \ {0}
      /\ session.seeds[h] # 0 => seed = session.seeds[h]
      /\ \A g \in RequestHosts : g # h => session.seeds[g] # seed
      /\ seed <= Cardinality(Keyed) + 1
      /\ session.seeds[h] # 0 \/ \A g \in RequestHosts : session.seeds[g] <= seed
  BY Zenon, <1>1, <1>2, SeedFacts
<1>4. session' = [session EXCEPT !.seeds[h] = seed] /\ hosts' = hosts
  BY Zenon, <1>1 DEF TokenAuthority
<1>5. /\ session' \in [n : 0..MaxSessions, open : BOOLEAN, seeds : [RequestHosts -> Nat]]
      /\ session'.open /\ session'.seeds = [session.seeds EXCEPT ![h] = seed]
  BY Zenon, <1>2, <1>3, <1>4 DEF RequestInv
<1>6. /\ session.seeds \in [RequestHosts -> Nat] /\ session'.seeds[h] = seed
      /\ \A g \in RequestHosts : g # h => session'.seeds[g] = session.seeds[g]
  BY Zenon, <1>2, <1>5 DEF RequestInv
<1>7. request' = [request EXCEPT ![r] = q]
  <2>1. request' = [request EXCEPT ![r].step = "answered", ![r].key = key]
    BY Zenon, <1>1 DEF TokenAuthority
  <2>2. p = [step |-> p.step, kind |-> p.kind, host |-> p.host, auth |-> p.auth, key |-> p.key]
    BY <1>2, Zenon DEF Called
  <2> DEFINE b == [p EXCEPT !.step = "answered"]
  <2>3. b = [step |-> "answered", kind |-> p.kind, host |-> p.host, auth |-> p.auth, key |-> p.key]
    BY <2>2
  <2> HIDE DEF b
  <2>4. [b EXCEPT !.key = key] = q
    BY <2>3
  <2> QED
    BY Zenon, <2>1, <2>4 DEF b, RequestInv
<1>8. /\ q.step = "answered" /\ q.kind = "TokenAuthority" /\ q.host = h /\ q.auth = p.auth
      /\ q.key = key /\ q.auth = Due(q.host) /\ Called(q)
      /\ q.step \in RequestSteps \ {"idle", "dropped"}
  BY Zenon, <1>1, <1>2 DEF Called, RequestSteps
<1> HIDE DEF q
<1>9. RequestInv'
  BY Zenon, <1>2, <1>4, <1>5, <1>7, <1>8, HandlerRequest
<1>10. /\ request'[r] = q
       /\ \A o \in Requests : o # r => request'[o] = request[o]
  BY Zenon, <1>7 DEF RequestInv
<1>11. Keyed' = Keyed \cup {r} /\ r \notin Keyed /\ \A o \in Keyed : request'[o] = request[o]
  BY Zenon, <1>2, <1>8, <1>10 DEF Keyed
<1>12. Cardinality(Keyed') = Cardinality(Keyed) + 1 /\ Cardinality(Keyed) \in Nat
  <2>1. IsFiniteSet(Requests)
    BY AuthProviderAssumption, FS_Interval DEF Requests
  <2>2. IsFiniteSet(Keyed)
    BY Zenon, <2>1, FS_Subset DEF Keyed
  <2> QED
    BY Zenon, <1>11, <2>2, FS_AddElement, FS_CardinalityType
<1>13. \A g \in RequestHosts : session'.seeds[g] \in Nat /\ session.seeds[g] \in Nat
  BY Zenon, <1>5, <1>6
<1>14. ASSUME NEW g \in RequestHosts, NEW k \in RequestHosts,
              session'.seeds[g] = session'.seeds[k], g # k
       PROVE  session'.seeds[g] = 0
  <2>1. CASE g = h \/ k = h
    BY Zenon, <1>3, <1>6, <1>14, <2>1
  <2>2. CASE g # h /\ k # h
    BY Zenon, <1>6, <1>14, <2>2 DEF SeedInv
  <2> QED
    BY Zenon, <2>1, <2>2
<1>15. \E k \in RequestHosts : \A g \in RequestHosts : session'.seeds[g] <= session'.seeds[k]
  <2>1. CASE session.seeds[h] # 0
    <3>1. \A g \in RequestHosts : session'.seeds[g] = session.seeds[g]
      BY Zenon, <1>3, <1>6, <2>1
    <3> QED
      BY Zenon, <1>2, <3>1 DEF SeedInv
  <2>2. CASE \A g \in RequestHosts : session.seeds[g] <= seed
    <3>1. \A g \in RequestHosts : session'.seeds[g] <= session'.seeds[h]
      BY <1>3, <1>6, <2>2
    <3> QED
      BY Zenon, <1>2, <3>1
  <2> QED
    BY Zenon, <1>3, <2>1, <2>2
<1>16. ASSUME NEW g \in RequestHosts PROVE session'.seeds[g] <= Cardinality(Keyed')
  <2>1. CASE g = h
    BY Zenon, <1>3, <1>6, <1>12, <2>1
  <2>2. CASE g # h
    <3>1. session'.seeds[g] = session.seeds[g] /\ session.seeds[g] <= Cardinality(Keyed)
      BY Zenon, <1>6, <2>2 DEF SeedInv
    <3> QED
      BY <1>12, <1>13, <3>1
  <2> QED
    BY Zenon, <2>1, <2>2
<1>17. ASSUME NEW o \in Keyed'
       PROVE  /\ session'.seeds[request'[o].host] # 0
              /\ request'[o].key = IF HasSecret(request'[o].auth)
                                   THEN session'.seeds[request'[o].host] ELSE 0
  <2>1. CASE o = r
    BY Zenon, <1>1, <1>3, <1>6, <1>8, <1>10, <2>1
  <2>2. CASE o # r
    <3>1. o \in Keyed /\ request'[o] = request[o]
      BY Zenon, <1>11, <2>2
    <3>2. request[o].host \in RequestHosts
      BY Zenon, <3>1 DEF RequestInv, Keyed, Called
    <3>3. /\ session.seeds[request[o].host] # 0
          /\ request[o].key = IF HasSecret(request[o].auth)
                              THEN session.seeds[request[o].host] ELSE 0
      BY Zenon, <3>1 DEF SeedInv
    <3>4. session'.seeds[request[o].host] = session.seeds[request[o].host]
      BY Zenon, <1>3, <1>6, <3>2, <3>3
    <3> QED
      BY Zenon, <3>1, <3>3, <3>4
  <2> QED
    BY Zenon, <2>1, <2>2
<1>18. SeedInv'
  BY Zenon, <1>14, <1>15, <1>16, <1>17 DEF SeedInv, HasSecret
<1> QED
  BY Zenon, <1>9, <1>18

-----------------------------------------------------------------------------
(***************************************************************************)
(* The theorems                                                            *)
(***************************************************************************)

(***************************************************************************)
(* A function without a domain: no Secret, and no configurations.          *)
(***************************************************************************)
LEMMA NothingMapped == DOMAIN <<>> = {}
<1>1. <<>> \in Seq({})
  OBVIOUS
<1>2. DOMAIN <<>> = 1..0
  BY <1>1
<1> QED
  BY <1>2

(***************************************************************************)
(* At the start the loops have seen no entry and no session is open.       *)
(***************************************************************************)
LEMMA InitInv == Init => IInv
<1> SUFFICES ASSUME Init PROVE IInv
  BY Zenon
<1>1. AuthTypeOK /\ AuthInv
  <2>1. registries \in Seq(Entries) /\ edited = FALSE /\ auth = AuthStart(0) /\ job.step = "wait"
    BY Zenon, SectionsAssumption DEF Init, AuthInit, ConfigInit
  <2>2. DOMAIN mounted = {}
    BY Zenon, NothingMapped DEF Init, AuthInit, NoSecret
  <2>3. /\ auth \in [step : AuthSteps, i : Nat, call : 0..3, tried : 0..2,
                     auths : SUBSET Hosts, restarts : 0..MaxRestarts]
        /\ auth.step = "loop" /\ auth.i = 1
    BY <2>1, CloudAuthAssumption DEF AuthStart, AuthSteps
  <2>4. AuthTypeOK
    BY Zenon, <2>1, <2>2, <2>3 DEF AuthTypeOK
  <2>5. AuthInv
    BY <2>1, <2>3 DEF AuthInv
  <2> QED
    BY Zenon, <2>4, <2>5
<1>2. MountInv
  <2>1. /\ auth.step = "loop" /\ auth.i = 1 /\ job.error = ""
        /\ mounted = NoSecret /\ DOMAIN mounted = {}
    BY Zenon, NothingMapped DEF Init, AuthInit, ConfigInit, AuthStart, NoSecret
  <2>2. DynamicBefore(1) = {}
    BY <1>1 DEF DynamicBefore, AuthTypeOK
  <2>3. Servers(DynamicBefore(auth.i)) = {}
    BY Zenon, <2>1, <2>2 DEF Servers
  <2> QED
    BY Zenon, <2>1, <2>3 DEF MountInv
<1>3. LoopInv
  <2>1. job = [step |-> "wait", i |-> 1, error |-> ""] /\ DOMAIN configs = {}
    BY Zenon, NothingMapped DEF Init, ConfigInit
  <2>2. \A h : NamedBefore(h, 1) = {} /\ HeldBefore(h, 1) = {}
    BY <1>1 DEF NamedBefore, HeldBefore, AuthTypeOK
  <2>3. /\ job \in [step : JobSteps, i : Nat, error : Errors]
        /\ job.i = 1 /\ job.step = "wait"
    BY Zenon, <2>1 DEF JobSteps, Errors
  <2>4. {h \in Hosts : NamedBefore(h, job.i) \cup HeldBefore(h, job.i) # {}} = {}
    BY Zenon, <2>2, <2>3
  <2>5. job.i >= 1
    BY <2>3
  <2> QED
    BY <2>1, <2>3, <2>4, <2>5, Zenon DEF LoopInv
<1>4. /\ session = [n |-> 0, open |-> FALSE, seeds |-> [h \in RequestHosts |-> 0]]
      /\ hosts = "default" /\ DOMAIN request = Requests
      /\ \A r \in Requests : request[r].step = "idle"
  BY Zenon DEF Init, NewSession, NoRequest
<1>5. RequestInv
  <2>1. session \in [n : 0..MaxSessions, open : BOOLEAN, seeds : [RequestHosts -> Nat]]
    BY <1>4, AuthProviderAssumption
  <2> QED
    BY Zenon, <1>4, <2>1 DEF RequestInv, RequestSteps, Running
<1>6. Keyed = {} /\ Cardinality(Keyed) = 0
  BY Zenon, <1>4, FS_EmptySet DEF Keyed
<1>7. \A h \in RequestHosts : session.seeds[h] = 0
  BY Zenon, <1>4
<1>8. SeedInv
  BY <1>6, <1>7 DEF SeedInv
<1> QED
  BY Zenon, <1>1, <1>2, <1>3, <1>5, <1>8 DEF IInv

(***************************************************************************)
(* Every step of the controller, of the job, of BuildAndPush and of a      *)
(* handler keeps the invariant.                                            *)
(***************************************************************************)
LEMMA NextInv == IInv /\ [Next]_vars => IInv'
<1> SUFFICES ASSUME IInv, [Next]_vars PROVE IInv'
  BY Zenon
<1>1. CASE UNCHANGED vars
  <2>1. UNCHANGED <<registries, edited, auth, mounted, job, configs>> /\ UNCHANGED sessionVars
    BY Zenon, <1>1 DEF vars, authVars, configVars
  <2>2. AuthTypeOK' /\ AuthInv' /\ MountInv'
    BY Zenon, <2>1 DEF IInv, AuthTypeOK, AuthInv, MountInv, Entry, LoaderCalls, Servers, DynamicBefore
  <2>3. LoopInv'
    BY Zenon, <2>1, LoopKept DEF IInv
  <2>4. RequestInv' /\ SeedInv'
    BY Zenon, <2>1, SessionKept
  <2> QED
    BY Zenon, <2>2, <2>3, <2>4 DEF IInv
<1>2. CASE (Authenticate \/ Requeue) /\ UNCHANGED <<configVars, sessionVars>>
  <2>1. UNCHANGED <<registries, job, configs>> /\ UNCHANGED sessionVars
    BY Zenon, <1>2 DEF Authenticate, SkipEntry, RetrieveAuthorization, CallSucceeds, CallFails, LoopEnds,
                CreateSecret, CreateSecretFails, Requeue, configVars
  <2>2. LoopInv'
    BY Zenon, <2>1, LoopKept DEF IInv
  <2>3. RequestInv' /\ SeedInv'
    BY Zenon, <2>1, SessionKept
  <2> QED
    BY Zenon, <1>2, <2>2, <2>3, AuthenticateType, AuthenticateMount DEF IInv
<1>3. CASE job.step = "wait" /\ UserEdits /\ UNCHANGED <<configVars, sessionVars>>
  <2>1. RequestInv' /\ SeedInv'
    BY Zenon, <1>3, SessionKept
  <2> QED
    BY Zenon, <1>3, <2>1, EditInv DEF IInv
<1>4. CASE BuildRegistryConfigs /\ UNCHANGED <<authVars, sessionVars>>
  <2>1. job.step # "configured"
    BY Zenon, <1>4 DEF BuildRegistryConfigs, JobStarts, InvalidEntry, InlineEntry, SecretEntry,
                DynamicEntry, PlainEntry, Configured, Looping
  <2>2. RequestInv' /\ SeedInv'
    BY Zenon, <1>4, <2>1, SessionKept
  <2> QED
    BY Zenon, <1>4, <2>2, ConfigsInv, ConfigsMount DEF IInv
<1>5. CASE /\ UNCHANGED <<authVars, configVars>>
           /\ BuildAndPush \/ \E r \in Requests : Handle(r)
  <2>1. UNCHANGED <<registries, edited, auth, mounted, job, configs>>
    BY Zenon, <1>5 DEF authVars, configVars
  <2>2. AuthTypeOK' /\ AuthInv' /\ MountInv'
    BY Zenon, <2>1 DEF IInv, AuthTypeOK, AuthInv, MountInv, Entry, LoaderCalls, Servers, DynamicBefore
  <2>3. LoopInv'
    BY Zenon, <2>1, LoopKept DEF IInv
  <2>4. RequestInv' /\ SeedInv'
    BY Zenon, <1>5, BuildAndPushInv, AskInv, LookUpInv, FetchTokenInv, TokenAuthorityInv DEF Handle
  <2> QED
    BY Zenon, <2>2, <2>3, <2>4 DEF IInv
<1> QED
  BY Zenon, <1>1, <1>2, <1>3, <1>4, <1>5 DEF Next

(***************************************************************************)
(* The loops, the sessions and the seeds are always as IInv says.          *)
(***************************************************************************)
THEOREM Invariance == Spec => []IInv
  BY InitInv, NextInv, PTL DEF Spec

(***************************************************************************)
(* Types: no loader is tried more than three times at a call, only hosts   *)
(* of the section are configured, and a session has no more seeds than     *)
(* handlers.                                                               *)
(***************************************************************************)
THEOREM TypeCorrect == Spec => []TypeOK
<1>1. IInv => TypeOK
  <2> SUFFICES ASSUME IInv PROVE TypeOK
    BY Zenon
  <2>1. AuthTypeOK
    BY Zenon DEF IInv
  <2>2. ConfigTypeOK
    <3>1. ASSUME NEW h \in DOMAIN configs PROVE configs[h].nonSSL \in BOOLEAN
      <4>1. CASE ByLastName(h, job.i)
        <5>1. PICK i \in NamedBefore(h, job.i) : configs[h] = FromEntry(i, h)
          BY Zenon, <4>1 DEF ByLastName
        <5>2. registries[i] \in Entries
          BY Zenon, <2>1, EntryType DEF NamedBefore
        <5> QED
          BY <5>1, <5>2 DEF FromEntry, Entries
      <4>2. CASE ByFirstSecret(h, job.i)
        BY <4>2 DEF ByFirstSecret, FromSecret
      <4> QED
        BY Zenon, <3>1, <4>1, <4>2 DEF IInv, LoopInv
    <3> QED
      BY Zenon, <3>1 DEF IInv, LoopInv, ConfigTypeOK
  <2>3. SessionTypeOK
    <3>1. Cardinality(Keyed) \in Nat /\ Cardinality(Keyed) <= MaxRequests
      <4>1. IsFiniteSet(Requests) /\ Cardinality(Requests) = MaxRequests
        BY AuthProviderAssumption, FS_Interval DEF Requests
      <4>2. IsFiniteSet(Keyed) /\ Cardinality(Keyed) <= Cardinality(Requests)
        BY Zenon, <4>1, FS_Subset DEF Keyed
      <4> QED
        BY Zenon, <4>1, <4>2, FS_CardinalityType
    <3>2. session.seeds \in [RequestHosts -> Nat]
      BY Zenon DEF IInv, RequestInv
    <3>3. \A h \in RequestHosts : session.seeds[h] \in 0..MaxRequests
      <4>1. \A h \in RequestHosts : session.seeds[h] <= Cardinality(Keyed) /\ session.seeds[h] \in Nat
        BY Zenon, <3>2 DEF IInv, SeedInv
      <4> QED
        BY <3>1, <4>1, AuthProviderAssumption
    <3>4. session.seeds \in [RequestHosts -> 0..MaxRequests]
      BY Zenon, <3>2, <3>3
    <3> QED
      BY Zenon, <3>4 DEF IInv, RequestInv, SessionTypeOK
  <2> QED
    BY Zenon, <2>1, <2>2, <2>3 DEF TypeOK
<1> QED
  BY <1>1, Invariance, PTL

(***************************************************************************)
(* buildRegistryConfigs configures exactly the hosts that the section      *)
(* names or that a Secret of it contains, each by the last entry that      *)
(* names it, else by the first Secret that contains it, for any section.   *)
(***************************************************************************)
THEOREM PrecedenceSafe == Spec => []PrecedenceKept
<1>1. IInv => PrecedenceKept
  BY Zenon, AsExpected DEF IInv, PrecedenceKept
<1> QED
  BY <1>1, Invariance, PTL

(***************************************************************************)
(* Whatever a handler answers or asks a token with, in any session, is     *)
(* what the section says about the host that it is asked about.            *)
(***************************************************************************)
THEOREM CredentialsSafe == Spec => []RegistriesSeeTheirCredentials
<1>1. IInv => RegistriesSeeTheirCredentials
  BY Zenon DEF IInv, RequestInv, RegistriesSeeTheirCredentials, Due, ConfiguredHost
<1> QED
  BY <1>1, Invariance, PTL

(***************************************************************************)
(* The build job misses the credentials of a registry in the Secret that   *)
(* the controller left only after an edit of the section, however many     *)
(* reconciles failed and whatever they left.                               *)
(***************************************************************************)
THEOREM MountSafe == Spec => []DynamicEntriesAreMounted
<1>1. IInv => DynamicEntriesAreMounted
  BY Zenon DEF IInv, AuthTypeOK, MountInv, DynamicEntriesAreMounted
<1> QED
  BY <1>1, Invariance, PTL

(***************************************************************************)
(* The handlers of a session derive one key for a host, and different ones *)
(* for two hosts that have a secret, in any interleaving.                  *)
(***************************************************************************)
THEOREM KeysSafe == Spec => []AuthorityKeysAgree
<1>1. IInv => AuthorityKeysAgree
  <2> SUFFICES ASSUME IInv, NEW q \in Keyed, NEW r \in Keyed
               PROVE  IF request[q].host = request[r].host
                      THEN request[q].key = request[r].key
                      ELSE request[q].key # request[r].key \/ request[q].key = 0
    BY Zenon DEF AuthorityKeysAgree, Keyed
  <2> DEFINE g == request[q].host
             h == request[r].host
  <2>1. g \in RequestHosts /\ h \in RequestHosts
    BY Zenon DEF IInv, RequestInv, Keyed, Called
  <2>2. request[q].auth = Due(g) /\ request[r].auth = Due(h)
    BY Zenon DEF IInv, RequestInv, Keyed
  <2>3. /\ session.seeds[g] # 0 /\ session.seeds[h] # 0
        /\ request[q].key = IF HasSecret(request[q].auth) THEN session.seeds[g] ELSE 0
        /\ request[r].key = IF HasSecret(request[r].auth) THEN session.seeds[h] ELSE 0
    BY Zenon DEF IInv, SeedInv
  <2>4. CASE g = h
    BY Zenon, <2>2, <2>3, <2>4
  <2>5. CASE g # h
    <3>1. session.seeds[g] # session.seeds[h]
      BY Zenon, <2>1, <2>3, <2>5 DEF IInv, SeedInv
    <3> QED
      BY Zenon, <2>3, <2>5, <3>1
  <2> QED
    BY Zenon, <2>4, <2>5
<1> QED
  BY <1>1, Invariance, PTL
=============================================================================
