-------------------------- MODULE ReconcilerProofs --------------------------
(***************************************************************************)
(* Proofs about the reconcile loop: its types, that every Job mounts the   *)
(* credentials of its own build, that a live build with a Job has all the  *)
(* prerequisites of the Job as long as names are not used again, and that  *)
(* nothing of a build comes back once all traces of it are gone.           *)
(***************************************************************************)
EXTENDS Reconciler, ClusterProofs

(***************************************************************************)
(* The shared dynamic volumes are empty except between the step that adds  *)
(* the Secret and the step that makes the Job of the same build.  Without  *)
(* this JobMountsItsCredentials is not inductive: the Job takes whatever   *)
(* is in the shared list.                                                  *)
(***************************************************************************)
VolumesInv ==
  dynVolumes = IF worker.step = JobStep THEN OwnCredentials(worker.name) ELSE <<>>

IInv == TypeOK /\ VolumesInv /\ JobMountsItsCredentials

Busy == [step : 1..JobStep, name : Names, uid : Uids]

(***************************************************************************)
(* Facts of arithmetic about the steps of checkPrerequisites and           *)
(* createJobForBuild.                                                      *)
(***************************************************************************)
LEMMA StepFacts ==
  /\ Len(Prerequisites) \in Nat
  /\ DOMAIN Prerequisites = 1..Len(Prerequisites)
  /\ JobStep \in Nat /\ SecretStep \in Nat
  /\ SecretStep + 1 = JobStep /\ SecretStep # JobStep
  /\ JobStep # 0 /\ 1 # JobStep /\ 1 \in 1..JobStep /\ SecretStep \in 1..JobStep
  /\ \A i \in DOMAIN Prerequisites : i \in 1..JobStep /\ i + 1 \in 1..JobStep
       /\ i + 1 # JobStep /\ i # JobStep
  BY PrerequisitesAssumption DEF SecretStep, JobStep

(***************************************************************************)
(* The Job is made in the last step and in no other.                       *)
(***************************************************************************)
LEMMA KindAtJob == \A step \in 1..JobStep : KindAt(step) = "Job" <=> step = JobStep
<1> TAKE step \in 1..JobStep
<1>1. CASE step = SecretStep
  BY Zenon, <1>1, StepFacts DEF KindAt
<1>2. CASE step = JobStep
  BY Zenon, <1>2, StepFacts DEF KindAt
<1>3. CASE step \in DOMAIN Prerequisites
  <2>1. Prerequisites[step] # "Job"
    BY <1>3, PrerequisitesAssumption
  <2> QED
    BY Zenon, <1>3, <2>1, StepFacts DEF KindAt, SecretStep
<1> QED
  BY <1>1, <1>2, <1>3, StepFacts DEF SecretStep, JobStep

(***************************************************************************)
(* A reconcile in progress has a name and a uid; the idle worker none.     *)
(***************************************************************************)
LEMMA WorkerFacts ==
  ASSUME TypeOK
  PROVE  /\ worker # Idle => worker \in Busy
         /\ worker.step # 0 => worker \in Busy
         /\ worker = Idle => worker.step # JobStep
<1>1. worker \in Busy \/ worker = Idle
  BY Zenon DEF TypeOK, Busy
<1>2. Idle.step = 0
  BY Zenon DEF Idle
<1> QED
  BY Zenon, <1>1, <1>2, StepFacts

(***************************************************************************)
(* Nor is the idle worker taken for a reconcile.                           *)
(***************************************************************************)
LEMMA BusyIsNotIdle == \A w \in Busy : w # Idle
<1> TAKE w \in Busy
<1>1. w.step \in 1..JobStep
  BY Zenon DEF Busy
<1>2. w.step # 0 /\ Idle.step = 0
  BY <1>1, StepFacts DEF Idle
<1> QED
  BY Zenon, <1>2

(***************************************************************************)
(* withOwnedResource leaves a well-typed set of owned resources.           *)
(***************************************************************************)
LEMMA OwnedType ==
  ASSUME TypeOK, worker \in Busy, NEW k \in Kinds, withOwnedResource(k)
  PROVE  owner' \in [Kinds -> [Names -> Uids \cup {0}]]
<1>1. owner \in [Kinds -> [Names -> Uids \cup {0}]]
  BY Zenon DEF TypeOK, ClusterTypeOK
<1>2. worker.name \in Names /\ worker.uid \in Uids
  BY Zenon DEF Busy
<1>3. CASE Found(k)
  BY Zenon, <1>1, <1>3 DEF Found
<1>4. CASE Created(k)
  BY Zenon, <1>1, <1>2, <1>4 DEF Created
<1> QED
  BY Zenon, <1>3, <1>4 DEF withOwnedResource

(***************************************************************************)
(* At the start no volume is mounted and there is no Job.                  *)
(***************************************************************************)
LEMMA InitInv == Init => IInv
<1> SUFFICES ASSUME Init PROVE IInv
  BY Zenon
<1>1. ClusterTypeOK
  BY Zenon, ClusterInitType DEF Init
<1>2. TypeOK
  BY <1>1 DEF Init, ReconcilerInit, TypeOK, ClusterTypeOK
<1>3. VolumesInv
  BY Zenon, StepFacts DEF Init, ReconcilerInit, VolumesInv, Idle
<1>4. JobMountsItsCredentials
  BY Zenon DEF Init, ClusterInit, JobMountsItsCredentials, Kinds
<1> QED
  BY Zenon, <1>2, <1>3, <1>4 DEF IInv

(***************************************************************************)
(* Every step of the reconcile loop keeps the invariant.                   *)
(***************************************************************************)
LEMMA ReconcileInv == IInv /\ Reconcile => IInv'
<1> SUFFICES ASSUME IInv, Reconcile PROVE IInv'
  BY Zenon
<1> USE DEF IInv
<1>1. ASSUME NEW n \in Names, ReconcileReturns(n) PROVE IInv'
  <2>1. UNCHANGED <<clusterVars, worker, ownerCache, dynVolumes, jobVolumes>>
        /\ queue' \subseteq queue
    BY Zenon, <1>1 DEF ReconcileReturns
  <2> QED
    BY Zenon, <2>1 DEF TypeOK, ClusterTypeOK, clusterVars, VolumesInv, JobMountsItsCredentials
<1>2. ASSUME NEW n \in Names, ReconcileStarts(n) PROVE IInv'
  <2>1. Cached(n) \in Cibs
    <3>1. cibCache \in [Replicas -> [Names -> Cibs \cup {NoCib}]] /\ Leader \in Replicas
      BY Zenon, ReconcilerAssumption DEF TypeOK, ClusterTypeOK
    <3>2. cibCache[Leader][n] # NoCib
      BY Zenon, <1>2 DEF ReconcileStarts, Cached
    <3> QED
      BY Zenon, <3>1, <3>2 DEF Cached
  <2>2. worker' \in Busy /\ worker'.step # JobStep
    BY Zenon, <1>2, <2>1, StepFacts DEF ReconcileStarts, Busy, Cibs
  <2>3. TypeOK'
    BY Zenon, <1>2, <2>2 DEF ReconcileStarts, TypeOK, ClusterTypeOK, clusterVars, Busy
  <2>4. VolumesInv'
    BY Zenon, <1>2, <2>2, StepFacts DEF ReconcileStarts, VolumesInv, Idle
  <2> QED
    BY Zenon, <1>2, <2>3, <2>4 DEF ReconcileStarts, clusterVars, JobMountsItsCredentials
<1>3. CASE checkPrerequisite
  <2>1. worker \in Busy /\ worker.step \in DOMAIN Prerequisites
    BY <1>3, WorkerFacts, StepFacts DEF checkPrerequisite
  <2>2. KindAt(worker.step) \in Kinds /\ KindAt(worker.step) # "Job"
    BY <2>1, KindAtType, StepFacts, PrerequisitesAssumption
    DEF KindAt, SecretStep
  <2>3. owner' \in [Kinds -> [Names -> Uids \cup {0}]] /\ owner'["Job"] = owner["Job"]
    BY Zenon, <1>3, <2>1, <2>2, OwnedType
    DEF checkPrerequisite, withOwnedResource, Found, Created, TypeOK, ClusterTypeOK, Kinds
  <2>4. worker' = [worker EXCEPT !.step = @ + 1] /\ UNCHANGED queue
    BY Zenon, <1>3, <2>1, StepFacts DEF checkPrerequisite, Proceed
  <2>5. worker' \in Busy /\ worker'.step # JobStep
    BY Zenon, <2>1, <2>4, StepFacts DEF Busy
  <2>6. TypeOK'
    BY Zenon, <1>3, <2>3, <2>4, <2>5 DEF checkPrerequisite, TypeOK, ClusterTypeOK, Busy
  <2>7. VolumesInv'
    BY Zenon, <1>3, <2>1, <2>5, StepFacts DEF checkPrerequisite, VolumesInv
  <2> QED
    BY Zenon, <1>3, <2>3, <2>6, <2>7 DEF checkPrerequisite, JobMountsItsCredentials
<1>4. CASE NoDynamicRegistry
  <2>1. worker \in Busy /\ worker.step = SecretStep /\ worker.name \notin Dynamic
    BY <1>4, WorkerFacts, StepFacts DEF NoDynamicRegistry
  <2>2. worker' = [worker EXCEPT !.step = JobStep] /\ UNCHANGED queue
    BY Zenon, <1>4, <2>1, StepFacts DEF NoDynamicRegistry, Proceed
  <2>3. worker' \in Busy /\ worker'.name = worker.name
    BY <2>1, <2>2, StepFacts DEF Busy
  <2>4. TypeOK'
    BY Zenon, <1>4, <2>2, <2>3 DEF NoDynamicRegistry, TypeOK, ClusterTypeOK, clusterVars, Busy
  <2>5. VolumesInv'
    BY Zenon, <1>4, <2>1, <2>2, <2>3, StepFacts DEF NoDynamicRegistry, VolumesInv, OwnCredentials
  <2> QED
    BY Zenon, <1>4, <2>4, <2>5 DEF NoDynamicRegistry, clusterVars, JobMountsItsCredentials
<1>5. CASE checkCloudRegistrySecrets
  <2>1. worker \in Busy /\ worker.step = SecretStep /\ worker.name \in Dynamic
    BY <1>5, WorkerFacts, StepFacts DEF checkCloudRegistrySecrets
  <2>2. worker' = [worker EXCEPT !.step = JobStep] /\ UNCHANGED queue
    BY Zenon, <1>5, <2>1, StepFacts DEF checkCloudRegistrySecrets, Proceed
  <2>3. worker' \in Busy /\ worker'.name = worker.name /\ worker'.step = JobStep
    BY <2>1, <2>2, StepFacts DEF Busy
  <2>4. owner' \in [Kinds -> [Names -> Uids \cup {0}]] /\ owner'["Job"] = owner["Job"]
    BY Zenon, <1>5, <2>1, OwnedType
    DEF checkCloudRegistrySecrets, withOwnedResource, Found, Created, TypeOK, ClusterTypeOK, Kinds
  <2>5. dynVolumes = <<>>
    BY Zenon, <2>1, StepFacts DEF VolumesInv
  <2>6. dynVolumes' = <<worker.name>>
    BY <1>5, <2>5 DEF checkCloudRegistrySecrets
  <2>7. TypeOK'
    BY <1>5, <2>1, <2>2, <2>3, <2>4, <2>6
    DEF checkCloudRegistrySecrets, TypeOK, ClusterTypeOK, Busy
  <2>8. VolumesInv'
    BY Zenon, <2>1, <2>3, <2>6 DEF VolumesInv, OwnCredentials
  <2> QED
    BY Zenon, <1>5, <2>4, <2>7, <2>8 DEF checkCloudRegistrySecrets, JobMountsItsCredentials
<1>6. CASE createJobForBuild
  <2>1. worker \in Busy /\ worker.step = JobStep
    BY Zenon, <1>6, WorkerFacts, StepFacts DEF createJobForBuild
  <2>2. worker' = Idle /\ UNCHANGED queue /\ dynVolumes' = <<>>
    BY Zenon, <1>6, <2>1 DEF createJobForBuild, Proceed
  <2>3. dynVolumes = OwnCredentials(worker.name)
    BY Zenon, <2>1 DEF VolumesInv
  <2>4. owner' \in [Kinds -> [Names -> Uids \cup {0}]]
    BY Zenon, <1>6, <2>1, OwnedType DEF createJobForBuild, Kinds
  <2>5. jobVolumes' \in [Names -> Seq(Names)]
    BY Zenon, <1>6, <2>1 DEF createJobForBuild, TypeOK, Busy
  <2>6. TypeOK'
    BY <1>6, <2>2, <2>4, <2>5 DEF createJobForBuild, TypeOK, ClusterTypeOK
  <2>7. VolumesInv'
    BY Zenon, <2>2, StepFacts DEF VolumesInv, Idle
  <2>8. JobMountsItsCredentials'
    <3>1. CASE Found("Job")
      BY Zenon, <1>6, <3>1 DEF createJobForBuild, Found, JobMountsItsCredentials
    <3>2. CASE Created("Job")
      <4>1. "Job" \in Kinds /\ worker.name \in Names /\ worker.uid \in Uids /\ worker.uid # 0
        BY <2>1 DEF Kinds, Busy, Uids
      <4>2. owner'["Job"] = [owner["Job"] EXCEPT ![worker.name] = worker.uid]
        BY Zenon, <3>2, <4>1 DEF Created, TypeOK, ClusterTypeOK
      <4>3. owner["Job"][worker.name] = 0 /\ owner'["Job"][worker.name] # 0
        BY Zenon, <3>2, <4>1, <4>2 DEF Created, TypeOK, ClusterTypeOK
      <4>4. jobVolumes' = [jobVolumes EXCEPT ![worker.name] = OwnCredentials(worker.name)]
        BY Zenon, <1>6, <2>3, <4>3 DEF createJobForBuild
      <4> QED
        BY Zenon, <4>1, <4>2, <4>4 DEF JobMountsItsCredentials, TypeOK, ClusterTypeOK
    <3> QED
      BY Zenon, <1>6, <3>1, <3>2 DEF createJobForBuild, withOwnedResource
  <2> QED
    BY Zenon, <2>6, <2>7, <2>8
<1>7. CASE StepFails
  <2>1. worker \in Busy
    BY Zenon, <1>7, WorkerFacts DEF StepFails
  <2>2. worker' = Idle /\ queue' \subseteq Names
    BY Zenon, <1>7, <2>1 DEF StepFails, Requeue, TypeOK, Busy
  <2>3. dynVolumes' = <<>>
    BY Zenon, <1>7 DEF StepFails, VolumesInv
  <2>4. TypeOK'
    BY <1>7, <2>2, <2>3 DEF StepFails, TypeOK, ClusterTypeOK, clusterVars
  <2>5. VolumesInv'
    BY Zenon, <2>2, <2>3, StepFacts DEF VolumesInv, Idle
  <2> QED
    BY Zenon, <1>7, <2>4, <2>5 DEF StepFails, clusterVars, JobMountsItsCredentials
<1>8. CASE CreateUnanswered
  <2>1. worker \in Busy
    BY Zenon, <1>8, WorkerFacts DEF CreateUnanswered
  <2>2. KindAt(worker.step) \in Kinds /\ (KindAt(worker.step) = "Job" <=> worker.step = JobStep)
    BY Zenon, <2>1, KindAtType, KindAtJob DEF Busy
  <2>3. worker' = Idle /\ queue' \subseteq Names
    BY Zenon, <1>8, <2>1 DEF CreateUnanswered, Requeue, TypeOK, Busy
  <2>4. dynVolumes' = <<>>
    BY Zenon, <1>8 DEF CreateUnanswered, VolumesInv
  <2>5. owner' \in [Kinds -> [Names -> Uids \cup {0}]]
    BY Zenon, <1>8, <2>1, <2>2, OwnedType DEF CreateUnanswered, withOwnedResource
  <2>6. jobVolumes' \in [Names -> Seq(Names)]
    BY Zenon, <1>8, <2>1 DEF CreateUnanswered, TypeOK, Busy
  <2>7. TypeOK'
    BY <1>8, <2>3, <2>4, <2>5, <2>6 DEF CreateUnanswered, TypeOK, ClusterTypeOK
  <2>8. VolumesInv'
    BY Zenon, <2>3, <2>4, StepFacts DEF VolumesInv, Idle
  <2>9. JobMountsItsCredentials'
    <3>1. CASE worker.step = JobStep
      <4>1. Created("Job") /\ dynVolumes = OwnCredentials(worker.name)
        BY Zenon, <1>8, <2>2, <3>1 DEF CreateUnanswered, VolumesInv
      <4>2. owner'["Job"] = [owner["Job"] EXCEPT ![worker.name] = worker.uid]
        BY Zenon, <4>1 DEF Created, TypeOK, ClusterTypeOK, Kinds
      <4>3. jobVolumes' = [jobVolumes EXCEPT ![worker.name] = OwnCredentials(worker.name)]
        BY Zenon, <1>8, <3>1, <4>1 DEF CreateUnanswered
      <4> QED
        BY Zenon, <2>1, <4>2, <4>3 DEF JobMountsItsCredentials, TypeOK, ClusterTypeOK, Busy, Kinds
    <3>2. CASE worker.step # JobStep
      BY <1>8, <2>2, <3>2 DEF CreateUnanswered, Created, JobMountsItsCredentials, TypeOK, ClusterTypeOK
    <3> QED
      BY Zenon, <3>1, <3>2
  <2> QED
    BY Zenon, <2>7, <2>8, <2>9
<1> QED
  BY Zenon, <1>1, <1>2, <1>3, <1>4, <1>5, <1>6, <1>7, <1>8 DEF Reconcile

(***************************************************************************)
(* So does the environment: restarts, events, users, pods, the garbage     *)
(* collector.                                                              *)
(***************************************************************************)
LEMMA EnvironmentInv == IInv /\ Next /\ ~Reconcile => IInv'
<1> SUFFICES ASSUME IInv, Next, ~Reconcile PROVE IInv'
  BY Zenon
<1> USE DEF IInv
<1>0. ClusterTypeOK
  BY Zenon DEF TypeOK
<1>1. CASE ControllerRestarts
  <2>1. UNCHANGED <<cib, nameOf, clock, owner, jobVolumes>> /\ ownerCache' = owner
        /\ worker' = Idle /\ dynVolumes' = <<>> /\ queue' \subseteq Names
    BY Zenon, <1>1 DEF ControllerRestarts
  <2>2. cibCache' \in [Replicas -> [Names -> Cibs \cup {NoCib}]]
    BY Zenon, <1>0, <1>1 DEF ControllerRestarts, ClusterTypeOK
  <2>3. TypeOK'
    BY <1>0, <2>1, <2>2 DEF TypeOK, ClusterTypeOK
  <2>4. VolumesInv'
    BY Zenon, <2>1, StepFacts DEF VolumesInv, Idle
  <2> QED
    BY Zenon, <2>1, <2>3, <2>4 DEF JobMountsItsCredentials
<1>2. ASSUME NEW n \in Names, CibEvent(n) PROVE IInv'
  <2>1. ClusterTypeOK' /\ UNCHANGED owner
    BY Zenon, <1>0, <1>2, SyncType, ReconcilerAssumption DEF CibEvent, SyncCib
  <2> QED
    BY Zenon, <1>2, <2>1 DEF CibEvent, TypeOK, VolumesInv, JobMountsItsCredentials
<1>3. ASSUME NEW n \in Names, Resync(n) PROVE IInv'
  BY Zenon, <1>0, <1>3
  DEF Resync, TypeOK, ClusterTypeOK, clusterVars, VolumesInv, JobMountsItsCredentials
<1>4. ASSUME NEW n \in Names, JobReports(n) PROVE IInv'
  <2>1. cib' \in [Names -> Cibs \cup {NoCib}]
    BY Zenon, <1>0, <1>4, WriteType DEF JobReports, BuildStates
  <2> QED
    BY Zenon, <1>0, <1>4, <2>1
    DEF JobReports, TypeOK, ClusterTypeOK, reconcilerVars, VolumesInv, JobMountsItsCredentials
<1>5. ASSUME NEW n \in Names, Users(n) PROVE IInv'
  <2>1. ClusterTypeOK'
    BY Zenon, <1>0, <1>5, CreateType, DeleteType DEF Users
  <2>2. UNCHANGED <<owner, reconcilerVars>>
    BY <1>5, Zenon DEF Users, CreateCib, UserDeletes, UserDeletesForeground
  <2> QED
    BY Zenon, <2>1, <2>2 DEF TypeOK, reconcilerVars, VolumesInv, JobMountsItsCredentials
<1>6. ASSUME NEW n \in Names, Finalize(n) PROVE IInv'
  <2>1. ClusterTypeOK' /\ UNCHANGED <<owner, reconcilerVars>>
    BY Zenon, <1>0, <1>6, DeleteType DEF Finalize, FinalizeCib
  <2> QED
    BY Zenon, <2>1 DEF TypeOK, reconcilerVars, VolumesInv, JobMountsItsCredentials
<1>7. ASSUME NEW n \in Names, NEW k \in Kinds, OwnedEvent(k, n) PROVE IInv'
  <2>1. ownerCache' \in [Kinds -> [Names -> Uids \cup {0}]]
    BY Zenon, <1>0, <1>7 DEF OwnedEvent, TypeOK, ClusterTypeOK
  <2> QED
    BY Zenon, <1>0, <1>7, <2>1
    DEF OwnedEvent, TypeOK, ClusterTypeOK, clusterVars, VolumesInv, JobMountsItsCredentials
<1>8. ASSUME NEW n \in Names, NEW k \in Kinds, Collect(k, n) PROVE IInv'
  <2>1. owner' \in [Kinds -> [Names -> Uids \cup {0}]]
    BY Zenon, <1>0, <1>8, CollectOwnedType DEF Collect
  <2>2. UNCHANGED <<cib, nameOf, clock, cibCache, queue, worker, ownerCache, dynVolumes>>
        /\ jobVolumes' = IF k = "Job" THEN [jobVolumes EXCEPT ![n] = <<>>] ELSE jobVolumes
    BY Zenon, <1>8 DEF Collect
  <2>3. TypeOK'
    BY <1>0, <2>1, <2>2 DEF TypeOK, ClusterTypeOK
  <2>4. VolumesInv'
    BY Zenon, <2>2 DEF VolumesInv
  <2>5. owner' = [owner EXCEPT ![k][n] = 0] /\ owner \in [Kinds -> [Names -> Uids \cup {0}]]
    BY Zenon, <1>0, <1>8 DEF Collect, CollectOwned, ClusterTypeOK
  <2>6. JobMountsItsCredentials'
    BY Zenon, <2>2, <2>5 DEF JobMountsItsCredentials, TypeOK, Kinds
  <2> QED
    BY Zenon, <2>3, <2>4, <2>6
<1> QED
  BY Zenon, <1>1, <1>2, <1>3, <1>4, <1>5, <1>6, <1>7, <1>8 DEF Next

(***************************************************************************)
(* The invariant holds in every reachable state.                           *)
(***************************************************************************)
THEOREM Invariance == Spec => []IInv
<1>1. IInv /\ [Next]_vars => IInv'
  <2> SUFFICES ASSUME IInv, [Next]_vars PROVE IInv'
    BY Zenon
  <2>1. CASE Next
    BY Zenon, <2>1, ReconcileInv, EnvironmentInv
  <2>2. CASE UNCHANGED vars
    BY Zenon, <2>2 DEF IInv, vars, clusterVars, reconcilerVars, TypeOK, ClusterTypeOK,
                VolumesInv, JobMountsItsCredentials
  <2> QED
    BY Zenon, <2>1, <2>2
<1> QED
  BY <1>1, InitInv, PTL DEF Spec

(***************************************************************************)
(* The reconcile loop is type correct for every cluster: a reconcile is    *)
(* always at one of the steps of checkPrerequisites and createJobForBuild, *)
(* and the resources it leaves are owned by CIBs that were created.        *)
(***************************************************************************)
THEOREM TypeCorrect == Spec => []TypeOK
<1>1. IInv => TypeOK
  BY Zenon DEF IInv
<1> QED
  BY <1>1, Invariance, PTL

(***************************************************************************)
(* Whatever the number of CIBs, of failures, retries and restarts, a Job   *)
(* made by createJobForBuild mounts the dynamic credentials of its own     *)
(* build exactly once, or none when the build asks for none.               *)
(***************************************************************************)
THEOREM CredentialsSafe == Spec => []JobMountsItsCredentials
<1>1. IInv => JobMountsItsCredentials
  BY Zenon DEF IInv
<1> QED
  BY <1>1, Invariance, PTL

-----------------------------------------------------------------------------
(***************************************************************************)
(* The resources of a live build                                           *)
(***************************************************************************)

(***************************************************************************)
(* Every copy of a uid, however old, belongs to the name it is kept under. *)
(***************************************************************************)
UidInv ==
  /\ \A n \in Names : Exists(n) => Given(n, cib[n].uid)
  /\ \A n \in Names : Cached(n) # NoCib => Given(n, Cached(n).uid)
  /\ worker # Idle => Given(worker.name, worker.uid)
  /\ \A k \in Kinds, n \in Names : owner[k][n] # 0 => Given(n, owner[k][n])
  /\ \A k \in Kinds, n \in Names : ownerCache[k][n] # 0 => Given(n, ownerCache[k][n])

(***************************************************************************)
(* While a CIB is live the garbage collector leaves what it owns alone, so *)
(* that a cache never shows a resource that is gone; a reconcile of it has *)
(* made what its earlier steps are for; and its Job was made after them.   *)
(***************************************************************************)
LiveInv ==
  \A n \in Names : Live(n) =>
    /\ \A k \in Kinds : ownerCache[k][n] # 0 => owner[k][n] # 0
    /\ worker # Idle /\ worker.name = n =>
         \A i \in 1..JobStep :
           i < worker.step /\ KindAt(i) \in Required(n) => owner[KindAt(i)][n] # 0
    /\ owner["Job"][n] # 0 => \A k \in Required(n) : owner[k][n] # 0

OwnInv == UidInv /\ (NoReuse => NamesDiffer /\ LiveInv)

(***************************************************************************)
(* What a build requires is made in the steps before that of its Job.      *)
(***************************************************************************)
LEMMA RequiredSteps ==
  ASSUME NEW n \in Names, NEW k \in Required(n)
  PROVE  k \in Kinds /\ \E i \in 1..JobStep : i < JobStep /\ KindAt(i) = k
<1>1. k \in Kinds /\ k # "Job"
  BY Zenon DEF Required
<1>2. CASE k = "Secret"
  <2>1. SecretStep \in 1..JobStep /\ SecretStep < JobStep
    BY StepFacts
  <2> QED
    BY <1>1, <1>2, <2>1 DEF KindAt
<1>3. CASE k # "Secret"
  <2>1. PICK i \in DOMAIN Prerequisites : k = Prerequisites[i]
    BY Zenon, <1>1, <1>3 DEF Kinds
  <2>2. i \in 1..JobStep /\ i < JobStep /\ i # SecretStep /\ i # JobStep
    BY StepFacts DEF SecretStep, JobStep
  <2> QED
    BY Zenon, <1>1, <2>1, <2>2 DEF KindAt
<1> QED
  BY Zenon, <1>2, <1>3

(***************************************************************************)
(* withOwnedResource changes one resource at most, from none to one of the *)
(* uid that the reconcile has read.                                        *)
(***************************************************************************)
LEMMA OwnedGrows ==
  ASSUME TypeOK, worker \in Busy, NEW k \in Kinds, withOwnedResource(k)
  PROVE  /\ \A j \in Kinds, n \in Names :
              \/ owner'[j][n] = owner[j][n]
              \/ j = k /\ n = worker.name /\ owner[j][n] = 0 /\ owner'[j][n] = worker.uid
         /\ ownerCache[k][worker.name] # 0 \/ owner'[k][worker.name] # 0
<1>1. owner \in [Kinds -> [Names -> Uids \cup {0}]]
  BY Zenon DEF TypeOK, ClusterTypeOK
<1>2. worker.name \in Names /\ worker.uid # 0
  BY DEF Busy, Uids
<1> QED
  BY <1>1, <1>2 DEF withOwnedResource, Found, Created

\* A Job is made.
JobCreated(n) == owner["Job"][n] = 0 /\ owner'["Job"][n] # 0

\* No resource is taken away.
Grows == \A j \in Kinds, n \in Names : owner[j][n] # 0 => owner'[j][n] # 0

\* The reconcile goes on to its next step.
GoesOn ==
  /\ worker \in Busy
  /\ worker' = [worker EXCEPT !.step = @ + 1]
  /\ Live(worker.name) /\ KindAt(worker.step) \in Required(worker.name) =>
       owner'[KindAt(worker.step)][worker.name] # 0

(***************************************************************************)
(* A reconcile keeps what is known of live builds: it only adds resources, *)
(* goes on when the one of its step is there, and makes the Job last.      *)
(***************************************************************************)
LEMMA ReconcileLive ==
  ASSUME TypeOK, LiveInv, UNCHANGED <<cib, ownerCache>>, Grows,
         worker' = Idle \/ worker'.step = 1 \/ UNCHANGED worker \/ GoesOn,
         \A n \in Names : JobCreated(n) =>
           worker # Idle /\ n = worker.name /\ worker.step = JobStep
  PROVE  LiveInv'
<1> SUFFICES ASSUME NEW n \in Names, Live(n)
             PROVE
    /\ \A k \in Kinds : ownerCache[k][n] # 0 => owner'[k][n] # 0
    /\ worker' # Idle /\ worker'.name = n =>
         \A i \in 1..JobStep :
           i < worker'.step /\ KindAt(i) \in Required(n) => owner'[KindAt(i)][n] # 0
    /\ owner'["Job"][n] # 0 => \A k \in Required(n) : owner'[k][n] # 0
  BY Zenon DEF LiveInv, Live, Exists
<1>1. "Job" \in Kinds /\ \A i \in 1..JobStep : KindAt(i) \in Kinds
  BY Zenon, KindAtType DEF Kinds
<1>2. \A k \in Kinds : ownerCache[k][n] # 0 => owner'[k][n] # 0
  BY Zenon DEF LiveInv, Grows
<1>3. ASSUME owner'["Job"][n] # 0, NEW k \in Required(n) PROVE owner'[k][n] # 0
  <2>1. k \in Kinds
    BY Zenon DEF Required
  <2>2. CASE owner["Job"][n] # 0
    BY Zenon, <2>1, <2>2 DEF LiveInv, Grows
  <2>3. CASE owner["Job"][n] = 0
    <3>1. worker # Idle /\ n = worker.name /\ worker.step = JobStep
      BY Zenon, <1>3, <2>3 DEF JobCreated
    <3>2. PICK i \in 1..JobStep : i < JobStep /\ KindAt(i) = k
      BY Zenon, RequiredSteps
    <3>3. owner[k][n] # 0
      BY Zenon, <3>1, <3>2 DEF LiveInv
    <3> QED
      BY Zenon, <2>1, <3>3 DEF Grows
  <2> QED
    BY Zenon, <2>2, <2>3
<1>4. ASSUME worker' # Idle, worker'.name = n, NEW i \in 1..JobStep,
             i < worker'.step, KindAt(i) \in Required(n)
      PROVE  owner'[KindAt(i)][n] # 0
  <2>1. CASE worker'.step = 1
    BY <1>4, <2>1, StepFacts
  <2>2. CASE UNCHANGED worker
    BY Zenon, <1>1, <1>4, <2>2 DEF LiveInv, Grows
  <2>3. CASE GoesOn
    <3>1. worker.name = n /\ worker'.step = worker.step + 1 /\ worker.step \in 1..JobStep
      BY Zenon, <1>4, <2>3 DEF GoesOn, Busy
    <3>2. i < worker.step \/ i = worker.step
      BY <1>4, <3>1, StepFacts
    <3>3. CASE i = worker.step
      BY Zenon, <1>4, <2>3, <3>1, <3>3 DEF GoesOn
    <3>4. CASE i < worker.step
      <4>1. worker # Idle
        BY Zenon, <2>3, BusyIsNotIdle DEF GoesOn
      <4> QED
        BY Zenon, <1>1, <1>4, <3>1, <3>4, <4>1 DEF LiveInv, Grows
    <3> QED
      BY Zenon, <3>2, <3>3, <3>4
  <2> QED
    BY Zenon, <1>4, <2>1, <2>2, <2>3
<1> QED
  BY Zenon, <1>2, <1>3, <1>4

(***************************************************************************)
(* Nor does the environment change it: a cache shows what is or was there, *)
(* and no CIB becomes live.                                                *)
(***************************************************************************)
LEMMA EnvironmentLive ==
  ASSUME TypeOK, LiveInv, UNCHANGED owner, worker' = Idle \/ UNCHANGED worker,
         \A k \in Kinds, n \in Names : ownerCache'[k][n] \in {ownerCache[k][n], owner[k][n]},
         \A n \in Names : Live(n)' => Live(n)
  PROVE  LiveInv'
<1> SUFFICES ASSUME NEW n \in Names, Live(n)'
             PROVE
    /\ \A k \in Kinds : ownerCache'[k][n] # 0 => owner[k][n] # 0
    /\ worker' # Idle /\ worker'.name = n =>
         \A i \in 1..JobStep :
           i < worker'.step /\ KindAt(i) \in Required(n) => owner[KindAt(i)][n] # 0
    /\ owner["Job"][n] # 0 => \A k \in Required(n) : owner[k][n] # 0
  BY Zenon DEF LiveInv
<1> QED
  BY Zenon DEF LiveInv

(***************************************************************************)
(* A resource of a CIB that exists is its own when names are not used      *)
(* again.  The garbage collector therefore leaves what a live one owns.    *)
(***************************************************************************)
LEMMA OwnersOfLive ==
  ASSUME UidInv, NamesDiffer, NEW n \in Names, Exists(n), NEW k \in Kinds, owner[k][n] # 0
  PROVE  owner[k][n] = cib[n].uid
  BY DEF UidInv, NamesDiffer, Given

(***************************************************************************)
(* At the start there are no CIBs and no resources.                        *)
(***************************************************************************)
LEMMA OwnInit == Init => OwnInv
<1> SUFFICES ASSUME Init PROVE OwnInv
  BY Zenon
<1>1. /\ cib = [n \in Names |-> NoCib] /\ owner = [k \in Kinds |-> [n \in Names |-> 0]]
      /\ cibCache = [r \in Replicas |-> [n \in Names |-> NoCib]]
      /\ nameOf = <<>> /\ ownerCache = owner /\ worker = Idle
  BY Zenon DEF Init, ClusterInit, ReconcilerInit
<1>2. UidInv
  BY Zenon, <1>1, ReconcilerAssumption DEF UidInv, Exists, Cached
<1>3. LiveInv
  BY Zenon, <1>1 DEF LiveInv, Live, Exists
<1>4. NamesDiffer
  BY <1>1 DEF NamesDiffer
<1> QED
  BY Zenon, <1>2, <1>3, <1>4 DEF OwnInv

(***************************************************************************)
(* The steps of the reconcile loop keep OwnInv.                            *)
(***************************************************************************)
LEMMA OwnReconcile == TypeOK /\ OwnInv /\ Reconcile => OwnInv'
<1> SUFFICES ASSUME TypeOK, OwnInv, Reconcile PROVE OwnInv'
  BY Zenon
<1>1. UNCHANGED <<cib, nameOf, cibCache, ownerCache>>
  BY Zenon DEF Reconcile, ReconcileReturns, ReconcileStarts, checkPrerequisite, NoDynamicRegistry,
     checkCloudRegistrySecrets, createJobForBuild, StepFails, CreateUnanswered, clusterVars
<1>2. worker \in Busy => Given(worker.name, worker.uid)
  BY Zenon, BusyIsNotIdle DEF OwnInv, UidInv
<1>3. ASSUME worker' # Idle => Given(worker'.name, worker'.uid),
             \A j \in Kinds, n \in Names : owner'[j][n] # 0 => Given(n, owner'[j][n])
      PROVE  UidInv'
  BY Zenon, <1>1, <1>3 DEF OwnInv, UidInv, Given, Exists, Cached
<1>4. NoReuse => NamesDiffer'
  BY Zenon, <1>1 DEF OwnInv, NamesDiffer
<1>5. ASSUME NEW n \in Names, ReconcileReturns(n) PROVE OwnInv'
  <2>1. UNCHANGED <<owner, worker>>
    BY Zenon, <1>5 DEF ReconcileReturns, clusterVars
  <2>2. UidInv'
    BY Zenon, <1>3, <2>1 DEF OwnInv, UidInv
  <2>3. NoReuse => LiveInv'
    BY Zenon, <1>1, <2>1, ReconcileLive DEF OwnInv, Grows, JobCreated
  <2> QED
    BY Zenon, <1>4, <2>2, <2>3 DEF OwnInv, NoReuse
<1>6. ASSUME NEW n \in Names, ReconcileStarts(n) PROVE OwnInv'
  <2>1. UNCHANGED owner /\ Cached(n) # NoCib
        /\ worker' = [step |-> 1, name |-> n, uid |-> Cached(n).uid]
    BY Zenon, <1>6 DEF ReconcileStarts, clusterVars
  <2>2. Given(worker'.name, worker'.uid)
    BY Zenon, <2>1 DEF OwnInv, UidInv
  <2>3. UidInv'
    BY Zenon, <1>3, <2>1, <2>2 DEF OwnInv, UidInv
  <2>4. NoReuse => LiveInv'
    BY Zenon, <1>1, <2>1, ReconcileLive DEF OwnInv, Grows, JobCreated
  <2> QED
    BY Zenon, <1>4, <2>3, <2>4 DEF OwnInv, NoReuse
<1>7. ASSUME worker \in Busy, UNCHANGED owner \/ withOwnedResource(KindAt(worker.step)),
             \/ worker' = Idle
             \/ /\ worker' = [worker EXCEPT !.step = @ + 1]
                /\ KindAt(worker.step) \in Required(worker.name) =>
                     withOwnedResource(KindAt(worker.step))
      PROVE  OwnInv'
  <2> DEFINE k == KindAt(worker.step)
  <2>1. k \in Kinds /\ (k = "Job" <=> worker.step = JobStep)
    BY Zenon, <1>7, KindAtType, KindAtJob DEF Busy
  <2>2. /\ \A j \in Kinds, n \in Names :
             \/ owner'[j][n] = owner[j][n]
             \/ j = k /\ n = worker.name /\ owner[j][n] = 0 /\ owner'[j][n] = worker.uid
        /\ withOwnedResource(k) => ownerCache[k][worker.name] # 0 \/ owner'[k][worker.name] # 0
    BY Zenon, <1>7, <2>1, OwnedGrows
  <2>3. worker' # Idle => Given(worker'.name, worker'.uid)
    BY Zenon, <1>2, <1>7 DEF Busy
  <2>4. UidInv'
    BY <1>2, <1>3, <1>7, <2>2, <2>3 DEF OwnInv, UidInv
  <2>5. ASSUME NoReuse PROVE LiveInv'
    <3>1. LiveInv /\ worker.name \in Names
      BY Zenon, <1>7, <2>5 DEF OwnInv, Busy
    <3>2. Grows
      BY Zenon, <2>2 DEF Grows
    <3>3. worker' = Idle \/ GoesOn
      <4>1. Live(worker.name) /\ withOwnedResource(k) => owner'[k][worker.name] # 0
        BY Zenon, <2>1, <2>2, <3>1, <3>2 DEF LiveInv, Grows
      <4> QED
        BY Zenon, <1>7, <4>1 DEF GoesOn
    <3>4. \A n \in Names : JobCreated(n) =>
            worker # Idle /\ n = worker.name /\ worker.step = JobStep
      <4>1. "Job" \in Kinds /\ worker # Idle
        BY Zenon, <1>7, BusyIsNotIdle DEF Kinds
      <4> QED
        BY Zenon, <2>1, <2>2, <4>1 DEF JobCreated
    <3> QED
      BY Zenon, <1>1, <3>1, <3>2, <3>3, <3>4, ReconcileLive
  <2> QED
    BY Zenon, <1>4, <2>4, <2>5 DEF OwnInv, NoReuse
<1>8. CASE checkPrerequisite
  <2>1. worker \in Busy /\ worker.step # JobStep
    BY <1>8, WorkerFacts, StepFacts DEF checkPrerequisite
  <2>2. withOwnedResource(KindAt(worker.step)) /\ worker' = [worker EXCEPT !.step = @ + 1]
    BY Zenon, <1>8, <2>1 DEF checkPrerequisite, Proceed
  <2> QED
    BY Zenon, <1>7, <2>1, <2>2
<1>9. CASE NoDynamicRegistry
  <2>1. worker \in Busy /\ worker.step = SecretStep /\ worker.name \notin Dynamic
    BY <1>9, WorkerFacts, StepFacts DEF NoDynamicRegistry
  <2>2. UNCHANGED owner /\ worker' = [worker EXCEPT !.step = @ + 1]
    BY Zenon, <1>9, <2>1, StepFacts DEF NoDynamicRegistry, Proceed, clusterVars
  <2>3. KindAt(worker.step) \notin Required(worker.name)
    BY Zenon, <2>1 DEF KindAt, Required
  <2> QED
    BY Zenon, <1>7, <2>1, <2>2, <2>3
<1>10. CASE checkCloudRegistrySecrets
  <2>1. worker \in Busy /\ worker.step = SecretStep /\ KindAt(worker.step) = "Secret"
    BY <1>10, WorkerFacts, StepFacts DEF checkCloudRegistrySecrets, KindAt
  <2>2. withOwnedResource(KindAt(worker.step)) /\ worker' = [worker EXCEPT !.step = @ + 1]
    BY Zenon, <1>10, <2>1, StepFacts DEF checkCloudRegistrySecrets, Proceed
  <2> QED
    BY Zenon, <1>7, <2>1, <2>2
<1>11. CASE createJobForBuild
  <2>1. worker \in Busy /\ worker.step = JobStep /\ KindAt(worker.step) = "Job"
    BY Zenon, <1>11, WorkerFacts, StepFacts DEF createJobForBuild, KindAt
  <2>2. withOwnedResource(KindAt(worker.step)) /\ worker' = Idle
    BY Zenon, <1>11, <2>1 DEF createJobForBuild, Proceed
  <2> QED
    BY Zenon, <1>7, <2>1, <2>2
<1>12. CASE StepFails
  <2>1. worker \in Busy /\ UNCHANGED owner /\ worker' = Idle
    BY Zenon, <1>12, WorkerFacts DEF StepFails, Requeue, clusterVars
  <2> QED
    BY Zenon, <1>7, <2>1
<1>13. CASE CreateUnanswered
  <2>1. worker \in Busy /\ withOwnedResource(KindAt(worker.step)) /\ worker' = Idle
    BY Zenon, <1>13, WorkerFacts DEF CreateUnanswered, Requeue, withOwnedResource
  <2> QED
    BY Zenon, <1>7, <2>1
<1> QED
  BY Zenon, <1>5, <1>6, <1>8, <1>9, <1>10, <1>11, <1>12, <1>13 DEF Reconcile

(***************************************************************************)
(* A step of the environment that creates no CIB and removes no resource.  *)
(***************************************************************************)
LEMMA QuietStep ==
  ASSUME TypeOK, OwnInv, UNCHANGED <<nameOf, owner>>,
         worker' = Idle \/ UNCHANGED worker,
         \A k \in Kinds, n \in Names : ownerCache'[k][n] \in {ownerCache[k][n], owner[k][n]},
         \A n \in Names :
           /\ Exists(n)' => Exists(n) /\ cib'[n].uid = cib[n].uid
           /\ Live(n)' => Live(n)
           /\ Cached(n)' \in {Cached(n), cib[n]}
  PROVE  OwnInv'
<1>1. UidInv'
  BY DEF OwnInv, UidInv, Given, Exists
<1>2. NoReuse => LiveInv'
  BY Zenon, EnvironmentLive DEF OwnInv
<1> QED
  BY Zenon, <1>1, <1>2 DEF OwnInv, NoReuse, NamesDiffer

(***************************************************************************)
(* A new CIB: no resource, cache or reconcile has its name yet unless      *)
(* names are used again.                                                   *)
(***************************************************************************)
LEMMA OwnCreate ==
  ASSUME TypeOK, OwnInv, NEW n \in Names, CreateCib(n), UNCHANGED reconcilerVars
  PROVE  OwnInv'
<1>1. ClusterTypeOK
  BY Zenon DEF TypeOK
<1>2. /\ cib' = [cib EXCEPT ![n] =
           [uid |-> Len(nameOf) + 1, created |-> clock', state |-> "", ver |-> 1,
            deleting |-> FALSE]]
      /\ UNCHANGED <<cibCache, owner, worker, ownerCache>>
  BY Zenon DEF CreateCib, reconcilerVars
<1>3. \A m, v : Given(m, v) => Given(m, v)'
  BY Zenon, <1>1, CreateGives
<1>4. \A m \in Names \ {n} : cib'[m] = cib[m]
  BY Zenon, <1>1, <1>2 DEF ClusterTypeOK
<1>5. cib'[n].uid = Len(nameOf) + 1
  BY Zenon, <1>1, <1>2 DEF ClusterTypeOK
<1>6. (\A m \in Names : Exists(m) => Given(m, cib[m].uid))'
  <2>1. Len(nameOf) + 1 \in DOMAIN nameOf' /\ nameOf'[Len(nameOf) + 1] = n
    BY Zenon, <1>1, CreateGives
  <2>2. \A m \in Names \ {n} : Exists(m)' => Given(m, cib[m].uid)
    BY Zenon, <1>4 DEF Exists, OwnInv, UidInv
  <2>3. \A m \in Names \ {n} :
          Exists(m)' => cib'[m].uid \in DOMAIN nameOf' /\ nameOf'[cib'[m].uid] = m
    BY <1>3, <1>4, <2>2 DEF Given
  <2> QED
    BY Zenon, <1>5, <2>1, <2>3 DEF Given
<1>7. UidInv'
  BY Zenon, <1>2, <1>3, <1>6 DEF OwnInv, UidInv, Cached
<1>8. ASSUME NoReuse PROVE NamesDiffer' /\ LiveInv'
  <2>1. NamesDiffer' /\ \A v : ~Given(n, v)
    BY Zenon, <1>1, <1>8, CreateNames DEF OwnInv
  <2>2. /\ \A k \in Kinds : owner[k][n] = 0 /\ ownerCache[k][n] = 0
        /\ worker # Idle => worker.name # n
    BY Zenon, <2>1 DEF OwnInv, UidInv
  <2>3. \A m \in Names \ {n} : Live(m)' => Live(m)
    BY Zenon, <1>4 DEF Live, Exists
  <2>4. "Job" \in Kinds /\ \A m \in Names : Required(m) \subseteq Kinds
    BY Zenon DEF Kinds, Required
  <2>5. LiveInv'
    <3> SUFFICES ASSUME NEW m \in Names, Live(m)'
                 PROVE
        /\ \A k \in Kinds : ownerCache[k][m] # 0 => owner[k][m] # 0
        /\ worker # Idle /\ worker.name = m =>
             \A i \in 1..JobStep :
               i < worker.step /\ KindAt(i) \in Required(m) => owner[KindAt(i)][m] # 0
        /\ owner["Job"][m] # 0 => \A k \in Required(m) : owner[k][m] # 0
      BY Zenon, <1>2 DEF LiveInv
    <3>1. CASE m = n
      BY Zenon, <2>2, <2>4, <3>1
    <3>2. CASE m # n
      BY Zenon, <1>8, <2>3, <3>2 DEF OwnInv, LiveInv
    <3> QED
      BY Zenon, <3>1, <3>2
  <2> QED
    BY Zenon, <2>1, <2>5
<1> QED
  BY Zenon, <1>7, <1>8 DEF OwnInv, NoReuse

(***************************************************************************)
(* The Kubernetes garbage collector takes nothing from a live CIB.         *)
(***************************************************************************)
LEMMA OwnCollect ==
  ASSUME TypeOK, OwnInv, NEW k \in Kinds, NEW n \in Names, Collect(k, n)
  PROVE  OwnInv'
<1>1. /\ owner \in [Kinds -> [Names -> Uids \cup {0}]]
      /\ owner[k][n] # 0 /\ Garbage(owner[k][n]) /\ owner' = [owner EXCEPT ![k][n] = 0]
      /\ UNCHANGED <<cib, nameOf, cibCache, worker, ownerCache>>
  BY Zenon DEF TypeOK, ClusterTypeOK, Collect, CollectOwned
<1>2. /\ owner'[k][n] = 0
      /\ \A j \in Kinds, m \in Names : j # k \/ m # n => owner'[j][m] = owner[j][m]
  BY Zenon, <1>1
<1>3. UidInv'
  BY <1>1, <1>2 DEF OwnInv, UidInv, Given, Exists, Cached
<1>4. ASSUME NoReuse PROVE LiveInv'
  <2>1. ~Live(n)
    BY Zenon, <1>1, <1>4, OwnersOfLive DEF OwnInv, Live, Garbage
  <2>2. \A m \in Names : Live(m)' => Live(m) /\ m # n
    BY Zenon, <1>1, <2>1 DEF Live, Exists
  <2>3. \A m \in Names \ {n} : \A j \in Kinds : owner'[j][m] = owner[j][m]
    BY Zenon, <1>2
  <2>4. /\ "Job" \in Kinds /\ \A m \in Names : Required(m) \subseteq Kinds
        /\ \A i \in 1..JobStep : KindAt(i) \in Kinds
    BY Zenon, KindAtType DEF Kinds, Required
  <2> SUFFICES ASSUME NEW m \in Names, Live(m), m # n
               PROVE
      /\ \A j \in Kinds : ownerCache[j][m] # 0 => owner'[j][m] # 0
      /\ worker # Idle /\ worker.name = m =>
           \A i \in 1..JobStep :
             i < worker.step /\ KindAt(i) \in Required(m) => owner'[KindAt(i)][m] # 0
      /\ owner'["Job"][m] # 0 => \A j \in Required(m) : owner'[j][m] # 0
    BY Zenon, <1>1, <2>2 DEF LiveInv
  <2>5. \A j \in Kinds : owner'[j][m] = owner[j][m]
    BY Zenon, <2>3
  <2> QED
    BY Zenon, <1>4, <2>4, <2>5 DEF OwnInv, LiveInv
<1> QED
  BY Zenon, <1>1, <1>3, <1>4 DEF OwnInv, NoReuse, NamesDiffer

(***************************************************************************)
(* The environment as a whole.                                             *)
(***************************************************************************)
LEMMA OwnEnvironment == TypeOK /\ OwnInv /\ Next /\ ~Reconcile => OwnInv'
<1> SUFFICES ASSUME TypeOK, OwnInv, Next, ~Reconcile PROVE OwnInv'
  BY Zenon
<1>1. /\ cib \in [Names -> Cibs \cup {NoCib}] /\ Leader \in Replicas
      /\ cibCache \in [Replicas -> [Names -> Cibs \cup {NoCib}]]
      /\ ownerCache \in [Kinds -> [Names -> Uids \cup {0}]]
  BY Zenon, ReconcilerAssumption DEF TypeOK, ClusterTypeOK
<1>2. CASE ControllerRestarts
  <2>1. /\ UNCHANGED <<cib, nameOf, owner>> /\ worker' = Idle /\ ownerCache' = owner
        /\ cibCache' = [cibCache EXCEPT ![Leader] = cib]
    BY Zenon, <1>2 DEF ControllerRestarts
  <2>2. \A n \in Names : Cached(n)' = cib[n]
    BY Zenon, <1>1, <2>1 DEF Cached
  <2> QED
    BY Zenon, <2>1, <2>2, QuietStep DEF Live, Exists
<1>3. ASSUME NEW n \in Names, CibEvent(n) PROVE OwnInv'
  <2>1. /\ UNCHANGED <<cib, nameOf, owner, worker, ownerCache>>
        /\ cibCache' = [cibCache EXCEPT ![Leader][n] = cib[n]]
    BY Zenon, <1>3 DEF CibEvent, SyncCib
  <2>2. \A m \in Names : Cached(m)' \in {Cached(m), cib[m]}
    BY Zenon, <1>1, <2>1 DEF Cached
  <2> QED
    BY Zenon, <2>1, <2>2, QuietStep DEF Live, Exists
<1>4. ASSUME NEW n \in Names, Resync(n) PROVE OwnInv'
  <2>1. UNCHANGED <<cib, nameOf, cibCache, owner, worker, ownerCache>>
    BY Zenon, <1>4 DEF Resync, clusterVars
  <2> QED
    BY Zenon, <2>1, QuietStep DEF Live, Exists, Cached
<1>5. ASSUME NEW n \in Names, JobReports(n) PROVE OwnInv'
  <2>1. /\ Exists(n) /\ WriteState(n, "Building")
        /\ UNCHANGED <<nameOf, cibCache, owner, worker, ownerCache>>
    BY Zenon, <1>5 DEF JobReports, reconcilerVars
  <2>2. \A m \in Names : /\ Exists(m)' => Exists(m)
                         /\ cib'[m].uid = cib[m].uid /\ cib'[m].deleting = cib[m].deleting
    BY Zenon, <1>1, <2>1 DEF WriteState, Exists, Cibs
  <2> QED
    BY Zenon, <2>1, <2>2, QuietStep DEF Live, Cached
<1>6. ASSUME NEW n \in Names, Users(n) \/ Finalize(n), ~CreateCib(n) PROVE OwnInv'
  <2>1. /\ Exists(n) /\ (RemoveCib(n) \/ ForegroundDelete(n))
        /\ UNCHANGED <<nameOf, cibCache, owner, worker, ownerCache>>
    BY Zenon, <1>6
    DEF Users, UserDeletes, UserDeletesForeground, Finalize, FinalizeCib, RemoveCib, reconcilerVars
  <2>2. \A m \in Names : /\ Exists(m)' => Exists(m) /\ cib'[m].uid = cib[m].uid
                         /\ Live(m)' => Live(m)
    <3>1. CASE RemoveCib(n)
      BY Zenon, <1>1, <3>1 DEF RemoveCib, Live, Exists
    <3>2. CASE ForegroundDelete(n)
      BY <1>1, <2>1, <3>2 DEF ForegroundDelete, Live, Exists, Cibs
    <3> QED
      BY Zenon, <2>1, <3>1, <3>2
  <2> QED
    BY Zenon, <2>1, <2>2, QuietStep DEF Cached
<1>7. ASSUME NEW n \in Names, Users(n), CreateCib(n) PROVE OwnInv'
  BY Zenon, <1>7, OwnCreate DEF Users
<1>8. ASSUME NEW n \in Names, NEW k \in Kinds, OwnedEvent(k, n) PROVE OwnInv'
  <2>1. /\ ownerCache' = [ownerCache EXCEPT ![k][n] = owner[k][n]]
        /\ UNCHANGED <<cib, nameOf, cibCache, owner, worker>>
    BY Zenon, <1>8 DEF OwnedEvent, clusterVars
  <2>2. \A j \in Kinds, m \in Names : ownerCache'[j][m] \in {ownerCache[j][m], owner[j][m]}
    BY Zenon, <1>1, <2>1
  <2> QED
    BY Zenon, <2>1, <2>2, QuietStep DEF Live, Exists, Cached
<1>9. ASSUME NEW n \in Names, NEW k \in Kinds, Collect(k, n) PROVE OwnInv'
  BY Zenon, <1>9, OwnCollect
<1>10. ASSUME NEW n \in Names, Finalize(n), CreateCib(n) PROVE OwnInv'
  BY Zenon, <1>10 DEF Finalize, FinalizeCib, CreateCib
<1> QED
  BY Zenon, <1>2, <1>3, <1>4, <1>5, <1>6, <1>7, <1>8, <1>9, <1>10 DEF Next

(***************************************************************************)
(* OwnInv holds in every reachable state.                                  *)
(***************************************************************************)
THEOREM OwnInvariance == Spec => []OwnInv
<1>1. TypeOK /\ OwnInv /\ [Next]_vars => OwnInv'
  <2> SUFFICES ASSUME TypeOK, OwnInv, [Next]_vars PROVE OwnInv'
    BY Zenon
  <2>1. CASE Next
    BY Zenon, <2>1, OwnReconcile, OwnEnvironment
  <2>2. CASE UNCHANGED vars
    <3>1. UNCHANGED <<cib, nameOf, cibCache, owner, worker, ownerCache>>
      BY Zenon, <2>2 DEF vars, clusterVars, reconcilerVars
    <3> QED
      BY Zenon, <3>1, QuietStep DEF Live, Exists, Cached
  <2> QED
    BY Zenon, <2>1, <2>2
<1> QED
  BY <1>1, OwnInit, TypeCorrect, PTL DEF Spec

(***************************************************************************)
(* As long as no name is used again, the Job of a live CIB has everything  *)
(* its pod needs, of the same incarnation, although the reconcile loop     *)
(* looks for it in caches that may be out of date.                         *)
(***************************************************************************)
THEOREM PrerequisitesSafe ==
  ASSUME NoReuse
  PROVE  Spec => []LiveJobHasPrerequisites
<1>1. TypeOK /\ OwnInv => LiveJobHasPrerequisites
  <2> SUFFICES ASSUME TypeOK, OwnInv, NEW n \in Names, Live(n),
                      owner["Job"][n] = cib[n].uid, NEW k \in Required(n)
               PROVE  owner[k][n] = cib[n].uid
    BY Zenon DEF LiveJobHasPrerequisites
  <2>1. Exists(n) /\ k \in Kinds /\ cib[n].uid # 0
    BY DEF Live, Exists, Required, TypeOK, ClusterTypeOK, Cibs, Uids
  <2>2. owner[k][n] # 0
    BY Zenon, <2>1 DEF OwnInv, LiveInv
  <2> QED
    BY Zenon, <2>1, <2>2, OwnersOfLive DEF OwnInv
<1> QED
  BY <1>1, TypeCorrect, OwnInvariance, PTL

-----------------------------------------------------------------------------
(***************************************************************************)
(* Where uids come from                                                    *)
(***************************************************************************)

(***************************************************************************)
(* The worker takes a uid from the cache, the cache from the cluster, and  *)
(* a resource from the worker; a new CIB has a new one.                    *)
(***************************************************************************)
Origins ==
  /\ worker'.uid \in {0, worker.uid} \cup {Cached(n).uid : n \in Names}
  /\ \A n \in Names : Cached(n)' \in {Cached(n), cib[n]}
  /\ \A k \in Kinds, n \in Names : owner'[k][n] \in {0, owner[k][n], worker.uid}
  /\ \A n \in Names : cib'[n].uid \in {0, cib[n].uid} \/ cib'[n].uid \notin DOMAIN nameOf
  /\ DOMAIN nameOf \subseteq DOMAIN nameOf'

(***************************************************************************)
(* So it is in the steps of the reconcile loop.                            *)
(***************************************************************************)
LEMMA ReconcileOrigins == TypeOK /\ Reconcile => Origins
<1> SUFFICES ASSUME TypeOK, Reconcile PROVE Origins
  BY Zenon
<1>1. UNCHANGED <<cib, nameOf, cibCache>>
  BY Zenon DEF Reconcile, ReconcileReturns, ReconcileStarts, checkPrerequisite, NoDynamicRegistry,
     checkCloudRegistrySecrets, createJobForBuild, StepFails, CreateUnanswered, clusterVars
<1>2. ASSUME worker'.uid \in {0, worker.uid} \cup {Cached(n).uid : n \in Names},
             \A k \in Kinds, n \in Names : owner'[k][n] \in {0, owner[k][n], worker.uid}
      PROVE  Origins
  BY Zenon, <1>1, <1>2 DEF Origins, Cached
<1>3. ASSUME NEW n \in Names, ReconcileReturns(n) \/ ReconcileStarts(n) PROVE Origins
  <2>1. UNCHANGED owner /\ worker'.uid \in {worker.uid, Cached(n).uid}
    <3>1. CASE ReconcileReturns(n)
      BY Zenon, <3>1 DEF ReconcileReturns, clusterVars
    <3>2. CASE ReconcileStarts(n)
      BY Zenon, <3>2 DEF ReconcileStarts, clusterVars
    <3> QED
      BY Zenon, <1>3, <3>1, <3>2
  <2> QED
    BY Zenon, <1>2, <2>1
<1>4. ASSUME worker \in Busy, worker' = Idle \/ worker' = [worker EXCEPT !.step = @ + 1],
             UNCHANGED owner \/ \E k \in Kinds : withOwnedResource(k)
      PROVE  Origins
  <2>1. worker'.uid \in {0, worker.uid}
    <3>1. CASE worker' = Idle
      BY Zenon, <3>1 DEF Idle
    <3>2. CASE worker' = [worker EXCEPT !.step = @ + 1]
      BY Zenon, <1>4, <3>2 DEF Busy
    <3> QED
      BY Zenon, <1>4, <3>1, <3>2
  <2>2. \A k \in Kinds, n \in Names : owner'[k][n] \in {0, owner[k][n], worker.uid}
    BY Zenon, <1>4, OwnedGrows
  <2> QED
    BY Zenon, <1>2, <2>1, <2>2
<1>5. CASE checkPrerequisite
  <2>1. worker \in Busy /\ KindAt(worker.step) \in Kinds
    BY <1>5, WorkerFacts, StepFacts, KindAtType DEF checkPrerequisite
  <2> QED
    BY Zenon, <1>4, <1>5, <2>1 DEF checkPrerequisite, Proceed
<1>6. CASE NoDynamicRegistry
  <2>1. worker \in Busy
    BY <1>6, WorkerFacts, StepFacts DEF NoDynamicRegistry
  <2> QED
    BY Zenon, <1>4, <1>6, <2>1 DEF NoDynamicRegistry, Proceed, clusterVars
<1>7. CASE checkCloudRegistrySecrets
  <2>1. worker \in Busy /\ "Secret" \in Kinds
    BY <1>7, WorkerFacts, StepFacts DEF checkCloudRegistrySecrets, Kinds
  <2> QED
    BY Zenon, <1>4, <1>7, <2>1 DEF checkCloudRegistrySecrets, Proceed
<1>8. CASE createJobForBuild
  <2>1. worker \in Busy /\ "Job" \in Kinds
    BY Zenon, <1>8, WorkerFacts, StepFacts DEF createJobForBuild, Kinds
  <2> QED
    BY Zenon, <1>4, <1>8, <2>1 DEF createJobForBuild, Proceed
<1>9. CASE StepFails
  BY Zenon, <1>4, <1>9, WorkerFacts DEF StepFails, Requeue, clusterVars
<1>10. CASE CreateUnanswered
  <2>1. worker \in Busy /\ KindAt(worker.step) \in Kinds
    BY Zenon, <1>10, WorkerFacts, KindAtType DEF CreateUnanswered, Busy
  <2> QED
    BY Zenon, <1>4, <1>10, <2>1 DEF CreateUnanswered, Requeue, withOwnedResource
<1> QED
  BY Zenon, <1>3, <1>5, <1>6, <1>7, <1>8, <1>9, <1>10 DEF Reconcile

(***************************************************************************)
(* And in those of the environment, a restart of the controller included.  *)
(***************************************************************************)
LEMMA EnvironmentOrigins == TypeOK /\ Next /\ ~Reconcile => Origins
<1> SUFFICES ASSUME TypeOK, Next, ~Reconcile PROVE Origins
  BY Zenon
<1>1. /\ cib \in [Names -> Cibs \cup {NoCib}] /\ Leader \in Replicas
      /\ cibCache \in [Replicas -> [Names -> Cibs \cup {NoCib}]]
      /\ owner \in [Kinds -> [Names -> Uids \cup {0}]]
      /\ ClusterTypeOK
  BY Zenon, ReconcilerAssumption DEF TypeOK, ClusterTypeOK
<1>2. ASSUME UNCHANGED <<nameOf, owner>>, worker' = Idle \/ UNCHANGED worker,
             \A n \in Names : /\ cib'[n].uid \in {0, cib[n].uid}
                             /\ Cached(n)' \in {Cached(n), cib[n]}
      PROVE  Origins
  <2>1. Idle.uid = 0
    BY Zenon DEF Idle
  <2>2. worker'.uid \in {0, worker.uid}
    BY Zenon, <1>2, <2>1
  <2> QED
    BY Zenon, <1>2, <2>2 DEF Origins
<1>3. CASE ControllerRestarts
  <2>1. \A n \in Names : Cached(n)' = cib[n]
    BY Zenon, <1>1, <1>3 DEF ControllerRestarts, Cached
  <2> QED
    BY Zenon, <1>2, <1>3, <2>1 DEF ControllerRestarts
<1>4. ASSUME NEW n \in Names, CibEvent(n) PROVE Origins
  <2>1. \A m \in Names : Cached(m)' \in {Cached(m), cib[m]}
    BY Zenon, <1>1, <1>4 DEF CibEvent, SyncCib, Cached
  <2> QED
    BY Zenon, <1>2, <1>4, <2>1 DEF CibEvent, SyncCib
<1>5. ASSUME NEW n \in Names, Resync(n) \/ \E k \in Kinds : OwnedEvent(k, n) PROVE Origins
  BY Zenon, <1>2, <1>5 DEF Resync, OwnedEvent, clusterVars, Cached
<1>6. ASSUME NEW n \in Names, JobReports(n) PROVE Origins
  <2>1. \A m \in Names : cib'[m].uid = cib[m].uid
    BY Zenon, <1>1, <1>6 DEF JobReports, WriteState, Exists, Cibs
  <2> QED
    BY Zenon, <1>2, <1>6, <2>1 DEF JobReports, reconcilerVars, Cached
<1>7. ASSUME NEW n \in Names, Users(n) \/ Finalize(n), ~CreateCib(n) PROVE Origins
  <2>1. /\ Exists(n) /\ (RemoveCib(n) \/ ForegroundDelete(n))
        /\ UNCHANGED <<nameOf, cibCache, owner, worker>>
    BY Zenon, <1>7
    DEF Users, UserDeletes, UserDeletesForeground, Finalize, FinalizeCib, RemoveCib, reconcilerVars
  <2>2. \A m \in Names : cib'[m].uid \in {0, cib[m].uid}
    <3>1. CASE RemoveCib(n)
      BY <1>1, <3>1 DEF RemoveCib, NoCib
    <3>2. CASE ForegroundDelete(n)
      BY <1>1, <2>1, <3>2 DEF ForegroundDelete, Exists, Cibs
    <3> QED
      BY Zenon, <2>1, <3>1, <3>2
  <2> QED
    BY Zenon, <1>2, <2>1, <2>2 DEF Cached
<1>8. ASSUME NEW n \in Names, CreateCib(n), UNCHANGED reconcilerVars PROVE Origins
  <2>1. UNCHANGED <<cibCache, owner, worker>>
    BY Zenon, <1>8 DEF CreateCib, reconcilerVars
  <2>2. \A m \in Names : cib'[m].uid = cib[m].uid \/ cib'[m].uid = Len(nameOf) + 1
    BY Zenon, <1>1, <1>8 DEF CreateCib
  <2>3. Len(nameOf) + 1 \notin DOMAIN nameOf /\ DOMAIN nameOf \subseteq DOMAIN nameOf'
    BY Zenon, <1>1, <1>8, CreateGives DEF Given
  <2> QED
    BY Zenon, <2>1, <2>2, <2>3 DEF Origins, Cached
<1>9. ASSUME NEW n \in Names, NEW k \in Kinds, Collect(k, n) PROVE Origins
  <2>1. \A j \in Kinds, m \in Names : owner'[j][m] \in {0, owner[j][m]}
    BY Zenon, <1>1, <1>9 DEF Collect, CollectOwned
  <2> QED
    BY Zenon, <1>9, <2>1 DEF Collect, Origins, Cached
<1>10. ASSUME NEW n \in Names, Finalize(n), CreateCib(n) PROVE Origins
  BY Zenon, <1>10 DEF Finalize, FinalizeCib, CreateCib
<1> QED
  BY Zenon, <1>3, <1>4, <1>5, <1>6, <1>7, <1>8, <1>9, <1>10 DEF Next, Users

(***************************************************************************)
(* Nothing of a build comes back once the build is gone from the cluster,  *)
(* from the cache and from the worker, even if its name is used again.     *)
(***************************************************************************)
THEOREM OverSafe == Spec => NothingComesBack
<1> DEFINE Stays == \A u \in Uids : Over(u) => Over(u)'
<1>1. ASSUME TypeOK, Next, NEW u \in Uids, Over(u)
      PROVE  Over(u)'
  <2>1. Origins
    BY Zenon, <1>1, ReconcileOrigins, EnvironmentOrigins
  <2>2. u # 0 /\ NoCib.uid = 0
    BY DEF Uids, NoCib
  <2>3. /\ u \in DOMAIN nameOf /\ worker.uid # u
        /\ \A n \in Names : Cached(n).uid # u /\ \A k \in Kinds : owner[k][n] # u
    BY Zenon, <1>1 DEF Over, Gone
  <2>4. \A n \in Names : cib[n].uid # u
    BY Zenon, <1>1, <2>2 DEF Over, Gone, LiveUids, Exists
  <2>5. Gone(u)'
    BY Zenon, <2>1, <2>2, <2>3, <2>4 DEF Origins, Gone, LiveUids
  <2>6. worker'.uid # u
    BY Zenon, <2>1, <2>2, <2>3 DEF Origins
  <2>7. \A n \in Names : Cached(n)'.uid # u
    BY Zenon, <2>1, <2>3, <2>4 DEF Origins
  <2>8. \A k \in Kinds, n \in Names : owner'[k][n] # u
    BY Zenon, <2>1, <2>2, <2>3 DEF Origins
  <2> QED
    BY Zenon, <2>5, <2>6, <2>7, <2>8 DEF Over, Cached
<1>2. TypeOK /\ [Next]_vars => [Stays]_vars
  BY Zenon, <1>1
<1> QED
  BY <1>2, TypeCorrect, PTL DEF Spec, NothingComesBack
=============================================================================
