----------------------------- MODULE Reconciler -----------------------------
(***************************************************************************)
(* The controller's reconcile loop (controllers/containerimagebuild_       *)
(* controller.go and containerimagebuild_resources.go) on the replica that *)
(* leads.  One worker takes names from the work queue, loads the CIB from  *)
(* the informer cache and, when its status is still empty, makes sure that *)
(* the ServiceAccount, Role, RoleBinding, credentials Secret and Job of    *)
(* the build exist.  Jobs are not watched: only events of CIBs enqueue.    *)
(*                                                                         *)
(* A Get of an owned resource reads the informer cache, which may lag by   *)
(* any amount, and the Create that follows it is one step with it: an      *)
(* event between the two is the same as a cache that has not seen it yet.  *)
(***************************************************************************)
EXTENDS Cluster

CONSTANTS
  Leader,       \* the replica that reconciles
  Dynamic,      \* names of CIBs with a registry using dynamic credentials
  BadQuantity   \* names of CIBs whose cpu or memory cannot be parsed

ASSUME ReconcilerAssumption ==
  /\ Leader \in Replicas
  /\ Dynamic \subseteq Names
  /\ BadQuantity \subseteq Names

VARIABLES
  queue,       \* the names waiting in the controller's work queue
  worker,      \* the reconcile in progress: step, name and uid read
  ownerCache,  \* the informer caches of the owned kinds
  dynVolumes,  \* r.JobConfig.DynamicVolumes: names whose Secret is mounted
  jobVolumes   \* jobVolumes[n]: dynamic volumes in the pod template of Job n

reconcilerVars == <<queue, worker, ownerCache, dynVolumes, jobVolumes>>

vars == <<clusterVars, reconcilerVars>>

Idle == [step |-> 0, name |-> "", uid |-> 0]

TypeOK ==
  /\ ClusterTypeOK
  /\ queue \subseteq Names
  /\ worker \in [step : 1..JobStep, name : Names, uid : Uids] \cup {Idle}
  /\ ownerCache \in [Kinds -> [Names -> Uids \cup {0}]]
  /\ dynVolumes \in Seq(Names)
  /\ jobVolumes \in [Names -> Seq(Names)]

ReconcilerInit ==
  /\ queue = {}
  /\ worker = Idle
  /\ ownerCache = owner
  /\ dynVolumes = <<>>
  /\ jobVolumes = [n \in Names |-> <<>>]

Init == ClusterInit /\ ReconcilerInit

(***************************************************************************)
(* Reconcile                                                               *)
(***************************************************************************)
Cached(n) == cibCache[Leader][n]

\* Reconcile returns at once: the CIB is gone or its status is set.
ReconcileReturns(n) ==
  /\ worker = Idle
  /\ n \in queue
  /\ Cached(n) = NoCib \/ Cached(n).state # ""
  /\ queue' = queue \ {n}
  /\ UNCHANGED <<clusterVars, worker, ownerCache, dynVolumes, jobVolumes>>

\* Mutant of ReconcileStarts: the status is not looked at.
ReconcileStartsAgain(n) ==
  /\ worker = Idle
  /\ n \in queue
  /\ Cached(n) # NoCib
  /\ queue' = queue \ {n}
  /\ worker' = [step |-> 1, name |-> n, uid |-> Cached(n).uid]
  /\ UNCHANGED <<clusterVars, ownerCache, dynVolumes, jobVolumes>>

\* Mutant of ReconcileStarts: the first CIB of a name is taken for all of them.
ReconcileStartsFirst(n) ==
  /\ worker = Idle
  /\ n \in queue
  /\ Cached(n) # NoCib
  /\ Cached(n).state = ""
  /\ queue' = queue \ {n}
  /\ \E u \in DOMAIN nameOf :
       /\ nameOf[u] = n
       /\ \A v \in 1..(u - 1) : nameOf[v] # n
       /\ worker' = [step |-> 1, name |-> n, uid |-> u]
  /\ UNCHANGED <<clusterVars, ownerCache, dynVolumes, jobVolumes>>

\* A deletionTimestamp is only counted in a metric: reconciling goes on.
ReconcileStarts(n) ==
  /\ worker = Idle
  /\ n \in queue
  /\ Cached(n) # NoCib
  /\ Cached(n).state = ""
  /\ queue' = queue \ {n}
  /\ worker' = [step |-> 1, name |-> n, uid |-> Cached(n).uid]
  /\ UNCHANGED <<clusterVars, ownerCache, dynVolumes, jobVolumes>>

\* Mutant of Proceed: the reconcile does not end with the Job.
ProceedPastJob ==
  /\ worker' = [worker EXCEPT !.step = @ + 1]
  /\ UNCHANGED queue

\* Mutant of Proceed: the reconcile starts over with the CIB it has loaded.
ProceedForever ==
  /\ worker' = [worker EXCEPT !.step = IF @ = JobStep THEN 1 ELSE @ + 1]
  /\ UNCHANGED queue

Proceed ==
  /\ worker' = IF worker.step = JobStep THEN Idle
               ELSE [worker EXCEPT !.step = @ + 1]
  /\ UNCHANGED queue

\* An error is returned and controller-runtime queues the name again.
Requeue ==
  /\ worker' = Idle
  /\ queue' = queue \cup {worker.name}

(***************************************************************************)
(* withOwnedResource on a resource of kind k: a no-op when the cache has   *)
(* it, whoever owns it; otherwise a Create, which the API server refuses   *)
(* when the resource exists after all.                                     *)
(***************************************************************************)
Found(k) ==
  /\ ownerCache[k][worker.name] # 0
  /\ UNCHANGED owner

Created(k) ==
  /\ ownerCache[k][worker.name] = 0
  /\ owner[k][worker.name] = 0
  /\ owner' = [owner EXCEPT ![k][worker.name] = worker.uid]

\* Mutant of withOwnedResource: a resource that exists is an error.
OnlyCreated(k) == Created(k)

withOwnedResource(k) == Found(k) \/ Created(k)

(***************************************************************************)
(* checkServiceAccount, checkRole and checkRoleBinding, in this order      *)
(***************************************************************************)
\* Mutant of checkPrerequisite: errors are ignored.
checkPrerequisiteAnyway ==
  /\ worker.step \in DOMAIN Prerequisites
  /\ withOwnedResource(KindAt(worker.step)) \/ UNCHANGED owner
  /\ Proceed
  /\ UNCHANGED <<cib, nameOf, clock, cibCache, ownerCache, dynVolumes, jobVolumes>>

checkPrerequisite ==
  /\ worker.step \in DOMAIN Prerequisites
  /\ withOwnedResource(KindAt(worker.step))
  /\ Proceed
  /\ UNCHANGED <<cib, nameOf, clock, cibCache, ownerCache, dynVolumes, jobVolumes>>

(***************************************************************************)
(* checkCloudRegistrySecrets: nothing to do without dynamic registries;    *)
(* else the Secret is made and a volume for it is added to the JobConfig   *)
(* that all reconciles share.                                              *)
(***************************************************************************)
NoDynamicRegistry ==
  /\ worker.step = SecretStep
  /\ worker.name \notin Dynamic
  /\ Proceed
  /\ UNCHANGED <<clusterVars, ownerCache, dynVolumes, jobVolumes>>

checkCloudRegistrySecrets ==
  /\ worker.step = SecretStep
  /\ worker.name \in Dynamic
  /\ withOwnedResource("Secret")
  /\ dynVolumes' = Append(dynVolumes, worker.name)
  /\ Proceed
  /\ UNCHANGED <<cib, nameOf, clock, cibCache, ownerCache, jobVolumes>>

(***************************************************************************)
(* createJobForBuild: the dynamic volumes are reset on every return.       *)
(***************************************************************************)
createJobForBuild ==
  /\ worker.step = JobStep
  /\ worker.name \notin BadQuantity
  /\ withOwnedResource("Job")
  /\ jobVolumes' = IF owner' = owner THEN jobVolumes
                   ELSE [jobVolumes EXCEPT ![worker.name] = dynVolumes]
  /\ dynVolumes' = <<>>
  /\ Proceed
  /\ UNCHANGED <<cib, nameOf, clock, cibCache, ownerCache>>

(***************************************************************************)
(* A step fails: the quantities of the spec do not parse or the resource   *)
(* exists although the cache does not have it (then the steps above are    *)
(* disabled), or a call to the API server or, for an authorization, to the *)
(* cloud provider returns an error (which it always may).                  *)
(***************************************************************************)
\* Mutant of StepFails: the volumes are only reset on success.
StepFailsNoReset ==
  /\ worker # Idle
  /\ worker.step = SecretStep => worker.name \in Dynamic
  /\ Requeue
  /\ UNCHANGED <<clusterVars, ownerCache, dynVolumes, jobVolumes>>

StepFails ==
  /\ worker # Idle
  /\ worker.step = SecretStep => worker.name \in Dynamic
  /\ Requeue
  /\ dynVolumes' = IF worker.step = JobStep THEN <<>> ELSE dynVolumes
  /\ UNCHANGED <<clusterVars, ownerCache, jobVolumes>>

\* A Create is carried out but its answer is lost: an error all the same.
CreateUnanswered ==
  /\ worker # Idle
  /\ worker.step = SecretStep => worker.name \in Dynamic
  /\ worker.step = JobStep => worker.name \notin BadQuantity
  /\ Created(KindAt(worker.step))
  /\ Requeue
  /\ jobVolumes' = IF worker.step = JobStep
                   THEN [jobVolumes EXCEPT ![worker.name] = dynVolumes] ELSE jobVolumes
  /\ dynVolumes' = IF worker.step = JobStep THEN <<>> ELSE dynVolumes
  /\ UNCHANGED <<cib, nameOf, clock, cibCache, ownerCache>>

\* The controller process dies and starts again: what it had in memory is
\* lost, its caches are listed afresh and every CIB is queued.
ControllerRestarts ==
  /\ queue' = {n \in Names : Exists(n)}
  /\ worker' = Idle
  /\ ownerCache' = owner
  /\ dynVolumes' = <<>>
  /\ cibCache' = [cibCache EXCEPT ![Leader] = cib]
  /\ UNCHANGED <<cib, nameOf, clock, owner, jobVolumes>>

(***************************************************************************)
(* The environment                                                         *)
(***************************************************************************)
\* A watch event of a CIB updates the cache and enqueues its name.
CibEvent(n) ==
  /\ SyncCib(Leader, n)
  /\ queue' = queue \cup {n}
  /\ UNCHANGED <<worker, ownerCache, dynVolumes, jobVolumes>>

\* The informer's periodic resync (every ten hours by default) delivers an
\* event for every CIB in the cache.
Resync(n) ==
  /\ Cached(n) # NoCib
  /\ n \notin queue
  /\ queue' = queue \cup {n}
  /\ UNCHANGED <<clusterVars, worker, ownerCache, dynVolumes, jobVolumes>>

OwnedEvent(k, n) ==
  /\ ownerCache[k][n] # owner[k][n]
  /\ ownerCache' = [ownerCache EXCEPT ![k][n] = owner[k][n]]
  /\ UNCHANGED <<clusterVars, queue, worker, dynVolumes, jobVolumes>>

Collect(k, n) ==
  /\ CollectOwned(k, n)
  /\ jobVolumes' = IF k = "Job" THEN [jobVolumes EXCEPT ![n] = <<>>] ELSE jobVolumes
  /\ UNCHANGED <<cib, nameOf, clock, cibCache, queue, worker, ownerCache, dynVolumes>>

\* The pod of the Job named n reports in the status of the CIB.  What it
\* reports later makes no difference to the controller.
JobReports(n) ==
  /\ Exists(n)
  /\ owner["Job"][n] # 0
  /\ cib[n].state = ""
  /\ WriteState(n, "Building")
  /\ UNCHANGED <<nameOf, clock, cibCache, owner, reconcilerVars>>

Users(n) ==
  /\ CreateCib(n) \/ UserDeletes(n) \/ UserDeletesForeground(n)
  /\ UNCHANGED reconcilerVars

Finalize(n) == FinalizeCib(n) /\ UNCHANGED reconcilerVars

Reconcile ==
  \/ \E n \in Names : ReconcileReturns(n) \/ ReconcileStarts(n)
  \/ checkPrerequisite
  \/ NoDynamicRegistry
  \/ checkCloudRegistrySecrets
  \/ createJobForBuild
  \/ StepFails
  \/ CreateUnanswered

Next ==
  \/ Reconcile
  \/ ControllerRestarts
  \/ \E n \in Names :
       \/ CibEvent(n)
       \/ Resync(n)
       \/ JobReports(n)
       \/ Users(n)
       \/ Finalize(n)
       \/ \E k \in Kinds : OwnedEvent(k, n) \/ Collect(k, n)

Spec == Init /\ [][Next]_vars

(***************************************************************************)
(* Fairness.  The worker goroutine runs whenever there is work.  The work  *)
(* queue hands out every name in turn.  Failures of the API server and of  *)
(* the cloud providers are transient: a step tried again and again         *)
(* succeeds in the end.  Watch events arrive, and the Kubernetes garbage   *)
(* collector does its work.                                                *)
(***************************************************************************)
StepSucceeds(n, step) ==
  /\ worker.name = n
  /\ worker.step = step
  /\ \/ checkPrerequisite
     \/ NoDynamicRegistry
     \/ checkCloudRegistrySecrets
     \/ createJobForBuild

Fairness ==
  /\ WF_vars(Reconcile)
  /\ \A n \in Names :
       /\ SF_vars(ReconcileReturns(n) \/ ReconcileStarts(n))
       /\ \A step \in 1..JobStep : SF_vars(StepSucceeds(n, step))
       /\ WF_vars(CibEvent(n))
       /\ WF_vars(Resync(n))
       /\ WF_vars(Finalize(n))
       /\ \A k \in Kinds : WF_vars(OwnedEvent(k, n)) /\ WF_vars(Collect(k, n))

FairSpec == Spec /\ Fairness

-----------------------------------------------------------------------------
(***************************************************************************)
(* Properties                                                              *)
(***************************************************************************)

(***************************************************************************)
(* The dynamic volumes live in the reconciler's JobConfig, shared by the   *)
(* reconciles of all CIBs and filled in one function and emptied in        *)
(* another.  Still every Job mounts the credentials of its own build when  *)
(* its CIB asks for dynamic credentials, exactly once, and nobody's        *)
(* otherwise, whatever fails and is retried in between.                    *)
(***************************************************************************)
OwnCredentials(n) == IF n \in Dynamic THEN <<n>> ELSE <<>>

JobMountsItsCredentials ==
  \A n \in Names : owner["Job"][n] # 0 => jobVolumes[n] = OwnCredentials(n)

(***************************************************************************)
(* Every resource the pod of a build needs is in place, and is going to    *)
(* stay, when its Job is: the Job of a CIB that is not being deleted has   *)
(* its service account, role, role binding and (with dynamic registries)   *)
(* its credentials, all owned by the same incarnation of the CIB.  The     *)
(* controller only looks at possibly stale caches to make sure of them.    *)
(***************************************************************************)
Required(n) == Kinds \ (IF n \in Dynamic THEN {"Job"} ELSE {"Job", "Secret"})

Live(n) == Exists(n) /\ ~cib[n].deleting

LiveJobHasPrerequisites ==
  \A n \in Names :
    Live(n) /\ owner["Job"][n] = cib[n].uid =>
      \A k \in Required(n) : owner[k][n] = cib[n].uid

(***************************************************************************)
(* Every CIB that is not deleted and whose quantities parse gets a Job of  *)
(* its own, whatever fails on the way, unless a pod that found it by its   *)
(* name has taken it up already: none is left with an empty status and     *)
(* without a Job for ever.                                                 *)
(***************************************************************************)
EveryBuildGetsItsJob ==
  \A n \in Names \ BadQuantity : \A u \in Uids :
    (cib[n].uid = u) ~> (owner["Job"][n] = u \/ cib[n].uid # u \/ cib[n].state # "")

(***************************************************************************)
(* Once a CIB is gone nothing it owned stays for ever, including what a    *)
(* reconcile that works on a stale copy still creates in its name.         *)
(***************************************************************************)
Gone(u) == u \in DOMAIN nameOf /\ u \notin LiveUids

DeletedBuildLeavesNothing ==
  \A u \in Uids :
    Gone(u) ~> [](\A k \in Kinds, n \in Names : owner[k][n] # u)

(***************************************************************************)
(* Once a CIB is gone from the cluster, from the cache and from the hands  *)
(* of the worker, and so is all it owned, nothing of it ever comes back,   *)
(* although later CIBs have its name and the controller may restart or     *)
(* fail at any step.                                                       *)
(***************************************************************************)
Over(u) ==
  /\ Gone(u)
  /\ worker.uid # u
  /\ \A n \in Names : Cached(n).uid # u /\ \A k \in Kinds : owner[k][n] # u

NothingComesBack == [][\A u \in Uids : Over(u) => Over(u)']_vars

(***************************************************************************)
(* A CIB that is deleted in the foreground after its build was taken up is *)
(* gone in the end.  Reconcile does not heed the deletion and may still    *)
(* make, from a copy whose status is empty, what the garbage collector has *)
(* to remove first; but not for ever.  (Without a status it may: then      *)
(* every reconcile makes the resources anew.)                              *)
(***************************************************************************)
DeletionEnds ==
  \A n \in Names : \A u \in Uids :
    (cib[n].uid = u /\ cib[n].deleting /\ cib[n].state # "") ~> (cib[n].uid # u)
=============================================================================
