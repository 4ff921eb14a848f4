------------------------------- MODULE RunGC -------------------------------
(***************************************************************************)
(* The controller's own garbage collection of CIBs (RunGC, in              *)
(* controllers/containerimagebuild_controller.go), which a ticker started  *)
(* in controllers/start.go calls.  The ticker runs in every replica, the   *)
(* leader or not, and RunGC lists the CIBs of the informer cache of its    *)
(* own replica.  It deletes the finished builds but for the Retention      *)
(* newest, one API call each, by name and with foreground propagation.     *)
(***************************************************************************)
EXTENDS Cluster

CONSTANT
  Retention   \* retentionCount: the flag gc-max-keep

ASSUME RetentionAssumption == Retention \in Nat

VARIABLES
  sweep,         \* sweep[r]: the uids listed and still to be deleted by the
                 \* call of RunGC in progress on replica r, oldest first
  everFinished,  \* history: uids of the CIBs that have finished
  collected      \* history: uids of the CIBs that RunGC has deleted

gcVars == <<sweep, everFinished, collected>>

vars == <<clusterVars, gcVars>>

TypeOK ==
  /\ ClusterTypeOK
  /\ sweep \in [Replicas -> Seq(Uids)]
  /\ everFinished \subseteq Uids
  /\ collected \subseteq Uids

Init ==
  /\ ClusterInit
  /\ sweep = [r \in Replicas |-> <<>>]
  /\ everFinished = {}
  /\ collected = {}

(***************************************************************************)
(* RunGC: list and filter                                                  *)
(***************************************************************************)
\* Mutant of FinishedBuilds: every name is a finished build.
AllNames(r) == Names

\* Mutant of FinishedBuilds: the state is not looked at.
AllBuilds(r) == {n \in Names : cibCache[r][n] # NoCib}

FinishedBuilds(r) ==
  {n \in Names : cibCache[r][n] # NoCib /\ cibCache[r][n].state \in Finished}

(***************************************************************************)
(* The orders sort.Slice may leave the builds in: it sorts by              *)
(* creationTimestamp and is not stable, and the cache lists in no          *)
(* particular order.                                                       *)
(***************************************************************************)
\* Mutant of SortedBuilds: newest first.
NewestFirst(r) ==
  LET builds == FinishedBuilds(r)
  IN {s \in [1..Cardinality(builds) -> builds] :
        \A i, j \in DOMAIN s :
          i < j => /\ s[i] # s[j]
                   /\ cibCache[r][s[i]].created >= cibCache[r][s[j]].created}

SortedBuilds(r) ==
  LET builds == FinishedBuilds(r)
  IN {s \in [1..Cardinality(builds) -> builds] :
        \A i, j \in DOMAIN s :
          i < j => /\ s[i] # s[j]
                   /\ cibCache[r][s[i]].created <= cibCache[r][s[j]].created}

\* Mutant of Excess: one build too many is kept.
OneTooFew(r) == Cardinality(FinishedBuilds(r)) - Retention - 1

Excess(r) == Cardinality(FinishedBuilds(r)) - Retention

ListBuilds(r) ==
  /\ sweep[r] = <<>>
  /\ Excess(r) > 0
  /\ \E s \in SortedBuilds(r) :
       sweep' = [sweep EXCEPT ![r] = [i \in 1..Excess(r) |-> cibCache[r][s[i]].uid]]
  /\ UNCHANGED <<clusterVars, everFinished, collected>>

(***************************************************************************)
(* RunGC: delete the next build of the list.  The request has the name of  *)
(* the build and no precondition on its uid.                               *)
(***************************************************************************)
Target(r) == nameOf[Head(sweep[r])]

DeleteBuild(r) ==
  /\ sweep[r] # <<>>
  /\ Exists(Target(r))
  /\ IF cib[Target(r)].deleting THEN UNCHANGED cib ELSE ForegroundDelete(Target(r))
  /\ collected' = collected \cup {cib[Target(r)].uid}
  /\ sweep' = [sweep EXCEPT ![r] = Tail(@)]
  /\ UNCHANGED <<nameOf, clock, cibCache, owner, everFinished>>

\* The build is not found or the call fails: the loop goes on.
DeleteFails(r) ==
  /\ sweep[r] # <<>>
  /\ sweep' = [sweep EXCEPT ![r] = Tail(@)]
  /\ UNCHANGED <<clusterVars, everFinished, collected>>

\* The process of replica r restarts.
ReplicaRestarts(r) ==
  /\ sweep' = [sweep EXCEPT ![r] = <<>>]
  /\ cibCache' = [cibCache EXCEPT ![r] = cib]
  /\ UNCHANGED <<cib, nameOf, clock, owner, everFinished, collected>>

(***************************************************************************)
(* The environment                                                         *)
(***************************************************************************)
BuildFinishes(n) ==
  /\ Exists(n)
  /\ cib[n].state \notin Finished
  /\ \E s \in Finished : WriteState(n, s)
  /\ everFinished' = everFinished \cup {cib[n].uid}
  /\ UNCHANGED <<nameOf, clock, cibCache, owner, sweep, collected>>

ClusterStep(n) ==
  /\ \/ CreateCib(n)
     \/ UserDeletes(n)
     \/ UserDeletesForeground(n)
     \/ FinalizeCib(n)
  /\ UNCHANGED gcVars

CacheEvent(r, n) == SyncCib(r, n) /\ UNCHANGED gcVars

Next ==
  \/ \E r \in Replicas :
       \/ ListBuilds(r)
       \/ DeleteBuild(r)
       \/ DeleteFails(r)
       \/ ReplicaRestarts(r)
       \/ \E n \in Names : CacheEvent(r, n)
  \/ \E n \in Names : BuildFinishes(n) \/ ClusterStep(n)

Spec == Init /\ [][Next]_vars

(***************************************************************************)
(* Fairness: the ticker goes on calling RunGC in every replica, watch      *)
(* events arrive, deleted CIBs are finalized, and a deletion tried again   *)
(* in every round succeeds in the end.                                     *)
(***************************************************************************)
Deletes(r, n) == Target(r) = n /\ DeleteBuild(r)

Fairness ==
  /\ \A r \in Replicas : WF_vars(ListBuilds(r)) /\ WF_vars(DeleteBuild(r) \/ DeleteFails(r))
  /\ \A n \in Names : SF_vars(\E r \in Replicas : sweep[r] # <<>> /\ Deletes(r, n))
  /\ \A n \in Names : WF_vars(FinalizeCib(n) /\ UNCHANGED gcVars)
  /\ \A r \in Replicas, n \in Names : WF_vars(CacheEvent(r, n))

FairSpec == Spec /\ Fairness

-----------------------------------------------------------------------------
(***************************************************************************)
(* Properties                                                              *)
(***************************************************************************)

(***************************************************************************)
(* RunGC only deletes builds that have finished, however old the list it   *)
(* works from is.                                                          *)
(***************************************************************************)
OnlyFinishedCollected == collected \subseteq everFinished

(***************************************************************************)
(* Oldest first: every build RunGC deletes is older than Retention         *)
(* finished builds that it never touches.                                  *)
(***************************************************************************)
NewestKept ==
  \A u \in collected :
    Cardinality({v \in everFinished \ collected : v > u}) >= Retention

(***************************************************************************)
(* What exceeds the retention count is deleted in the end: the number of   *)
(* finished builds that stay is at most Retention, although every replica  *)
(* keeps working from its own cache and single deletions fail.             *)
(***************************************************************************)
Converges ==
  <>[](Cardinality({n \in Names : Exists(n) /\ cib[n].state \in Finished}) <= Retention)
=============================================================================
