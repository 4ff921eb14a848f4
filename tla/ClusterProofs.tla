--------------------------- MODULE ClusterProofs ---------------------------
(***************************************************************************)
(* Type correctness of the steps of the cluster, for the proofs about the  *)
(* components that share it.                                               *)
(***************************************************************************)
EXTENDS Cluster, TLAPS

(***************************************************************************)
(* Every step of the reconciler is about one of the owned kinds            *)
(* (checkPrerequisites and createJobForBuild name no other).               *)
(***************************************************************************)
LEMMA KindAtType == \A step \in 1..JobStep : KindAt(step) \in Kinds
<1>1. Len(Prerequisites) \in Nat /\ DOMAIN Prerequisites = 1..Len(Prerequisites)
  BY PrerequisitesAssumption
<1> TAKE step \in 1..JobStep
<1>2. CASE step = SecretStep
  BY <1>2 DEF KindAt, Kinds
<1>3. CASE step = JobStep
  BY <1>1, <1>3 DEF KindAt, Kinds, SecretStep, JobStep
<1>4. CASE step \in DOMAIN Prerequisites
  BY <1>1, <1>4 DEF KindAt, Kinds, SecretStep, JobStep
<1> QED
  BY <1>1, <1>2, <1>3, <1>4 DEF SecretStep, JobStep

(***************************************************************************)
(* In the initial state of the cluster there is nothing.                   *)
(***************************************************************************)
LEMMA ClusterInitType == ClusterInit => ClusterTypeOK
  BY MaxUidAssumption DEF ClusterInit, ClusterTypeOK, Cibs, Stamps

(***************************************************************************)
(* Creating a CIB, which takes the next uid, keeps the types.              *)
(***************************************************************************)
LEMMA CreateType ==
  ASSUME ClusterTypeOK, NEW n \in Names, CreateCib(n)
  PROVE  ClusterTypeOK'
<1>1. Len(nameOf) < MaxUid /\ nameOf' = Append(nameOf, n)
  BY Zenon DEF CreateCib
<1>2. \E d \in StampSteps : clock' = clock + d
  BY Zenon DEF CreateCib
<1>3. /\ cib' = [cib EXCEPT ![n] =
           [uid |-> Len(nameOf) + 1, created |-> clock', state |-> "", ver |-> 1,
            deleting |-> FALSE]]
      /\ UNCHANGED <<cibCache, owner>>
  BY Zenon DEF CreateCib
<1>4. nameOf \in Seq(Names) /\ Len(nameOf) \in Nat
  BY DEF ClusterTypeOK
<1>5. clock' \in Stamps
  BY <1>2, StampStepsAssumption DEF ClusterTypeOK, Stamps
<1>6. Len(nameOf) + 1 \in Uids
  BY <1>1, <1>4, MaxUidAssumption DEF Uids
<1>7. cib' \in [Names -> Cibs \cup {NoCib}]
  BY <1>3, <1>5, <1>6 DEF ClusterTypeOK, Cibs, BuildStates
<1>8. nameOf' \in Seq(Names) /\ Len(nameOf') <= MaxUid
  BY <1>1, <1>4, MaxUidAssumption
<1> QED
  BY <1>3, <1>5, <1>7, <1>8 DEF ClusterTypeOK

(***************************************************************************)
(* So do the writes to one CIB: a status, a deletionTimestamp, its end.    *)
(***************************************************************************)
LEMMA WriteType ==
  ASSUME ClusterTypeOK, NEW n \in Names, Exists(n),
         NEW s \in BuildStates,
         WriteState(n, s) \/ ForegroundDelete(n) \/ RemoveCib(n)
  PROVE  cib' \in [Names -> Cibs \cup {NoCib}]
<1>1. cib[n] \in Cibs /\ cib \in [Names -> Cibs \cup {NoCib}]
  BY DEF ClusterTypeOK, Exists
<1> QED
  BY <1>1 DEF WriteState, ForegroundDelete, RemoveCib, Cibs

(***************************************************************************)
(* So do deletions by users and the end of a deleted CIB.                  *)
(***************************************************************************)
LEMMA DeleteType ==
  ASSUME ClusterTypeOK, NEW n \in Names,
         UserDeletes(n) \/ UserDeletesForeground(n) \/ FinalizeCib(n)
  PROVE  ClusterTypeOK'
  BY WriteType
  DEF ClusterTypeOK, UserDeletes, UserDeletesForeground, FinalizeCib, BuildStates, RemoveCib

(***************************************************************************)
(* The garbage collector leaves a well-typed set of owned resources.       *)
(***************************************************************************)
LEMMA CollectOwnedType ==
  ASSUME ClusterTypeOK, NEW k \in Kinds, NEW n \in Names, CollectOwned(k, n)
  PROVE  owner' \in [Kinds -> [Names -> Uids \cup {0}]]
  BY DEF ClusterTypeOK, CollectOwned

(***************************************************************************)
(* The events of the informers keep the types.                             *)
(***************************************************************************)
LEMMA SyncType ==
  ASSUME ClusterTypeOK, NEW r \in Replicas, NEW n \in Names, SyncCib(r, n)
  PROVE  ClusterTypeOK'
  BY DEF ClusterTypeOK, SyncCib

(***************************************************************************)
(* Names and uids                                                          *)
(***************************************************************************)

(***************************************************************************)
(* Users do not use the name of a CIB again.                               *)
(***************************************************************************)
NoReuse == NameReuse = FALSE

(***************************************************************************)
(* The CIB with uid u was created under the name n.                        *)
(***************************************************************************)
Given(n, u) == u \in DOMAIN nameOf /\ nameOf[u] = n

NamesDiffer == \A u, v \in DOMAIN nameOf : nameOf[u] = nameOf[v] => u = v

(***************************************************************************)
(* A create gives out the next uid, and no uid is ever taken back.         *)
(***************************************************************************)
LEMMA CreateGives ==
  ASSUME ClusterTypeOK, NEW n \in Names, CreateCib(n)
  PROVE  /\ Len(nameOf) + 1 \notin DOMAIN nameOf
         /\ DOMAIN nameOf' = DOMAIN nameOf \cup {Len(nameOf) + 1}
         /\ nameOf'[Len(nameOf) + 1] = n
         /\ \A m, v : Given(m, v) => Given(m, v)'
<1>1. nameOf \in Seq(Names) /\ nameOf' = Append(nameOf, n)
  BY DEF ClusterTypeOK, CreateCib
<1>2. Len(nameOf) \in Nat /\ Len(nameOf') = Len(nameOf) + 1 /\ nameOf' \in Seq(Names)
  BY <1>1
<1>3. DOMAIN nameOf = 1..Len(nameOf) /\ DOMAIN nameOf' = 1..(Len(nameOf) + 1)
  BY <1>1, <1>2
<1>4. /\ Len(nameOf) + 1 \notin DOMAIN nameOf
      /\ DOMAIN nameOf' = DOMAIN nameOf \cup {Len(nameOf) + 1}
  BY <1>2, <1>3
<1>5. nameOf'[Len(nameOf) + 1] = n /\ \A v \in DOMAIN nameOf : nameOf'[v] = nameOf[v]
  BY <1>1, <1>2, <1>3
<1> QED
  BY <1>4, <1>5 DEF Given

(***************************************************************************)
(* When names are not used again a name belongs to one uid only, and a new *)
(* one to none.                                                            *)
(***************************************************************************)
LEMMA CreateNames ==
  ASSUME ClusterTypeOK, NEW n \in Names, CreateCib(n), NoReuse
  PROVE  /\ \A u : ~Given(n, u)
         /\ NamesDiffer => NamesDiffer'
<1>1. \A u : ~Given(n, u)
  BY DEF CreateCib, NoReuse, Given
<1> QED
  BY <1>1, CreateGives DEF NamesDiffer, Given
=============================================================================
