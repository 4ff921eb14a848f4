------------------------------ MODULE Cluster ------------------------------
(***************************************************************************)
(* The Kubernetes objects that the parts of Forge share, and what the      *)
(* cluster itself does with them: the ContainerImageBuild (CIB) resources, *)
(* the resources a CIB owns, the informer cache every controller replica   *)
(* reads CIBs from, the users who create and delete CIBs, and the          *)
(* Kubernetes garbage collector.  The modules of the controller, of RunGC  *)
(* and of the build job extend this one and add their own variables.       *)
(*                                                                         *)
(* A CIB is identified by its name, one incarnation of it by its uid.      *)
(* Uids are handed out in creation order.                                  *)
(***************************************************************************)
EXTENDS Integers, Sequences, FiniteSets

CONSTANTS
  Names,      \* the namespaced names a CIB can have
  Replicas,   \* the replicas of the controller deployment
  MaxUid,     \* bound: how many CIBs are ever created
  DeletePolicies, \* propagation policies users delete CIBs with
  NameReuse,  \* may a name be used again once its CIB is gone?
  Prerequisites, \* kinds made sure of before the Secret and the Job; in the
              \* code <<"ServiceAccount", "Role", "RoleBinding">>
  StampSteps  \* how far creationTimestamp may advance from one create to the
              \* next: it has a resolution of a second, so 0 is possible

ASSUME MaxUidAssumption == MaxUid \in Nat \ {0}

ASSUME StampStepsAssumption == StampSteps \subseteq Nat

ASSUME PrerequisitesAssumption ==
  Prerequisites \in Seq(STRING \ {"Secret", "Job"})

ASSUME PolicyAssumption ==
  /\ NameReuse \in BOOLEAN
  /\ DeletePolicies \subseteq {"background", "foreground"}
  /\ Replicas # {}

VARIABLES
  cib,        \* cib[n]: the CIB named n in the API server, or NoCib
  nameOf,     \* nameOf[u]: the name of the u-th CIB ever created
  clock,      \* the creationTimestamp of the newest CIB
  cibCache,   \* cibCache[r][n]: what the informer cache of replica r holds
  owner       \* owner[k][n]: uid of the CIB in the controller reference of
              \* the resource of kind k named after n; 0 when there is none

clusterVars == <<cib, nameOf, clock, cibCache, owner>>

(***************************************************************************)
(* BuildState, with "" for a CIB whose status has never been written.      *)
(***************************************************************************)
BuildStates == {"", "Initialized", "Building", "Completed", "Failed"}

Finished == {"Completed", "Failed"}

(***************************************************************************)
(* The kinds of the resources owned by a CIB, and the order in which the   *)
(* controller creates them: the prerequisites, the Secret named            *)
(* <name>-cloud-credentials, the Job.  All but the Secret have the name of *)
(* the CIB.                                                                *)
(***************************************************************************)
Kinds == {Prerequisites[i] : i \in DOMAIN Prerequisites} \cup {"Secret", "Job"}

SecretStep == Len(Prerequisites) + 1

JobStep == Len(Prerequisites) + 2

KindAt(step) ==
  CASE step = SecretStep -> "Secret"
    [] step = JobStep    -> "Job"
    [] OTHER             -> Prerequisites[step]

Uids == 1..MaxUid

Stamps == Nat

NoCib == [uid |-> 0, created |-> 0, state |-> "", ver |-> 0, deleting |-> FALSE]

(***************************************************************************)
(* A CIB: uid, creationTimestamp, status.state, resourceVersion (counted   *)
(* per incarnation: versions of different uids never match) and whether    *)
(* deletionTimestamp is set.                                               *)
(***************************************************************************)
Cibs ==
  [uid : Uids, created : Stamps, state : BuildStates, ver : Nat, deleting : BOOLEAN]

ClusterTypeOK ==
  /\ cib \in [Names -> Cibs \cup {NoCib}]
  /\ nameOf \in Seq(Names)
  /\ Len(nameOf) <= MaxUid
  /\ clock \in Stamps
  /\ cibCache \in [Replicas -> [Names -> Cibs \cup {NoCib}]]
  /\ owner \in [Kinds -> [Names -> Uids \cup {0}]]

ClusterInit ==
  /\ cib = [n \in Names |-> NoCib]
  /\ nameOf = <<>>
  /\ clock = 0
  /\ cibCache = [r \in Replicas |-> [n \in Names |-> NoCib]]
  /\ owner = [k \in Kinds |-> [n \in Names |-> 0]]

Exists(n) == cib[n] # NoCib

LiveUids == {cib[n].uid : n \in {m \in Names : Exists(m)}}

(***************************************************************************)
(* Users                                                                   *)
(***************************************************************************)
CreateCib(n) ==
  /\ ~Exists(n)
  /\ Len(nameOf) < MaxUid
  /\ NameReuse \/ \A u \in DOMAIN nameOf : nameOf[u] # n
  /\ \E d \in StampSteps : clock' = clock + d
  /\ cib' = [cib EXCEPT ![n] =
       [uid |-> Len(nameOf) + 1, created |-> clock', state |-> "", ver |-> 1,
        deleting |-> FALSE]]
  /\ nameOf' = Append(nameOf, n)
  /\ UNCHANGED <<cibCache, owner>>

(***************************************************************************)
(* Deletion with background propagation (the default of kubectl): the CIB  *)
(* goes at once, what it owns is collected later.                          *)
(***************************************************************************)
RemoveCib(n) ==
  /\ Exists(n)
  /\ cib' = [cib EXCEPT ![n] = NoCib]

UserDeletes(n) ==
  /\ "background" \in DeletePolicies
  /\ RemoveCib(n)
  /\ UNCHANGED <<nameOf, clock, cibCache, owner>>

(***************************************************************************)
(* Deletion with foreground propagation: the CIB stays, marked as being    *)
(* deleted, until nothing it owns is left.                                 *)
(***************************************************************************)
ForegroundDelete(n) ==
  cib' = [cib EXCEPT ![n].deleting = TRUE, ![n].ver = @ + 1]

UserDeletesForeground(n) ==
  /\ "foreground" \in DeletePolicies
  /\ Exists(n)
  /\ ~cib[n].deleting
  /\ ForegroundDelete(n)
  /\ UNCHANGED <<nameOf, clock, cibCache, owner>>

(***************************************************************************)
(* The Kubernetes garbage collector                                        *)
(***************************************************************************)
Garbage(u) == \A n \in Names : cib[n].uid = u => cib[n].deleting

CollectOwned(k, n) ==
  /\ owner[k][n] # 0
  /\ Garbage(owner[k][n])
  /\ owner' = [owner EXCEPT ![k][n] = 0]

FinalizeCib(n) ==
  /\ Exists(n)
  /\ cib[n].deleting
  /\ \A k \in Kinds : owner[k][n] # cib[n].uid
  /\ RemoveCib(n)
  /\ UNCHANGED <<nameOf, clock, cibCache, owner>>

(***************************************************************************)
(* A watch event brings the cached CIB up to date.                         *)
(***************************************************************************)
SyncCib(r, n) ==
  /\ cibCache[r][n] # cib[n]
  /\ cibCache' = [cibCache EXCEPT ![r][n] = cib[n]]
  /\ UNCHANGED <<cib, nameOf, clock, owner>>

(***************************************************************************)
(* A write of the status subresource, which bumps the resourceVersion.     *)
(***************************************************************************)
WriteState(n, state) ==
  cib' = [cib EXCEPT ![n].state = state, ![n].ver = @ + 1]
=============================================================================
