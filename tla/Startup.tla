------------------------------ MODULE Startup ------------------------------
(***************************************************************************)
(* How the replicas of the controller come up.  The pod of a replica runs  *)
(* `forge crd-apply' as its init container (internal/crd), again until it  *)
(* succeeds, and then `forge' (cmd/root.go, controllers/start.go): process *)
(* the flags, register the cloud registries, start the manager.  An error  *)
(* ends the process; kubelet restarts the container, not the init          *)
(* container, which only runs again in a new pod.                          *)
(***************************************************************************)
EXTENDS Integers, FiniteSets

CONSTANTS
  Replicas,
  SchemaOf,     \* SchemaOf[r]: the CRD in the image of replica r
  Schemas,      \* the CRDs of all releases
  CredSets,     \* the credentials an environment may have: of ACR, a file with
                \* those of GCR, or the metadata server of the machine (GCE)
  AcrAttempts,  \* 3 with a managed identity, 1 with client credentials
  Flags,        \* the message broker flags a controller may be given
  MaxFaults,    \* bound: calls that fail, and processes or pods that die
  MaxDeletes    \* bound: uses of `forge crd-delete'

ASSUME StartupAssumption ==
  /\ SchemaOf \in [Replicas -> Schemas]
  /\ CredSets \subseteq SUBSET {"acr", "gcr", "gce"}
  /\ AcrAttempts \in {1, 3}
  /\ Flags \subseteq [broker : STRING, uri : STRING, queue : STRING]
  /\ MaxFaults \in Nat
  /\ MaxDeletes \in Nat

VARIABLES
  crd,      \* the CRD in the cluster, with the last resourceVersion given out
  replica,  \* replica[r]: the containers of its pod
  flags,    \* flags[r]: the flags of its controller
  creds,    \* the credentials that the environment has
  faults,   \* number of faults so far
  deletes   \* number of deletions so far

vars == <<crd, replica, flags, creds, faults, deletes>>

ApplySteps == {"get", "create", "update"}

RegisterSteps == {"ecr", "acr", "gcr"}

Steps == ApplySteps \cup {"flags"} \cup RegisterSteps \cup {"manager", "running", "misconfigured"}

TypeOK ==
  /\ crd \in [exists : BOOLEAN, schema : Schemas, ver : Nat]
  /\ replica \in [Replicas -> [step : Steps, seen : Nat, tried : 0..2,
                               loaders : SUBSET RegisterSteps]]
  /\ flags \in [Replicas -> Flags]
  /\ creds \in CredSets
  /\ faults \in 0..MaxFaults
  /\ deletes \in 0..MaxDeletes

NewPod == [step |-> "get", seen |-> 0, tried |-> 0, loaders |-> {}]

\* A first installation, or an upgrade.
Init ==
  /\ crd \in [exists : BOOLEAN, schema : Schemas, ver : {1}]
  /\ replica = [r \in Replicas |-> NewPod]
  /\ flags \in [Replicas -> Flags]
  /\ creds \in CredSets
  /\ faults = 0
  /\ deletes = 0

Goto(r, step) == replica' = [replica EXCEPT ![r].step = step]

Exits(r) ==
  replica' = [replica EXCEPT ![r] = [NewPod EXCEPT !.step = "flags"]]

Fault == faults < MaxFaults /\ faults' = faults + 1

(***************************************************************************)
(* createOrUpdateCRD                                                       *)
(***************************************************************************)
GetCRD(r) ==
  /\ replica[r].step = "get"
  /\ replica' = [replica EXCEPT ![r].seen = crd.ver,
                                ![r].step = IF crd.exists THEN "update" ELSE "create"]
  /\ UNCHANGED <<crd, flags, creds, faults, deletes>>

\* Mutant of Accepts: the resourceVersion of the existing CRD is not set.
AcceptsUnversioned(r) == replica[r].step = "create" /\ ~crd.exists

\* The API server takes the write: Create, or Update of the version that was read.
Accepts(r) ==
  \/ replica[r].step = "create" /\ ~crd.exists
  \/ replica[r].step = "update" /\ crd.exists /\ crd.ver = replica[r].seen

WriteCRD(r) ==
  /\ Accepts(r)
  /\ crd' = [exists |-> TRUE, schema |-> SchemaOf[r], ver |-> crd.ver + 1]
  /\ Goto(r, "flags")
  /\ UNCHANGED <<flags, creds, faults, deletes>>

\* Another replica has written or deleted it: AlreadyExists, Conflict, NotFound.
\* The init container ends with an error and is restarted.
WriteConflicts(r) ==
  /\ replica[r].step \in {"create", "update"}
  /\ ~Accepts(r)
  /\ Goto(r, "get")
  /\ UNCHANGED <<crd, flags, creds, faults, deletes>>

\* Mutant of ApplyFails: an error other than NotFound is dropped.
ApplyFailsIgnored(r) ==
  /\ replica[r].step \in ApplySteps
  /\ Fault
  /\ Goto(r, IF replica[r].step = "get" THEN "flags" ELSE "get")
  /\ UNCHANGED <<crd, flags, creds, deletes>>

\* getCRDClient, loadCRD or a call of the API server fails.
ApplyFails(r) ==
  /\ replica[r].step \in ApplySteps
  /\ Fault
  /\ Goto(r, "get")
  /\ UNCHANGED <<crd, flags, creds, deletes>>

(***************************************************************************)
(* processBrokerOpts, with ValidateOpts.                                   *)
(***************************************************************************)
ToLower(broker) == IF broker = "AMQP" THEN "amqp" ELSE broker

ValidateOpts(f) ==
  f.broker = "" \/ (ToLower(f.broker) = "amqp" /\ f.uri # "" /\ f.queue # "")

ProcessFlags(r) ==
  /\ replica[r].step = "flags"
  /\ Goto(r, IF ValidateOpts(flags[r]) THEN "ecr" ELSE "misconfigured")
  /\ UNCHANGED <<crd, flags, creds, faults, deletes>>

(***************************************************************************)
(* Register, of the clouds in turn.  ECR is left out when its config does  *)
(* not load; ACR and GCR when they have no credentials.                    *)
(***************************************************************************)
AfterRegister == [ecr |-> "acr", acr |-> "gcr", gcr |-> "manager"]

Credentialed ==
  {"ecr"} \cup (creds \cap {"acr"}) \cup (IF creds \cap {"gcr", "gce"} = {} THEN {} ELSE {"gcr"})

Register(r) ==
  /\ replica[r].step \in Credentialed
  /\ replica' = [replica EXCEPT ![r].loaders = @ \cup {replica[r].step}, ![r].tried = 0,
                                ![r].step = AfterRegister[@]]
  /\ UNCHANGED <<crd, flags, creds, faults, deletes>>

NotRegistered(r) ==
  /\ replica[r].step \in RegisterSteps \ Credentialed
  /\ Goto(r, AfterRegister[replica[r].step])
  /\ UNCHANGED <<crd, flags, creds, faults, deletes>>

EcrConfigFails(r) ==
  /\ replica[r].step = "ecr"
  /\ Fault
  /\ Goto(r, "acr")
  /\ UNCHANGED <<crd, flags, creds, deletes>>

\* Mutant of AcrFails: ACR is left out as ECR is.
AcrFailsUnnoticed(r) ==
  /\ replica[r].step = "acr"
  /\ "acr" \in creds
  /\ Fault
  /\ Goto(r, "gcr")
  /\ UNCHANGED <<crd, flags, creds, deletes>>

\* The identity service may take time to come up: try again, then exit.
AcrFails(r) ==
  /\ replica[r].step = "acr"
  /\ "acr" \in creds
  /\ Fault
  /\ IF replica[r].tried + 1 < AcrAttempts
     THEN replica' = [replica EXCEPT ![r].tried = @ + 1]
     ELSE Exits(r)
  /\ UNCHANGED <<crd, flags, creds, deletes>>

\* The file with the credentials of GCR cannot be read.
GcrFails(r) ==
  /\ replica[r].step = "gcr"
  /\ "gcr" \in creds
  /\ Fault
  /\ Exits(r)
  /\ UNCHANGED <<crd, flags, creds, deletes>>

\* Without a file the metadata server is tried.  If it does not answer, there
\* are no "default credentials", and GCR is left out.
GceProbeFails(r) ==
  /\ replica[r].step = "gcr"
  /\ creds \cap {"gcr", "gce"} = {"gce"}
  /\ Fault
  /\ Goto(r, "manager")
  /\ UNCHANGED <<crd, flags, creds, deletes>>

(***************************************************************************)
(* NewManager, SetupWithManager and Start, which needs the CRD.            *)
(***************************************************************************)
StartManager(r) ==
  /\ replica[r].step = "manager"
  /\ IF crd.exists THEN Goto(r, "running") ELSE Exits(r)
  /\ UNCHANGED <<crd, flags, creds, faults, deletes>>

\* An error of the manager, or of the process at any time.
ProcessDies(r) ==
  /\ replica[r].step \notin ApplySteps \cup {"misconfigured"}
  /\ Fault
  /\ Exits(r)
  /\ UNCHANGED <<crd, flags, creds, deletes>>

PodReplaced(r) ==
  /\ Fault
  /\ replica' = [replica EXCEPT ![r] = NewPod]
  /\ UNCHANGED <<crd, flags, creds, deletes>>

DeleteCRD ==
  /\ deletes < MaxDeletes
  /\ crd.exists
  /\ crd' = [crd EXCEPT !.exists = FALSE]
  /\ deletes' = deletes + 1
  /\ UNCHANGED <<replica, flags, creds, faults>>

Proceed(r) ==
  \/ GetCRD(r)
  \/ WriteCRD(r)
  \/ WriteConflicts(r)
  \/ ProcessFlags(r)
  \/ Register(r)
  \/ NotRegistered(r)
  \/ StartManager(r)

Next ==
  \/ \E r \in Replicas :
       \/ Proceed(r)
       \/ ApplyFails(r)
       \/ EcrConfigFails(r)
       \/ AcrFails(r)
       \/ GcrFails(r)
       \/ GceProbeFails(r)
       \/ ProcessDies(r)
       \/ PodReplaced(r)
  \/ DeleteCRD

\* Kubelet restarts what has ended; every call returns.
Fairness == \A r \in Replicas : WF_vars(Proceed(r))

Spec == Init /\ [][Next]_vars /\ Fairness

-----------------------------------------------------------------------------
(***************************************************************************)
(* Properties                                                              *)
(***************************************************************************)

(***************************************************************************)
(* The init container does its work: when all replicas are of one release, *)
(* none of them is past it unless the CRD of that release is in place, or  *)
(* has been deleted by hand; whoever else has been writing it meanwhile.   *)
(***************************************************************************)
CrdInPlace ==
  (deletes = 0 /\ \A q, r \in Replicas : SchemaOf[q] = SchemaOf[r]) =>
    \A r \in Replicas :
      replica[r].step \notin ApplySteps => crd.exists /\ crd.schema = SchemaOf[r]

(***************************************************************************)
(* "IMDS can take some time to setup, restart the process": a controller   *)
(* never runs without the loader of ACR when it has credentials for it,    *)
(* nor without that of GCR when it has a file of credentials, however      *)
(* often they failed while it started.  With the credentials of the        *)
(* machine it may run without GCR: a metadata server that does not answer  *)
(* counts as none.                                                         *)
(***************************************************************************)
RunsWithItsLoaders ==
  \A r \in Replicas :
    replica[r].step = "running" => creds \ {"gce"} \subseteq replica[r].loaders

(***************************************************************************)
(* Replicas that install the CRD at the same time do not keep each other   *)
(* from starting: each of them runs in the end, for good, unless its flags *)
(* are invalid or the CRD stays deleted.                                   *)
(***************************************************************************)
EveryReplicaStarts ==
  \A r \in Replicas :
    <>[](replica[r].step \in {"running", "misconfigured"}) \/ <>[](~crd.exists)
=============================================================================
