--------------------------- MODULE StartupProofs ---------------------------
(***************************************************************************)
(* Proofs about the start of the controller, for any number of replicas,   *)
(* of faults and of deletions of the CRD.                                  *)
(***************************************************************************)
EXTENDS Startup, TLAPS

(***************************************************************************)
(* The clouds whose turn to register is over, by their credentials.        *)
(***************************************************************************)
Passed(step) ==
  CASE step = "gcr"                     -> {"acr"}
    [] step \in {"manager", "running"}  -> {"acr", "gcr"}
    [] OTHER                            -> {}

(***************************************************************************)
(* While it registers its loaders a controller already has those of the    *)
(* clouds it has come past: it cannot get past one but through it, since   *)
(* every error starts it over.                                             *)
(***************************************************************************)
ControllerInv ==
  \A r \in Replicas :
    creds \cap Passed(replica[r].step) \subseteq replica[r].loaders

IInv == TypeOK /\ CrdInPlace /\ ControllerInv

(***************************************************************************)
(* At the start every pod is before its first step.                        *)
(***************************************************************************)
LEMMA InitInv == Init => IInv
<1> SUFFICES ASSUME Init PROVE IInv
  OBVIOUS
<1>1. TypeOK
  BY StartupAssumption DEF Init, TypeOK, NewPod, Steps, ApplySteps
<1>2. CrdInPlace /\ ControllerInv
  BY DEF Init, NewPod, CrdInPlace, ControllerInv, ApplySteps, Passed, RegisterSteps
<1> QED
  BY <1>1, <1>2 DEF IInv

Pods == [step : Steps, seen : Nat, tried : 0..2, loaders : SUBSET RegisterSteps]

(***************************************************************************)
(* Going on to a step, starting the container again and starting the pod   *)
(* again leave a well-typed pod.                                           *)
(***************************************************************************)
LEMMA PodType ==
  ASSUME TypeOK, NEW r \in Replicas, NEW step \in Steps,
         Goto(r, step) \/ Exits(r) \/ replica' = [replica EXCEPT ![r] = NewPod]
  PROVE  replica' \in [Replicas -> Pods]
<1>1. NewPod \in Pods /\ [NewPod EXCEPT !.step = "flags"] \in Pods
  BY DEF NewPod, Pods, Steps, ApplySteps
<1>2. replica \in [Replicas -> Pods]
  BY DEF TypeOK, Pods
<1> QED
  BY <1>1, <1>2 DEF Goto, Exits, Pods

(***************************************************************************)
(* A fault is counted, up to the bound.                                    *)
(***************************************************************************)
LEMMA FaultType ==
  ASSUME TypeOK, Fault
  PROVE  faults' \in 0..MaxFaults
  BY StartupAssumption DEF TypeOK, Fault

(***************************************************************************)
(* Every step of the pod of a replica keeps the invariant.                 *)
(***************************************************************************)
LEMMA PodInv ==
  ASSUME IInv, NEW r \in Replicas,
         \/ Proceed(r) \/ ApplyFails(r) \/ EcrConfigFails(r) \/ AcrFails(r)
         \/ GcrFails(r) \/ GceProbeFails(r) \/ ProcessDies(r) \/ PodReplaced(r)
  PROVE  IInv'
<1> USE DEF IInv
<1>1. CASE GetCRD(r)
  <2>0. replica' \in [Replicas -> Pods]
    BY <1>1, PodType, StartupAssumption DEF GetCRD, TypeOK, Pods, Steps, ApplySteps, RegisterSteps
  <2>1. TypeOK'
    BY <1>1, <2>0, StartupAssumption DEF GetCRD, TypeOK, Pods
  <2>2. CrdInPlace'
    BY <1>1, StartupAssumption DEF GetCRD, TypeOK, CrdInPlace, ApplySteps, RegisterSteps
  <2>3. ControllerInv'
    BY <1>1, StartupAssumption DEF GetCRD, TypeOK, ControllerInv, Passed, RegisterSteps
  <2> QED
    BY <2>1, <2>2, <2>3
<1>2. CASE WriteCRD(r)
  <2>0. replica' \in [Replicas -> Pods]
    BY <1>2, PodType DEF WriteCRD, Accepts, Steps, ApplySteps, RegisterSteps
  <2>1. TypeOK'
    BY <1>2, <2>0, StartupAssumption DEF WriteCRD, TypeOK, Pods
  <2>2. CrdInPlace'
    BY <1>2, StartupAssumption DEF WriteCRD, Accepts, Goto, TypeOK, CrdInPlace, ApplySteps, RegisterSteps
  <2>3. ControllerInv'
    BY <1>2, StartupAssumption DEF WriteCRD, Accepts, Goto, TypeOK, ControllerInv, Passed, RegisterSteps
  <2> QED
    BY <2>1, <2>2, <2>3
<1>3. CASE WriteConflicts(r)
  <2>0. replica' \in [Replicas -> Pods]
    BY <1>3, PodType DEF WriteConflicts, Steps, ApplySteps, RegisterSteps
  <2>1. TypeOK'
    BY <1>3, <2>0, StartupAssumption DEF WriteConflicts, TypeOK, Pods
  <2>2. CrdInPlace'
    BY <1>3, StartupAssumption DEF WriteConflicts, Goto, TypeOK, CrdInPlace, ApplySteps, RegisterSteps
  <2>3. ControllerInv'
    BY <1>3, StartupAssumption DEF WriteConflicts, Goto, TypeOK, ControllerInv, Passed, RegisterSteps
  <2> QED
    BY <2>1, <2>2, <2>3
<1>4. CASE ProcessFlags(r)
  <2>0. replica' \in [Replicas -> Pods]
    BY <1>4, PodType DEF ProcessFlags, Steps, ApplySteps, RegisterSteps
  <2>1. TypeOK'
    BY <1>4, <2>0, StartupAssumption DEF ProcessFlags, TypeOK, Pods
  <2>2. CrdInPlace'
    BY <1>4, StartupAssumption DEF ProcessFlags, Goto, TypeOK, CrdInPlace, ApplySteps, RegisterSteps
  <2>3. ControllerInv'
    BY <1>4, StartupAssumption DEF ProcessFlags, Goto, TypeOK, ControllerInv, Passed, RegisterSteps
  <2> QED
    BY <2>1, <2>2, <2>3
<1>5. CASE Register(r)
  <2>0. replica' \in [Replicas -> Pods]
    <3>1. replica[r].step \in RegisterSteps /\ AfterRegister[replica[r].step] \in Steps
      BY <1>5 DEF Register, Credentialed, AfterRegister, Steps, RegisterSteps
    <3>2. replica \in [Replicas -> Pods] /\ replica[r].loaders \cup {replica[r].step} \subseteq RegisterSteps
      BY <3>1 DEF TypeOK, Pods
    <3>3. replica' = [replica EXCEPT ![r].loaders = @ \cup {replica[r].step}, ![r].tried = 0,
                                     ![r].step = AfterRegister[@]]
      BY <1>5 DEF Register
    <3>4. replica'[r] = [step |-> AfterRegister[replica[r].step], seen |-> replica[r].seen,
                         tried |-> 0, loaders |-> replica[r].loaders \cup {replica[r].step}]
      BY Zenon, <3>2, <3>3 DEF Pods
    <3>5. replica'[r] \in Pods
      BY <3>1, <3>2, <3>4 DEF Pods
    <3>6. \A q \in Replicas : q # r => replica'[q] = replica[q]
      BY <3>2, <3>3
    <3>7. replica' = [q \in Replicas |-> replica'[q]]
      BY Zenon, <3>2, <3>3
    <3> QED
      BY <3>2, <3>5, <3>6, <3>7
  <2>1. TypeOK'
    BY <1>5, <2>0, StartupAssumption DEF Register, TypeOK, Pods
  <2>2. CrdInPlace'
    BY <1>5, StartupAssumption DEF Register, Credentialed, AfterRegister, TypeOK, CrdInPlace, ApplySteps, RegisterSteps
  <2>3. ControllerInv'
    BY <1>5, StartupAssumption DEF Register, Credentialed, AfterRegister, TypeOK, ControllerInv, Passed, RegisterSteps
  <2> QED
    BY <2>1, <2>2, <2>3
<1>6. CASE NotRegistered(r)
  <2>0. replica' \in [Replicas -> Pods]
    BY <1>6, PodType DEF NotRegistered, Credentialed, AfterRegister, Steps, ApplySteps, RegisterSteps
  <2>1. TypeOK'
    BY <1>6, <2>0, StartupAssumption DEF NotRegistered, TypeOK, Pods
  <2>2. CrdInPlace'
    BY <1>6, StartupAssumption DEF NotRegistered, Credentialed, AfterRegister, Goto, TypeOK, CrdInPlace, ApplySteps, RegisterSteps
  <2>3. ControllerInv'
    BY <1>6, StartupAssumption DEF NotRegistered, Credentialed, AfterRegister, Goto, TypeOK, ControllerInv, Passed, RegisterSteps
  <2> QED
    BY <2>1, <2>2, <2>3
<1>7. CASE StartManager(r)
  <2>0. replica' \in [Replicas -> Pods]
    BY <1>7, PodType DEF StartManager, Steps, ApplySteps, RegisterSteps
  <2>1. TypeOK'
    BY <1>7, <2>0, StartupAssumption DEF StartManager, TypeOK, Pods
  <2>2. CrdInPlace'
    BY <1>7, StartupAssumption DEF StartManager, Goto, Exits, NewPod, TypeOK, CrdInPlace, ApplySteps, RegisterSteps
  <2>3. ControllerInv'
    <3>1. CASE crd.exists
      BY <1>7, <3>1 DEF StartManager, Goto, TypeOK, ControllerInv, Passed, RegisterSteps
    <3>2. CASE ~crd.exists
      BY <1>7, <3>2 DEF StartManager, Exits, NewPod, TypeOK, ControllerInv, Passed, RegisterSteps
    <3> QED
      BY <3>1, <3>2
  <2> QED
    BY <2>1, <2>2, <2>3
<1>8. CASE ApplyFails(r)
  <2>0. replica' \in [Replicas -> Pods]
    BY <1>8, PodType DEF ApplyFails, Steps, ApplySteps, RegisterSteps
  <2>1. TypeOK'
    BY <1>8, <2>0, FaultType, StartupAssumption DEF ApplyFails, TypeOK, Pods
  <2>2. CrdInPlace'
    BY <1>8, StartupAssumption DEF ApplyFails, Goto, TypeOK, CrdInPlace, ApplySteps, RegisterSteps
  <2>3. ControllerInv'
    BY <1>8, StartupAssumption DEF ApplyFails, Goto, TypeOK, ControllerInv, Passed, RegisterSteps
  <2> QED
    BY <2>1, <2>2, <2>3
<1>9. CASE EcrConfigFails(r)
  <2>0. replica' \in [Replicas -> Pods]
    BY <1>9, PodType DEF EcrConfigFails, Steps, ApplySteps, RegisterSteps
  <2>1. TypeOK'
    BY <1>9, <2>0, FaultType, StartupAssumption DEF EcrConfigFails, TypeOK, Pods
  <2>2. CrdInPlace'
    BY <1>9, StartupAssumption DEF EcrConfigFails, Goto, TypeOK, CrdInPlace, ApplySteps, RegisterSteps
  <2>3. ControllerInv'
    BY <1>9, StartupAssumption DEF EcrConfigFails, Goto, TypeOK, ControllerInv, Passed, RegisterSteps
  <2> QED
    BY <2>1, <2>2, <2>3
<1>10. CASE AcrFails(r)
  <2>0. \/ /\ replica[r].tried + 1 \in 0..2
           /\ replica' = [replica EXCEPT ![r].tried = @ + 1]
        \/ Exits(r)
    BY <1>10, StartupAssumption DEF AcrFails, TypeOK
  <2>1. replica' \in [Replicas -> Pods]
    <3>1. CASE Exits(r)
      BY <3>1, PodType DEF Steps
    <3>2. CASE /\ replica[r].tried + 1 \in 0..2
               /\ replica' = [replica EXCEPT ![r].tried = @ + 1]
      BY <3>2 DEF TypeOK, Pods
    <3> QED
      BY <2>0, <3>1, <3>2
  <2>2. TypeOK'
    BY <1>10, <2>1, FaultType DEF AcrFails, TypeOK, Pods
  <2>3. CrdInPlace'
    BY <1>10, <2>0 DEF AcrFails, Exits, NewPod, TypeOK, CrdInPlace, ApplySteps
  <2>4. ControllerInv'
    BY <1>10, <2>0 DEF AcrFails, Exits, NewPod, TypeOK, ControllerInv, Passed, RegisterSteps
  <2> QED
    BY <2>2, <2>3, <2>4
<1>11. CASE ProcessDies(r)
  <2>0. replica' \in [Replicas -> Pods]
    BY <1>11, PodType DEF ProcessDies, Steps, ApplySteps, RegisterSteps
  <2>1. TypeOK'
    BY <1>11, <2>0, FaultType, StartupAssumption DEF ProcessDies, TypeOK, Pods
  <2>2. CrdInPlace'
    BY <1>11, StartupAssumption DEF ProcessDies, Exits, NewPod, TypeOK, CrdInPlace, ApplySteps, RegisterSteps
  <2>3. ControllerInv'
    BY <1>11, StartupAssumption DEF ProcessDies, Exits, NewPod, TypeOK, ControllerInv, Passed, RegisterSteps
  <2> QED
    BY <2>1, <2>2, <2>3
<1>12. CASE PodReplaced(r)
  <2>0. replica' \in [Replicas -> Pods]
    BY Zenon, <1>12, PodType DEF PodReplaced, Steps, ApplySteps, RegisterSteps
  <2>1. TypeOK'
    BY <1>12, <2>0, FaultType, StartupAssumption DEF PodReplaced, TypeOK, Pods
  <2>2. CrdInPlace'
    BY <1>12, StartupAssumption DEF PodReplaced, NewPod, TypeOK, CrdInPlace, ApplySteps, RegisterSteps
  <2>3. ControllerInv'
    BY <1>12, StartupAssumption DEF PodReplaced, NewPod, TypeOK, ControllerInv, Passed, RegisterSteps
  <2> QED
    BY <2>1, <2>2, <2>3
<1>13. CASE GcrFails(r)
  <2>0. replica' \in [Replicas -> Pods]
    BY <1>13, PodType DEF GcrFails, Steps
  <2>1. TypeOK'
    BY <1>13, <2>0, FaultType DEF GcrFails, TypeOK, Pods
  <2>2. CrdInPlace'
    BY <1>13 DEF GcrFails, Exits, NewPod, TypeOK, CrdInPlace, ApplySteps
  <2>3. ControllerInv'
    BY <1>13 DEF GcrFails, Exits, NewPod, TypeOK, ControllerInv, Passed
  <2> QED
    BY <2>1, <2>2, <2>3
<1>14. CASE GceProbeFails(r)
  <2>0. replica' \in [Replicas -> Pods]
    BY <1>14, PodType DEF GceProbeFails, Steps
  <2>1. TypeOK'
    BY <1>14, <2>0, FaultType DEF GceProbeFails, TypeOK, Pods
  <2>2. CrdInPlace'
    BY <1>14 DEF GceProbeFails, Goto, TypeOK, CrdInPlace, ApplySteps
  <2>3. ControllerInv'
    BY <1>14 DEF GceProbeFails, Goto, TypeOK, ControllerInv, Passed
  <2> QED
    BY <2>1, <2>2, <2>3
<1> QED
  BY <1>1, <1>2, <1>3, <1>4, <1>5, <1>6, <1>7, <1>8, <1>9, <1>10, <1>11, <1>12,
     <1>13, <1>14 DEF Proceed

(***************************************************************************)
(* The invariant holds in every reachable state; `forge crd-delete' is     *)
(* counted, and CrdInPlace says nothing once it has been used.             *)
(***************************************************************************)
THEOREM Invariance == Spec => []IInv
<1>1. IInv /\ [Next]_vars => IInv'
  <2> SUFFICES ASSUME IInv, [Next]_vars PROVE IInv'
    OBVIOUS
  <2>1. CASE DeleteCRD
    <3>1. deletes' \in 0..MaxDeletes /\ deletes' # 0
      BY <2>1, StartupAssumption DEF IInv, DeleteCRD, TypeOK
    <3> QED
      BY Zenon, <2>1, <3>1 DEF IInv, DeleteCRD, TypeOK, CrdInPlace, ControllerInv
  <2>2. CASE UNCHANGED vars
    BY <2>2 DEF vars, IInv, TypeOK, CrdInPlace, ControllerInv
  <2> QED
    BY <2>1, <2>2, PodInv DEF Next
<1> QED
  BY <1>1, InitInv, PTL DEF Spec

(***************************************************************************)
(* The init container does its work: whichever of the replicas of a        *)
(* release writes the CRD, and whoever fails or is replaced, none is past  *)
(* it without the CRD of that release.                                     *)
(***************************************************************************)
THEOREM CrdSafe == Spec => []CrdInPlace
<1>1. IInv => CrdInPlace
  BY DEF IInv
<1> QED
  BY <1>1, Invariance, PTL

(***************************************************************************)
(* No controller runs without the loader of a cloud it has credentials for *)
(* other than those of the machine it runs on, which it may not find.      *)
(***************************************************************************)
THEOREM LoadersSafe == Spec => []RunsWithItsLoaders
<1>1. IInv => RunsWithItsLoaders
  BY StartupAssumption DEF IInv, TypeOK, ControllerInv, Passed, RunsWithItsLoaders
<1> QED
  BY <1>1, Invariance, PTL
=============================================================================
