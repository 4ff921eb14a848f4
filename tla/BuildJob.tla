------------------------------ MODULE BuildJob ------------------------------
(***************************************************************************)
(* The build job (cmd/build.go and internal/buildjob): the process that    *)
(* runs in the pod of a Job.  It looks its CIB up by name, writes Building *)
(* to its status, builds and pushes the image, writes Completed or Failed, *)
(* and publishes a message after each status write, unconfirmed.  Nothing  *)
(* in it is retried, and a failure to report ends the process.             *)
(*                                                                         *)
(* The Job has backoffLimit 0 and its pod restartPolicy Never, so that a   *)
(* pod that fails is not run again; but the Job controller replaces a pod  *)
(* that it takes for lost, and the process of a lost pod may still run.    *)
(***************************************************************************)
EXTENDS Cluster

CONSTANTS
  MaxPods,    \* bound: pods ever started
  MaxEdits,   \* bound: edits of CIBs by users
  Registries, \* how many push registries a CIB has
  HasBroker,  \* is a message broker configured?
  FaultSets   \* what may go wrong, in one behaviour or another: see below

ASSUME BuildJobAssumption ==
  /\ MaxPods \in Nat
  /\ MaxEdits \in Nat
  /\ Registries \in Nat
  /\ HasBroker \in BOOLEAN
  /\ FaultSets \subseteq SUBSET
       {"new",     \* setting up clients, producer, plugins
        "api",     \* calls of the API server
        "broker",  \* publishing a message
        "build",   \* the build and the pushes
        "kill",    \* SIGTERM, or the process crashes
        "lost",    \* the Job controller loses sight of a pod
        "edit",    \* users edit a CIB that is being built
        "foreground"}  \* or delete it with foreground propagation

VARIABLES
  faults,     \* what may go wrong
  pod,        \* pod[p]: the p-th pod
  edits,      \* number of edits made by users
  published,  \* the messages on the queue
  pushed,     \* pushed[u]: how many registries have the image of CIB u
  starter,    \* history, starter[u]: the last pod that wrote Building to CIB u
  finisher    \* history, finisher[u]: the last pod that wrote Completed or
              \* Failed to CIB u

jobVars == <<faults, pod, edits, published, pushed, starter, finisher>>

vars == <<clusterVars, jobVars>>

PodIds == 1..MaxPods

(***************************************************************************)
(* A pod: where its process is, the name it was given, the Job it belongs  *)
(* to (by the uid of the CIB owning the Job), its copy of the CIB with the *)
(* previous state that the copy only has in memory, how many registries it *)
(* has pushed to, and whether the Job controller has lost sight of it.     *)
(***************************************************************************)
Exited == {"succeeded", "failed", "terminated"}

PodSteps ==
  {"none", "new", "get", "building", "tellBuilding", "options", "push",
   "complete", "fail", "tellComplete", "tellFail"} \cup Exited

Pods ==
  [step : PodSteps, name : Names, job : Uids, copy : Cibs \cup {NoCib},
   prev : BuildStates, done : 0..Registries, lost : BOOLEAN]

NoPod == [step |-> "none"]

Messages == [uid : Uids, previousState : BuildStates, currentState : BuildStates]

TypeOK ==
  /\ ClusterTypeOK
  /\ faults \in FaultSets
  /\ pod \in [PodIds -> Pods \cup {NoPod}]
  /\ edits \in 0..MaxEdits
  /\ published \in Seq(Messages)
  /\ pushed \in [Uids -> 0..Registries]
  /\ starter \in [Uids -> PodIds \cup {0}]
  /\ finisher \in [Uids -> PodIds \cup {0}]

JobInit ==
  /\ faults \in FaultSets
  /\ pod = [p \in PodIds |-> NoPod]
  /\ edits = 0
  /\ published = <<>>
  /\ pushed = [u \in Uids |-> 0]
  /\ starter = [u \in Uids |-> 0]
  /\ finisher = [u \in Uids |-> 0]

Init == ClusterInit /\ JobInit

Running(p) == pod[p].step \notin Exited \cup {"none"}

Goto(p, step) == pod' = [pod EXCEPT ![p].step = step]

(***************************************************************************)
(* New: Kubernetes clients, message producer, plugins and image builder.   *)
(***************************************************************************)
New(p) ==
  /\ pod[p].step = "new"
  /\ \/ Goto(p, "get")
     \/ "new" \in faults /\ Goto(p, "failed")
  /\ UNCHANGED <<clusterVars, edits, published, pushed, starter, finisher, faults>>

(***************************************************************************)
(* Run: load the CIB by name, from the API server.                         *)
(***************************************************************************)
Get(p) ==
  /\ pod[p].step = "get"
  /\ \/ /\ Exists(pod[p].name)
        /\ pod' = [pod EXCEPT ![p].step = "building", ![p].copy = cib[pod[p].name]]
     \/ /\ ~Exists(pod[p].name) \/ "api" \in faults
        /\ Goto(p, "failed")
  /\ UNCHANGED <<clusterVars, edits, published, pushed, starter, finisher, faults>>

(***************************************************************************)
(* SetState keeps the previous state of the copy in memory, Initialized    *)
(* when there is none.                                                     *)
(***************************************************************************)
SetState(x, state) ==
  [x EXCEPT !.prev = IF x.copy.state = "" THEN "Initialized" ELSE x.copy.state,
            !.copy.state = state]

(***************************************************************************)
(* What the copy is after an answer of the API server: the stored CIB, in  *)
(* its new version.  PreviousState is not serialized and does not return.  *)
(***************************************************************************)
Answered(x) == [x EXCEPT !.prev = "", !.copy.ver = @ + 1]

(***************************************************************************)
(* transitionToBuilding, transitionToComplete and transitionToFailure      *)
(***************************************************************************)
Transition == [building |-> "Building", complete |-> "Completed", fail |-> "Failed"]

Telling == [building |-> "tellBuilding", complete |-> "tellComplete", fail |-> "tellFail"]

(***************************************************************************)
(* updateStatus, first half: the write goes through only if the CIB is the *)
(* version that the pod has a copy of.                                     *)
(***************************************************************************)
\* Mutant of Current: the resourceVersion is not compared.
AnyVersion(p) ==
  /\ Exists(pod[p].name)
  /\ cib[pod[p].name].uid = pod[p].copy.uid

Current(p) ==
  /\ Exists(pod[p].name)
  /\ cib[pod[p].name].uid = pod[p].copy.uid
  /\ cib[pod[p].name].ver = pod[p].copy.ver

StatusWritten(p) ==
  LET state == Transition[pod[p].step]
      u == pod[p].copy.uid
  IN /\ Current(p)
     /\ WriteState(pod[p].name, state)
     /\ IF state = "Building"
        THEN starter' = [starter EXCEPT ![u] = p] /\ UNCHANGED finisher
        ELSE finisher' = [finisher EXCEPT ![u] = p] /\ UNCHANGED starter

UpdateStatus(p) ==
  /\ pod[p].step \in DOMAIN Transition
  /\ StatusWritten(p)
  /\ pod' = [pod EXCEPT ![p] =
       [Answered(SetState(@, Transition[@.step])) EXCEPT !.step = Telling[pod[p].step]]]
  /\ UNCHANGED <<nameOf, clock, cibCache, owner, edits, published, pushed, faults>>

\* Mutant of UpdateStatusFails: the message is published all the same.
PublishAnyway(p) ==
  /\ pod[p].step \in DOMAIN Transition
  /\ ~Current(p) \/ "api" \in faults
  /\ pod' = [pod EXCEPT ![p] =
       [SetState(@, Transition[@.step]) EXCEPT !.step = Telling[pod[p].step]]]
  /\ UNCHANGED <<clusterVars, edits, published, pushed, starter, finisher, faults>>

\* A conflict, or the CIB is gone, or the call fails: the process ends.
UpdateStatusFails(p) ==
  /\ pod[p].step \in DOMAIN Transition
  /\ ~Current(p) \/ "api" \in faults
  /\ Goto(p, "failed")
  /\ UNCHANGED <<clusterVars, edits, published, pushed, starter, finisher, faults>>

\* The write goes through but the answer does not arrive.
UpdateStatusUnanswered(p) ==
  /\ pod[p].step \in DOMAIN Transition
  /\ "api" \in faults
  /\ StatusWritten(p)
  /\ Goto(p, "failed")
  /\ UNCHANGED <<nameOf, clock, cibCache, owner, edits, published, pushed, faults>>

(***************************************************************************)
(* updateStatus, second half: publish the new status, made from the copy   *)
(* that was answered.                                                      *)
(***************************************************************************)
\* Mutant of AfterTelling: a failed build is tried again.
TryAgain ==
  [tellBuilding |-> "options", tellComplete |-> "succeeded", tellFail |-> "options"]

AfterTelling ==
  [tellBuilding |-> "options", tellComplete |-> "succeeded", tellFail |-> "failed"]

StatusUpdate(p) ==
  [uid |-> pod[p].copy.uid, previousState |-> pod[p].prev,
   currentState |-> pod[p].copy.state]

Publish(p) ==
  /\ pod[p].step \in DOMAIN AfterTelling
  /\ published' = IF HasBroker THEN Append(published, StatusUpdate(p)) ELSE published
  /\ Goto(p, AfterTelling[pod[p].step])
  /\ UNCHANGED <<clusterVars, edits, pushed, starter, finisher, faults>>

\* The broker has not confirmed the message when Push returns: one that was
\* written to a connection that breaks is lost, and nobody notices.
PublishLost(p) ==
  /\ pod[p].step \in DOMAIN AfterTelling
  /\ HasBroker
  /\ "broker" \in faults
  /\ Goto(p, AfterTelling[pod[p].step])
  /\ UNCHANGED <<clusterVars, edits, published, pushed, starter, finisher, faults>>

PublishFails(p) ==
  /\ pod[p].step \in DOMAIN AfterTelling
  /\ HasBroker
  /\ "broker" \in faults
  /\ Goto(p, "failed")
  /\ UNCHANGED <<clusterVars, edits, published, pushed, starter, finisher, faults>>

(***************************************************************************)
(* generateBuildOptions and BuildAndPush.  The image is built with the     *)
(* first registry and pushed to all of them in turn.  A failure is         *)
(* reported in the status, what was pushed before it stays.                *)
(***************************************************************************)
GenerateOptions(p) ==
  /\ pod[p].step = "options"
  /\ Goto(p, "push")
  /\ UNCHANGED <<clusterVars, edits, published, pushed, starter, finisher, faults>>

\* Mutant of PushImage: the loop runs once more.
PushOnceMore(p) ==
  /\ pod[p].step = "push"
  /\ pod[p].done <= Registries
  /\ pod' = [pod EXCEPT ![p].done = @ + 1,
                        ![p].step = IF pod[p].done = Registries THEN "complete" ELSE "push"]
  /\ UNCHANGED <<clusterVars, edits, published, pushed, starter, finisher, faults>>

\* Mutant of PushImage: only the first registry is pushed to.
PushFirst(p) ==
  /\ pod[p].step = "push"
  /\ pod[p].done < Registries
  /\ pod' = [pod EXCEPT ![p].done = @ + 1, ![p].step = "complete"]
  /\ pushed' = [pushed EXCEPT ![pod[p].copy.uid] = IF @ = 0 THEN 1 ELSE @]
  /\ UNCHANGED <<clusterVars, edits, published, starter, finisher, faults>>

PushImage(p) ==
  /\ pod[p].step = "push"
  /\ pod[p].done < Registries
  /\ pod' = [pod EXCEPT ![p].done = @ + 1,
                        ![p].step = IF pod[p].done + 1 = Registries THEN "complete" ELSE "push"]
  /\ pushed' = [pushed EXCEPT ![pod[p].copy.uid] =
                  IF pod[p].done + 1 > @ THEN pod[p].done + 1 ELSE @]
  /\ UNCHANGED <<clusterVars, edits, published, starter, finisher, faults>>

\* Mutant of BuildFails: the failure is not reported.
BuildFailsSilently(p) ==
  /\ \/ pod[p].step \in {"options", "push"} /\ "build" \in faults
     \/ pod[p].step = "push" /\ Registries = 0
  /\ Goto(p, "failed")
  /\ UNCHANGED <<clusterVars, edits, published, pushed, starter, finisher, faults>>

BuildFails(p) ==
  /\ \/ pod[p].step \in {"options", "push"} /\ "build" \in faults
     \/ pod[p].step = "push" /\ Registries = 0
  /\ Goto(p, "fail")
  /\ UNCHANGED <<clusterVars, edits, published, pushed, starter, finisher, faults>>

(***************************************************************************)
(* The pod is ended from outside: SIGTERM (Cleanup and exit code 0) or a   *)
(* crash.  Pods whose Job is gone are always terminated in the end.        *)
(***************************************************************************)
JobGone(p) == owner["Job"][pod[p].name] # pod[p].job

Terminated(p) ==
  /\ Running(p)
  /\ "kill" \in faults \/ JobGone(p)
  /\ Goto(p, "terminated")
  /\ UNCHANGED <<clusterVars, edits, published, pushed, starter, finisher, faults>>

Crashes(p) ==
  /\ Running(p)
  /\ "kill" \in faults
  /\ Goto(p, "failed")
  /\ UNCHANGED <<clusterVars, edits, published, pushed, starter, finisher, faults>>

(***************************************************************************)
(* The Job controller of Kubernetes starts the pod of a Job, and another   *)
(* one when it has lost sight of those it started before.                  *)
(***************************************************************************)
\* The command of the pod (prepareJobArgs) has the name of the CIB, not its uid.
NewPod(n) ==
  [step |-> "new", name |-> n, job |-> owner["Job"][n], copy |-> NoCib,
   prev |-> "", done |-> 0, lost |-> FALSE]

PodsOf(u) == {p \in PodIds : pod[p] # NoPod /\ pod[p].job = u}

\* Mutant of StartPod: a backoffLimit that lets failed pods be run again.
RestartPod(n, p) ==
  /\ owner["Job"][n] # 0
  /\ \A q \in PodsOf(owner["Job"][n]) : pod[q].lost \/ pod[q].step = "failed"
  /\ pod[p] = NoPod
  /\ \A q \in 1..(p - 1) : pod[q] # NoPod
  /\ pod' = [pod EXCEPT ![p] = NewPod(n)]
  /\ UNCHANGED <<clusterVars, edits, published, pushed, starter, finisher, faults>>

StartPod(n, p) ==
  /\ owner["Job"][n] # 0
  /\ \A q \in PodsOf(owner["Job"][n]) : pod[q].lost
  /\ pod[p] = NoPod
  /\ \A q \in 1..(p - 1) : pod[q] # NoPod
  /\ pod' = [pod EXCEPT ![p] = NewPod(n)]
  /\ UNCHANGED <<clusterVars, edits, published, pushed, starter, finisher, faults>>

PodLost(p) ==
  /\ "lost" \in faults
  /\ Running(p)
  /\ ~pod[p].lost
  /\ pod' = [pod EXCEPT ![p].lost = TRUE]
  /\ UNCHANGED <<clusterVars, edits, published, pushed, starter, finisher, faults>>

(***************************************************************************)
(* The rest of the environment: the controller makes a Job for a CIB with  *)
(* an empty status, Kubernetes collects the Job once its CIB is deleted,   *)
(* and users create, edit and delete CIBs.                                 *)
(***************************************************************************)
JobAppears(n) ==
  /\ Exists(n)
  /\ cib[n].state = ""
  /\ owner["Job"][n] = 0
  /\ owner' = [owner EXCEPT !["Job"][n] = cib[n].uid]
  /\ UNCHANGED <<cib, nameOf, clock, cibCache, jobVars>>

CollectJob(n) ==
  /\ CollectOwned("Job", n)
  /\ UNCHANGED <<cib, nameOf, clock, cibCache, jobVars>>

UserEdits(n) ==
  /\ Exists(n)
  /\ "edit" \in faults
  /\ edits < MaxEdits
  /\ edits' = edits + 1
  /\ cib' = [cib EXCEPT ![n].ver = @ + 1]
  /\ UNCHANGED <<nameOf, clock, cibCache, owner, pod, published, pushed, starter, finisher, faults>>

ClusterStep(n) ==
  /\ \/ CreateCib(n)
     \/ UserDeletes(n)
     \/ "foreground" \in faults /\ UserDeletesForeground(n)
     \/ FinalizeCib(n)
  /\ UNCHANGED jobVars

RunJob(p) ==
  \/ New(p)
  \/ Get(p)
  \/ UpdateStatus(p)
  \/ UpdateStatusFails(p)
  \/ UpdateStatusUnanswered(p)
  \/ Publish(p)
  \/ PublishLost(p)
  \/ PublishFails(p)
  \/ GenerateOptions(p)
  \/ PushImage(p)
  \/ BuildFails(p)

Next ==
  \/ \E p \in PodIds :
       \/ RunJob(p)
       \/ Terminated(p)
       \/ Crashes(p)
       \/ PodLost(p)
       \/ \E n \in Names : StartPod(n, p)
  \/ \E n \in Names :
       \/ JobAppears(n)
       \/ CollectJob(n)
       \/ UserEdits(n)
       \/ ClusterStep(n)

Spec == Init /\ [][Next]_vars

\* Processes run, the Job controller starts pods, the controller makes Jobs,
\* and the garbage collector works.
Fairness ==
  /\ \A p \in PodIds : WF_vars(RunJob(p))
  /\ \A p \in PodIds, n \in Names : WF_vars(StartPod(n, p))
  /\ \A n \in Names : WF_vars(JobAppears(n)) /\ WF_vars(CollectJob(n))

FairSpec == Spec /\ Fairness

-----------------------------------------------------------------------------
(***************************************************************************)
(* Properties                                                              *)
(***************************************************************************)

(***************************************************************************)
(* A CIB whose status is Completed has its image in every push registry,   *)
(* even when several pods have worked on it.                               *)
(***************************************************************************)
CompletedIsPushed ==
  \A n \in Names :
    cib[n].state = "Completed" => pushed[cib[n].uid] = Registries

(***************************************************************************)
(* The outcome in the status is the outcome of the build that was started  *)
(* last: a pod that was replaced, or belongs to an earlier CIB of the same *)
(* name, cannot report its own over it.                                    *)
(***************************************************************************)
OutcomeOfLatestStart ==
  \A n \in Names :
    cib[n].state \in Finished =>
      /\ starter[cib[n].uid] # 0
      /\ finisher[cib[n].uid] = starter[cib[n].uid]

(***************************************************************************)
(* A build is disturbed when the Job controller has lost a pod of it, or   *)
(* when a pod started for an earlier CIB of that name has found it: then   *)
(* several pods work on it.                                                *)
(***************************************************************************)
Disturbed(u) ==
  \E p \in PodIds :
    /\ pod[p] # NoPod
    /\ u \in {pod[p].job, pod[p].copy.uid}
    /\ pod[p].lost \/ (pod[p].copy # NoCib /\ pod[p].copy.uid # pod[p].job)

(***************************************************************************)
(* Subscribers never hear of an outcome that is not the one in the status: *)
(* a message about a build that finished was preceded by the status write, *)
(* and nothing has changed the outcome since, unless it was disturbed.     *)
(***************************************************************************)
OutcomeMessagesAreTrue ==
  \A n \in Names : \A i \in DOMAIN published :
    (/\ published[i].uid = cib[n].uid
     /\ published[i].currentState \in Finished
     /\ ~Disturbed(cib[n].uid)) =>
      cib[n].state = published[i].currentState

(***************************************************************************)
(* Messages about one CIB arrive in the order of its life: none follows    *)
(* the one that tells its outcome, unless the build was disturbed.         *)
(***************************************************************************)
OutcomeMessageIsLast ==
  \A i, j \in DOMAIN published :
    i < j /\ published[i].uid = published[j].uid /\ ~Disturbed(published[i].uid) =>
      published[i].currentState \notin Finished

(***************************************************************************)
(* A pod that ends by itself with success has done everything: the image   *)
(* is in all registries, and the CIB, if it is still there and no other    *)
(* pod has started its build anew, says Completed, however many pods were  *)
(* lost and whatever users did to it.  The message that says so is out,    *)
(* unless the broker failed: its loss goes unnoticed, see PublishLost.     *)
(***************************************************************************)
SuccessIsReported ==
  \A p \in PodIds :
    pod[p].step = "succeeded" =>
      LET u == pod[p].copy.uid
      IN /\ pushed[u] = Registries
         /\ \A n \in Names : cib[n].uid = u /\ starter[u] = p => cib[n].state = "Completed"
         /\ HasBroker /\ "broker" \notin faults =>
              \E i \in DOMAIN published :
                published[i].uid = u /\ published[i].currentState = "Completed"

(***************************************************************************)
(* The job implements the life of a build: taken up once, finished at most *)
(* once, never changing its outcome, until it is deleted or disturbed.     *)
(***************************************************************************)
Phase(u) ==
  IF u \notin DOMAIN nameOf THEN "none"
  ELSE IF u \notin LiveUids \/ Disturbed(u) THEN "gone"
  ELSE CASE cib[nameOf[u]].state = "Building"  -> "building"
         [] cib[nameOf[u]].state = "Completed" -> "completed"
         [] cib[nameOf[u]].state = "Failed"    -> "failed"
         [] OTHER                              -> "pending"

Lifecycle == INSTANCE BuildLifecycle WITH
  Builds <- Uids, phase <- [u \in Uids |-> Phase(u)]

ImplementsLifecycle == Lifecycle!Spec

(***************************************************************************)
(* SetState preserves the previous state for the status update: a message  *)
(* that tells of a new state also tells of the state before it.            *)
(***************************************************************************)
MessagesTellPreviousState ==
  \A i \in DOMAIN published : published[i].previousState # ""

(***************************************************************************)
(* As long as nothing but the build itself fails, every build that is not  *)
(* deleted or disturbed finishes.                                          *)
(***************************************************************************)
EveryBuildFinishes ==
  \A u \in Uids :
    (u \in LiveUids /\ faults \subseteq {"build", "foreground"}) ~>
      \/ Phase(u) \in {"gone", "completed", "failed"}
      \/ \E n \in Names : cib[n].uid = u /\ cib[n].deleting
=============================================================================
