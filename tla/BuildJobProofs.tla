--------------------------- MODULE BuildJobProofs ---------------------------
(***************************************************************************)
(* Proofs about the build job, for any number of CIBs, pods, registries    *)
(* and edits, any set of faults, and names that are used again: the types, *)
(* what the status and the messages say of a build, and that every build   *)
(* lives the life of BuildLifecycle.                                       *)
(***************************************************************************)
EXTENDS BuildJob, ClusterProofs

(***************************************************************************)
(* The inductive invariant                                                 *)
(***************************************************************************)

(***************************************************************************)
(* A CIB and the owner of a Job have the name they were created under, and *)
(* so have the Job of a pod and the CIB that it has a copy of.             *)
(***************************************************************************)
NamesInv ==
  /\ \A n \in Names : Exists(n) => Given(n, cib[n].uid)
  /\ \A n \in Names : owner["Job"][n] # 0 => Given(n, owner["Job"][n])

Started == {"tellBuilding", "options", "push", "complete", "fail"}

Ended == {"tellComplete", "tellFail"} \cup Exited

(***************************************************************************)
(* What the process of a pod has when it is somewhere in updateStatus or   *)
(* BuildAndPush: a copy of a CIB, which says what it last wrote, and as    *)
(* many pushed images as it has counted.                                   *)
(***************************************************************************)
PodOK(p) ==
  /\ pod[p].step # "none"
  /\ Given(pod[p].name, pod[p].job)
  /\ pod[p].copy # NoCib => /\ Given(pod[p].name, pod[p].copy.uid)
                            /\ pod[p].done <= pushed[pod[p].copy.uid]
  /\ pod[p].step \in {"new", "get"} => pod[p].copy = NoCib /\ pod[p].done = 0
  /\ pod[p].step \in Started \cup {"building", "tellComplete", "tellFail", "succeeded"} =>
       pod[p].copy # NoCib
  /\ pod[p].step \in {"complete", "tellComplete", "succeeded"} => pod[p].done = Registries
  /\ pod[p].step = "tellBuilding" => pod[p].copy.state = "Building"
  /\ pod[p].step = "tellComplete" => pod[p].copy.state = "Completed"
  /\ pod[p].step = "tellFail" => pod[p].copy.state = "Failed"

PodInv == \A p \in PodIds : pod[p] # NoPod => PodOK(p)

(***************************************************************************)
(* No copy is newer than the CIB.  A pod that has written Building and     *)
(* still has the current version is the last that wrote it.                *)
(***************************************************************************)
VersionInv ==
  \A p \in PodIds :
    (/\ pod[p] # NoPod
     /\ pod[p].copy # NoCib
     /\ cib[pod[p].name].uid = pod[p].copy.uid) =>
      /\ pod[p].copy.ver <= cib[pod[p].name].ver
      /\ (pod[p].step \in Started /\ pod[p].copy.ver = cib[pod[p].name].ver) =>
           starter[pod[p].copy.uid] = p

(***************************************************************************)
(* The pods that have written a status, and the status that they wrote.    *)
(***************************************************************************)
Wrote(p, u, steps) ==
  /\ pod[p] # NoPod
  /\ pod[p].copy # NoCib
  /\ pod[p].copy.uid = u
  /\ pod[p].step \in steps

WritersInv ==
  \A u \in Uids :
    /\ starter[u] # 0 => Wrote(starter[u], u, Started \cup Ended)
    /\ finisher[u] # 0 => Wrote(finisher[u], u, Ended)

StateOK(state, u) ==
  /\ IF starter[u] = 0 THEN state = "" ELSE state \in {"Building"} \cup Finished
  /\ state \in Finished => finisher[u] = starter[u]
  /\ state = "Completed" => pushed[u] = Registries

StateInv == \A n \in Names : Exists(n) => StateOK(cib[n].state, cib[n].uid)

(***************************************************************************)
(* Of two pods of a Job one has been lost.                                 *)
(***************************************************************************)
PairInv ==
  \A p, q \in PodIds :
    (pod[p] # NoPod /\ pod[q] # NoPod /\ p # q /\ pod[p].job = pod[q].job) =>
      pod[p].lost \/ pod[q].lost

(***************************************************************************)
(* A message comes from a pod, which tells an outcome as its last act.     *)
(***************************************************************************)
MessageInv ==
  \A i \in DOMAIN published : \E p \in PodIds :
    /\ pod[p] # NoPod
    /\ pod[p].copy # NoCib
    /\ pod[p].copy.uid = published[i].uid
    /\ published[i].currentState \in Finished => pod[p].step \in Exited

Reliable == HasBroker /\ "broker" \notin faults

ReportInv ==
  \A p \in PodIds :
    (pod[p] # NoPod /\ pod[p].step = "succeeded" /\ Reliable) =>
      \E i \in DOMAIN published :
        published[i].uid = pod[p].copy.uid /\ published[i].currentState = "Completed"

(***************************************************************************)
(* A pod that is about to tell an outcome tells what the status says.      *)
(***************************************************************************)
TellInv ==
  \A p \in PodIds, n \in Names :
    (/\ pod[p] # NoPod
     /\ pod[p].step \in {"tellComplete", "tellFail"}
     /\ cib[n].uid = pod[p].copy.uid
     /\ ~Disturbed(cib[n].uid)) =>
      cib[n].state = pod[p].copy.state

(***************************************************************************)
(* What a pod has completed is what the status says as long as this pod    *)
(* has written Building last.                                              *)
(***************************************************************************)
DoneInv ==
  \A p \in PodIds, n \in Names :
    (/\ pod[p] # NoPod
     /\ pod[p].step \in {"tellComplete", "succeeded"}
     /\ cib[n].uid = pod[p].copy.uid
     /\ starter[pod[p].copy.uid] = p) =>
      cib[n].state = "Completed"

BuildInv == TypeOK /\ NamesInv /\ PodInv /\ VersionInv /\ WritersInv /\ StateInv /\ PairInv

NewsInv ==
  MessageInv /\ ReportInv /\ TellInv /\ DoneInv /\ OutcomeMessagesAreTrue /\ OutcomeMessageIsLast

IInv == BuildInv /\ NewsInv

(***************************************************************************)
(* What no step does to a pod                                              *)
(***************************************************************************)

(***************************************************************************)
(* A pod keeps its name, its Job and the uid of its copy; it stays lost,   *)
(* and stays where it is once its process has ended.                       *)
(***************************************************************************)
GoesOn(x, y) ==
  /\ y # NoPod
  /\ y.name = x.name
  /\ y.job = x.job
  /\ x.lost => y.lost
  /\ x.copy # NoCib => y.copy # NoCib /\ y.copy.uid = x.copy.uid
  /\ x.step \in Exited => y.step = x.step

PodsGoOn == \A q \in PodIds : pod[q] # NoPod => GoesOn(pod[q], pod'[q])

(***************************************************************************)
(* A pod that exists has all the fields of a pod, and a CIB that exists    *)
(* those of a CIB.                                                         *)
(***************************************************************************)
LEMMA Fields ==
  ASSUME TypeOK
  PROVE  /\ \A p \in PodIds : pod[p] # NoPod => pod[p] \in Pods
         /\ \A p \in PodIds : pod[p] = NoPod => pod[p].step = "none"
         /\ \A n \in Names : Exists(n) => cib[n] \in Cibs
         /\ \A n \in Names : ~Exists(n) => cib[n].uid = 0
<1>1. pod \in [PodIds -> Pods \cup {NoPod}] /\ cib \in [Names -> Cibs \cup {NoCib}]
  BY Zenon DEF TypeOK, ClusterTypeOK
<1>2. NoPod.step = "none" /\ NoCib.uid = 0
  BY Zenon DEF NoPod, NoCib
<1> QED
  BY Zenon, <1>1, <1>2 DEF Exists

(***************************************************************************)
(* The absence of a CIB has no uid.                                        *)
(***************************************************************************)
LEMMA NoUid ==
  /\ NoCib.uid = 0
  /\ 0 \notin Uids
  /\ \A c \in Cibs : c.uid \in Uids /\ c.uid # 0 /\ c # NoCib
<1>1. NoCib.uid = 0
  BY Zenon DEF NoCib
<1>2. 0 \notin Uids
  BY DEF Uids
<1>3. \A c \in Cibs : c.uid \in Uids
  BY Zenon DEF Cibs
<1> QED
  BY Zenon, <1>1, <1>2, <1>3

(***************************************************************************)
(* A build has at most one pod that has a copy of it, unless it was        *)
(* disturbed.                                                              *)
(***************************************************************************)
LEMMA OnePod ==
  ASSUME TypeOK, PairInv, NEW u \in Uids, ~Disturbed(u),
         NEW p \in PodIds, NEW q \in PodIds,
         pod[p] # NoPod, pod[p].copy # NoCib, pod[p].copy.uid = u,
         pod[q] # NoPod, pod[q].copy # NoCib, pod[q].copy.uid = u
  PROVE  p = q
<1>1. /\ ~pod[p].lost /\ pod[p].job = u
      /\ ~pod[q].lost /\ pod[q].job = u
  BY Zenon DEF Disturbed
<1> QED
  BY Zenon, <1>1 DEF PairInv

(***************************************************************************)
(* A build that was disturbed stays so.                                    *)
(***************************************************************************)
LEMMA StaysDisturbed ==
  ASSUME TypeOK, PodsGoOn, NEW u \in Uids, Disturbed(u)
  PROVE  Disturbed(u)'
<1>1. PICK p \in PodIds :
        /\ pod[p] # NoPod
        /\ u \in {pod[p].job, pod[p].copy.uid}
        /\ pod[p].lost \/ (pod[p].copy # NoCib /\ pod[p].copy.uid # pod[p].job)
  BY Zenon DEF Disturbed
<1>2. GoesOn(pod[p], pod'[p])
  BY Zenon, <1>1 DEF PodsGoOn
<1>3. u = pod[p].copy.uid => pod[p].copy # NoCib
  BY Zenon, NoUid
<1> QED
  BY Zenon, <1>1, <1>2, <1>3 DEF GoesOn, Disturbed

(***************************************************************************)
(* A step of a process that only goes from one place to another.           *)
(***************************************************************************)
LEMMA Moved ==
  ASSUME TypeOK, NEW p \in PodIds, NEW s \in PodSteps \ {"none"}, pod[p] # NoPod, Goto(p, s)
  PROVE  /\ \A q \in PodIds \ {p} : pod'[q] = pod[q]
         /\ pod'[p] # NoPod
         /\ pod'[p].step = s
         /\ pod'[p].name = pod[p].name
         /\ pod'[p].job = pod[p].job
         /\ pod'[p].copy = pod[p].copy
         /\ pod'[p].done = pod[p].done
         /\ pod'[p].lost = pod[p].lost
         /\ pod' \in [PodIds -> Pods \cup {NoPod}]
<1>1. pod[p] \in Pods /\ pod \in [PodIds -> Pods \cup {NoPod}]
  BY Zenon, Fields DEF TypeOK
<1>2. pod' = [pod EXCEPT ![p] = [pod[p] EXCEPT !.step = s]]
  BY Zenon DEF Goto
<1>3. [pod[p] EXCEPT !.step = s] \in Pods
  BY Zenon, <1>1 DEF Pods
<1>4. pod'[p] = [pod[p] EXCEPT !.step = s]
  BY Zenon, <1>1, <1>2
<1> QED
  BY Zenon, <1>1, <1>2, <1>3, <1>4 DEF Pods, NoPod

(***************************************************************************)
(* Steps that only move a process on                                       *)
(***************************************************************************)
MovesOn(a, s) ==
  \/ a \notin Exited \cup {"none"} /\ s \in {"failed", "terminated"}
  \/ a = "new" /\ s = "get"
  \/ a \in Started /\ s \in {"options", "push", "fail"}
  \/ a = "tellComplete" /\ s = "succeeded"

(***************************************************************************)
(* Set up, failures, messages, the build and its failures, and the end of  *)
(* a process from outside: what is in the cluster, in the registries and   *)
(* in the histories stays as it is.                                        *)
(***************************************************************************)
LEMMA MoveInv ==
  ASSUME BuildInv, NEW p \in PodIds, NEW s \in PodSteps \ {"none"}, Goto(p, s),
         MovesOn(pod[p].step, s), published' \in Seq(Messages),
         UNCHANGED <<clusterVars, edits, pushed, starter, finisher, faults>>
  PROVE  BuildInv' /\ PodsGoOn
<1> USE DEF BuildInv
<1>1. pod[p] # NoPod /\ pod[p] \in Pods
  <2>1. pod[p].step # "none"
    BY Zenon DEF MovesOn, Started
  <2> QED
    BY Zenon, <2>1, Fields
<1>2. /\ \A q \in PodIds \ {p} : pod'[q] = pod[q]
      /\ pod'[p] # NoPod
      /\ pod'[p].step = s
      /\ pod'[p].name = pod[p].name
      /\ pod'[p].job = pod[p].job
      /\ pod'[p].copy = pod[p].copy
      /\ pod'[p].done = pod[p].done
      /\ pod'[p].lost = pod[p].lost
      /\ pod' \in [PodIds -> Pods \cup {NoPod}]
  BY Zenon, <1>1, Moved
<1>3. TypeOK'
  BY Zenon, <1>2 DEF TypeOK, ClusterTypeOK, clusterVars
<1>4. NamesInv'
  BY Zenon DEF NamesInv, Exists, Given, clusterVars
<1>5. PodInv'
  <2> SUFFICES ASSUME NEW q \in PodIds, pod'[q] # NoPod
               PROVE  PodOK(q)'
    BY Zenon DEF PodInv
  <2> QED
    BY <1>1, <1>2 DEF PodInv, PodOK, MovesOn, Started, Exited, Given, clusterVars
<1>6. VersionInv'
  BY <1>1, <1>2 DEF VersionInv, MovesOn, Started, Exited, clusterVars
<1>7. WritersInv'
  <2>1. ASSUME NEW q \in PodIds, NEW u, NEW steps \in {Started \cup Ended, Ended}, Wrote(q, u, steps)
        PROVE  Wrote(q, u, steps)'
    BY Zenon, <1>2, <2>1 DEF Wrote, MovesOn, Started, Ended, Exited
  <2> QED
    BY Zenon, <2>1 DEF WritersInv, TypeOK
<1>8. StateInv'
  BY Zenon DEF StateInv, StateOK, Exists, clusterVars
<1>9. PairInv'
  BY <1>1, <1>2 DEF PairInv
<1>10. PodsGoOn
  BY Zenon, <1>1, <1>2 DEF PodsGoOn, GoesOn, MovesOn, Started, Exited
<1> QED
  BY Zenon, <1>3, <1>4, <1>5, <1>6, <1>7, <1>8, <1>9, <1>10

(***************************************************************************)
(* Run finds the CIB and takes a copy of it.                               *)
(***************************************************************************)
LEMMA GetInv ==
  ASSUME BuildInv, NEW p \in PodIds, pod[p].step = "get", Exists(pod[p].name),
         pod' = [pod EXCEPT ![p].step = "building", ![p].copy = cib[pod[p].name]],
         UNCHANGED <<clusterVars, edits, published, pushed, starter, finisher, faults>>
  PROVE  BuildInv' /\ PodsGoOn
<1> USE DEF BuildInv
<1> DEFINE c == cib[pod[p].name]
           x == [pod[p] EXCEPT !.step = "building", !.copy = c]
<1>1. pod[p] # NoPod /\ pod[p] \in Pods /\ pod \in [PodIds -> Pods \cup {NoPod}]
  BY Zenon, Fields DEF TypeOK
<1>2. c \in Cibs /\ c # NoCib /\ Given(pod[p].name, c.uid) /\ pod[p].copy = NoCib /\ pod[p].done = 0
  BY Zenon, <1>1, Fields DEF NamesInv, PodInv, PodOK, Pods, Exists
<1>3. pod'[p] = x /\ \A q \in PodIds \ {p} : pod'[q] = pod[q]
  BY Zenon, <1>1
<1>4. /\ x.step = "building" /\ x.copy = c /\ x.name = pod[p].name /\ x.job = pod[p].job
      /\ x.done = pod[p].done /\ x.lost = pod[p].lost /\ x \in Pods
  BY Zenon, <1>1, <1>2 DEF Pods, PodSteps
<1>5. x # NoPod /\ pod' \in [PodIds -> Pods \cup {NoPod}]
  BY Zenon, <1>1, <1>4 DEF NoPod
<1> HIDE DEF c, x
<1>6. TypeOK'
  BY Zenon, <1>5 DEF TypeOK, ClusterTypeOK, clusterVars
<1>7. NamesInv'
  BY Zenon DEF NamesInv, Exists, Given, clusterVars
<1>8. PodInv'
  <2> SUFFICES ASSUME NEW q \in PodIds, pod'[q] # NoPod
               PROVE  PodOK(q)'
    BY Zenon DEF PodInv
  <2>1. CASE q = p
    <3>1. c.uid \in Uids /\ 0 <= pushed[c.uid]
      BY <1>2 DEF Cibs, TypeOK
    <3>2. Given(pod[p].name, pod[p].job)
      BY Zenon, <1>1 DEF PodInv, PodOK
    <3> QED
      BY Zenon, <1>2, <1>3, <1>4, <2>1, <3>1, <3>2 DEF PodOK, Started, Given, clusterVars
  <2>2. CASE q # p
    BY Zenon, <1>3, <2>2 DEF PodInv, PodOK, Given, clusterVars
  <2> QED
    BY Zenon, <2>1, <2>2
<1>9. VersionInv'
  <2>1. c.ver <= c.ver
    BY <1>2 DEF Cibs
  <2>2. ASSUME NEW q \in PodIds \ {p}
        PROVE  pod'[q] = pod[q]
    BY Zenon, <1>3
  <2>3. cib' = cib /\ starter' = starter
    BY Zenon DEF clusterVars
  <2>4. /\ pod'[p].copy.ver <= cib'[pod'[p].name].ver
        /\ pod'[p].step \notin Started
    <3>1. pod'[p].copy = c /\ cib'[pod'[p].name] = c
      BY Zenon, <1>3, <1>4, <2>3 DEF c
    <3> QED
      BY Zenon, <1>3, <1>4, <2>1, <3>1 DEF Started
  <2> QED
    BY Zenon, <2>2, <2>3, <2>4 DEF VersionInv
<1>10. WritersInv'
  <2>1. ASSUME NEW q \in PodIds, NEW u, NEW steps \in {Started \cup Ended, Ended}, Wrote(q, u, steps)
        PROVE  Wrote(q, u, steps)'
    BY Zenon, <1>2, <1>3, <2>1 DEF Wrote
  <2> QED
    BY Zenon, <2>1 DEF WritersInv, TypeOK
<1>11. StateInv'
  BY Zenon DEF StateInv, StateOK, Exists, clusterVars
<1>12. PairInv'
  BY <1>1, <1>3, <1>4 DEF PairInv
<1>13. PodsGoOn
  BY Zenon, <1>1, <1>2, <1>3, <1>4, <1>5 DEF PodsGoOn, GoesOn, Exited
<1> QED
  BY Zenon, <1>6, <1>7, <1>8, <1>9, <1>10, <1>11, <1>12, <1>13

(***************************************************************************)
(* An image is pushed to the next registry.                                *)
(***************************************************************************)
LEMMA PushInv ==
  ASSUME BuildInv, NEW p \in PodIds, PushImage(p)
  PROVE  BuildInv' /\ PodsGoOn
<1> USE DEF BuildInv
<1> DEFINE u == pod[p].copy.uid
           d == pod[p].done + 1
           x == [pod[p] EXCEPT !.done = d, !.step = IF d = Registries THEN "complete" ELSE "push"]
<1>1. /\ pod[p].step = "push" /\ pod[p].done < Registries
      /\ pod' = [pod EXCEPT ![p].done = @ + 1,
                            ![p].step = IF pod[p].done + 1 = Registries THEN "complete" ELSE "push"]
      /\ pushed' = [pushed EXCEPT ![u] = IF d > @ THEN d ELSE @]
      /\ UNCHANGED <<clusterVars, edits, published, starter, finisher, faults>>
  BY Zenon DEF PushImage
<1>2. pod[p] # NoPod /\ pod[p] \in Pods /\ pod \in [PodIds -> Pods \cup {NoPod}]
  BY Zenon, <1>1, Fields DEF TypeOK
<1>3. pod[p].copy # NoCib /\ u \in Uids /\ PodOK(p)
  BY Zenon, <1>1, <1>2 DEF PodInv, PodOK, Started, Pods, Cibs
<1>4. d \in 0..Registries /\ d # pod[p].done
  BY <1>1, <1>2, BuildJobAssumption DEF Pods
<1>5. pod'[p] = x /\ \A q \in PodIds \ {p} : pod'[q] = pod[q]
  BY Zenon, <1>1, <1>2
<1>6. /\ x.step \in {"complete", "push"} /\ (x.step = "complete" => d = Registries)
      /\ x.copy = pod[p].copy /\ x.name = pod[p].name /\ x.job = pod[p].job
      /\ x.done = d /\ x.lost = pod[p].lost /\ x \in Pods
  BY Zenon, <1>2, <1>4 DEF Pods, PodSteps
<1>7. x # NoPod /\ pod' \in [PodIds -> Pods \cup {NoPod}]
  BY Zenon, <1>1, <1>2, <1>6 DEF NoPod
<1>8. /\ pushed' \in [Uids -> 0..Registries]
      /\ d <= pushed'[u]
      /\ \A v \in Uids : pushed[v] <= pushed'[v]
      /\ \A v \in Uids : pushed[v] = Registries => pushed'[v] = Registries
  BY <1>1, <1>3, <1>4, BuildJobAssumption DEF TypeOK
<1> HIDE DEF d, x
<1>9. TypeOK'
  BY Zenon, <1>1, <1>7, <1>8 DEF TypeOK, ClusterTypeOK, clusterVars
<1>10. NamesInv'
  BY Zenon, <1>1 DEF NamesInv, Exists, Given, clusterVars
<1>11. PodInv'
  <2> SUFFICES ASSUME NEW q \in PodIds, pod'[q] # NoPod
               PROVE  PodOK(q)'
    BY Zenon DEF PodInv
  <2>1. CASE q = p
    <3>1. /\ pod'[q].step \in {"complete", "push"}
          /\ pod'[q].copy = pod[p].copy /\ pod'[q].copy.uid = u
          /\ pod'[q].name = pod[p].name /\ pod'[q].job = pod[p].job
          /\ pod'[q].done = d /\ (pod'[q].step = "complete" => d = Registries)
      BY Zenon, <1>5, <1>6, <2>1
    <3>2. Given(pod[p].name, pod[p].job)' /\ Given(pod[p].name, pod[p].copy.uid)'
      BY Zenon, <1>1, <1>3, <2>1, <3>1 DEF PodOK, Given, clusterVars
    <3> QED
      BY Zenon, <1>3, <1>8, <2>1, <3>1, <3>2 DEF PodOK, Started
  <2>2. CASE q # p
    <3>1. pod'[q] = pod[q] /\ PodOK(q) /\ pod[q] \in Pods
      BY Zenon, <1>5, <2>2, Fields DEF PodInv
    <3>2. pod[q].copy # NoCib => pod[q].copy.uid \in Uids
      BY Zenon, <3>1 DEF Pods, Cibs
    <3>3. pod[q].copy # NoCib => pod[q].done <= pushed'[pod[q].copy.uid]
      BY <1>8, <3>1, <3>2, BuildJobAssumption DEF PodOK, Pods, TypeOK
    <3> QED
      BY Zenon, <1>1, <3>1, <3>3 DEF PodOK, Given, clusterVars
  <2> QED
    BY Zenon, <2>1, <2>2
<1>12. VersionInv'
  <2>1. /\ pod'[p].copy = pod[p].copy /\ pod'[p].name = pod[p].name
        /\ pod[p].step \in Started
    BY Zenon, <1>1, <1>5, <1>6 DEF Started
  <2>2. UNCHANGED <<cib, starter>>
    BY Zenon, <1>1 DEF clusterVars
  <2> SUFFICES ASSUME NEW q \in PodIds, pod'[q] # NoPod, pod'[q].copy # NoCib,
                      cib'[pod'[q].name].uid = pod'[q].copy.uid
               PROVE  /\ pod'[q].copy.ver <= cib'[pod'[q].name].ver
                      /\ (pod'[q].step \in Started /\ pod'[q].copy.ver = cib'[pod'[q].name].ver) =>
                           starter'[pod'[q].copy.uid] = q
    BY Zenon DEF VersionInv
  <2>3. CASE q = p
    BY Zenon, <1>2, <2>1, <2>2, <2>3 DEF VersionInv
  <2>4. CASE q # p
    BY Zenon, <1>5, <2>2, <2>4 DEF VersionInv
  <2> QED
    BY Zenon, <2>3, <2>4
<1>13. WritersInv'
  <2>1. ASSUME NEW q \in PodIds, NEW v, NEW steps \in {Started \cup Ended, Ended}, Wrote(q, v, steps)
        PROVE  Wrote(q, v, steps)'
    BY Zenon, <1>1, <1>5, <1>6, <1>7, <2>1 DEF Wrote, Started, Ended, Exited
  <2> QED
    BY Zenon, <1>1, <2>1 DEF WritersInv, TypeOK
<1>14. StateInv'
  <2>1. \A n \in Names : Exists(n) => cib[n].uid \in Uids
    BY Zenon, Fields DEF Cibs
  <2> QED
    BY Zenon, <1>1, <1>8, <2>1 DEF StateInv, StateOK, Exists, clusterVars
<1>15. PairInv'
  BY <1>2, <1>5, <1>6 DEF PairInv
<1>16. PodsGoOn
  BY Zenon, <1>1, <1>2, <1>5, <1>6, <1>7 DEF PodsGoOn, GoesOn, Exited
<1> QED
  BY Zenon, <1>9, <1>10, <1>11, <1>12, <1>13, <1>14, <1>15, <1>16

(***************************************************************************)
(* The Job controller starts a pod, or loses sight of one.                 *)
(***************************************************************************)
LEMMA StartInv ==
  ASSUME BuildInv, NEW p \in PodIds, NEW n \in Names, StartPod(n, p)
  PROVE  BuildInv' /\ PodsGoOn
<1> USE DEF BuildInv
<1> DEFINE x == NewPod(n)
<1>1. /\ owner["Job"][n] # 0
      /\ \A q \in PodsOf(owner["Job"][n]) : pod[q].lost
      /\ pod[p] = NoPod
      /\ pod' = [pod EXCEPT ![p] = x]
      /\ UNCHANGED <<clusterVars, edits, published, pushed, starter, finisher, faults>>
  BY Zenon DEF StartPod
<1>2. pod \in [PodIds -> Pods \cup {NoPod}]
  BY Zenon DEF TypeOK
<1>3. pod'[p] = x /\ \A q \in PodIds \ {p} : pod'[q] = pod[q]
  BY Zenon, <1>1, <1>2
<1>4. owner["Job"][n] \in Uids /\ Given(n, owner["Job"][n])
  BY <1>1 DEF TypeOK, ClusterTypeOK, Kinds, NamesInv
<1>5. /\ x.step = "new" /\ x.copy = NoCib /\ x.name = n /\ x.job = owner["Job"][n]
      /\ x.done = 0 /\ x.lost = FALSE
  BY Zenon DEF NewPod
<1>6. x \in Pods
  BY <1>4, BuildJobAssumption DEF NewPod, Pods, PodSteps, BuildStates
<1>7. x # NoPod /\ pod' \in [PodIds -> Pods \cup {NoPod}]
  BY <1>1, <1>2, <1>5, <1>6 DEF NoPod
<1> HIDE DEF x
<1>8. TypeOK'
  BY Zenon, <1>1, <1>7 DEF TypeOK, ClusterTypeOK, clusterVars
<1>9. NamesInv'
  BY Zenon, <1>1 DEF NamesInv, Exists, Given, clusterVars
<1>10. PodInv'
  <2> SUFFICES ASSUME NEW q \in PodIds, pod'[q] # NoPod
               PROVE  PodOK(q)'
    BY Zenon DEF PodInv
  <2>1. CASE q = p
    BY Zenon, <1>1, <1>3, <1>4, <1>5, <2>1 DEF PodOK, Started, Given, clusterVars
  <2>2. CASE q # p
    BY <1>1, <1>3, <2>2 DEF PodInv, PodOK, Given, clusterVars
  <2> QED
    BY Zenon, <2>1, <2>2
<1>11. VersionInv'
  BY <1>1, <1>3, <1>5 DEF VersionInv, clusterVars
<1>12. WritersInv'
  <2>1. ASSUME NEW q \in PodIds, NEW v, NEW steps \in {Started \cup Ended, Ended}, Wrote(q, v, steps)
        PROVE  Wrote(q, v, steps)'
    BY Zenon, <1>1, <1>3, <2>1 DEF Wrote
  <2> QED
    BY Zenon, <1>1, <2>1 DEF WritersInv, TypeOK
<1>13. StateInv'
  BY Zenon, <1>1 DEF StateInv, StateOK, Exists, clusterVars
<1>14. PairInv'
  BY <1>1, <1>3, <1>5 DEF PairInv, PodsOf
<1>15. PodsGoOn
  BY Zenon, <1>1, <1>3 DEF PodsGoOn, GoesOn
<1> QED
  BY Zenon, <1>8, <1>9, <1>10, <1>11, <1>12, <1>13, <1>14, <1>15

(***************************************************************************)
(* The pod of a job is lost with its node: the record says so and nothing  *)
(* else changes.                                                           *)
(***************************************************************************)
LEMMA LostInv ==
  ASSUME BuildInv, NEW p \in PodIds, PodLost(p)
  PROVE  BuildInv' /\ PodsGoOn
<1> USE DEF BuildInv
<1> DEFINE x == [pod[p] EXCEPT !.lost = TRUE]
<1>1. /\ pod[p].step # "none"
      /\ pod' = [pod EXCEPT ![p].lost = TRUE]
      /\ UNCHANGED <<clusterVars, edits, published, pushed, starter, finisher, faults>>
  BY Zenon DEF PodLost, Running
<1>2. pod[p] # NoPod /\ pod[p] \in Pods /\ pod \in [PodIds -> Pods \cup {NoPod}]
  BY Zenon, <1>1, Fields DEF TypeOK
<1>3. pod'[p] = x /\ \A q \in PodIds \ {p} : pod'[q] = pod[q]
  BY Zenon, <1>1, <1>2
<1>4. /\ x.step = pod[p].step /\ x.copy = pod[p].copy /\ x.name = pod[p].name
      /\ x.job = pod[p].job /\ x.done = pod[p].done /\ x.lost = TRUE /\ x \in Pods
  BY Zenon, <1>2 DEF Pods
<1>5. x # NoPod /\ pod' \in [PodIds -> Pods \cup {NoPod}]
  BY Zenon, <1>1, <1>2, <1>4 DEF NoPod
<1> HIDE DEF x
<1>6. TypeOK'
  BY Zenon, <1>1, <1>5 DEF TypeOK, ClusterTypeOK, clusterVars
<1>7. NamesInv'
  BY Zenon, <1>1 DEF NamesInv, Exists, Given, clusterVars
<1>8. PodInv'
  <2> SUFFICES ASSUME NEW q \in PodIds, pod'[q] # NoPod
               PROVE  PodOK(q)'
    BY Zenon DEF PodInv
  <2> QED
    BY <1>1, <1>2, <1>3, <1>4 DEF PodInv, PodOK, Given, clusterVars
<1>9. VersionInv'
  BY <1>1, <1>2, <1>3, <1>4 DEF VersionInv, clusterVars
<1>10. WritersInv'
  <2>1. ASSUME NEW q \in PodIds, NEW v, NEW steps \in {Started \cup Ended, Ended}, Wrote(q, v, steps)
        PROVE  Wrote(q, v, steps)'
    BY Zenon, <1>1, <1>3, <1>4, <1>5, <2>1 DEF Wrote
  <2> QED
    BY Zenon, <1>1, <2>1 DEF WritersInv, TypeOK
<1>11. StateInv'
  BY Zenon, <1>1 DEF StateInv, StateOK, Exists, clusterVars
<1>12. PairInv'
  BY Zenon, <1>2, <1>3, <1>4 DEF PairInv
<1>13. PodsGoOn
  BY Zenon, <1>1, <1>2, <1>3, <1>4, <1>5 DEF PodsGoOn, GoesOn
<1> QED
  BY Zenon, <1>6, <1>7, <1>8, <1>9, <1>10, <1>11, <1>12, <1>13

(***************************************************************************)
(* Steps outside the pods                                                  *)
(***************************************************************************)

(***************************************************************************)
(* Nothing happens to the pods.                                            *)
(***************************************************************************)
LEMMA QuietPods ==
  ASSUME UNCHANGED pod
  PROVE  PodsGoOn
  BY Zenon DEF PodsGoOn, GoesOn

(***************************************************************************)
(* The controller makes a Job; Kubernetes collects one.                    *)
(***************************************************************************)
LEMMA OwnerInv ==
  ASSUME BuildInv, NEW n \in Names, JobAppears(n) \/ CollectJob(n)
  PROVE  BuildInv'
<1> USE DEF BuildInv
<1>1. UNCHANGED <<cib, nameOf, clock, cibCache, jobVars>>
  BY Zenon DEF JobAppears, CollectJob
<1>2. owner \in [Kinds -> [Names -> Uids \cup {0}]] /\ "Job" \in Kinds
  BY Zenon DEF TypeOK, ClusterTypeOK, Kinds
<1>3. /\ owner' \in [Kinds -> [Names -> Uids \cup {0}]]
      /\ \A m \in Names : \/ owner'["Job"][m] \in {owner["Job"][m], 0}
                          \/ Exists(m) /\ owner'["Job"][m] = cib[m].uid
  <2>1. CASE JobAppears(n)
    <3>1. Exists(n) /\ owner' = [owner EXCEPT !["Job"][n] = cib[n].uid]
      BY Zenon, <2>1 DEF JobAppears
    <3>2. cib[n].uid \in Uids
      BY Zenon, <3>1, Fields DEF Cibs
    <3> QED
      BY Zenon, <1>2, <3>1, <3>2
  <2>2. CASE CollectJob(n)
    BY Zenon, <1>2, <2>2 DEF CollectJob, CollectOwned
  <2> QED
    BY Zenon, <2>1, <2>2
<1>4. TypeOK'
  BY Zenon, <1>1, <1>3 DEF TypeOK, ClusterTypeOK, jobVars
<1>5. NamesInv'
  BY Zenon, <1>1, <1>3 DEF NamesInv, Exists, Given
<1>6. PodInv' /\ VersionInv' /\ WritersInv' /\ StateInv' /\ PairInv'
  BY Zenon, <1>1
  DEF PodInv, PodOK, VersionInv, WritersInv, Wrote, StateInv, StateOK, PairInv, Exists, Given, jobVars
<1> QED
  BY Zenon, <1>4, <1>5, <1>6

(***************************************************************************)
(* A user edits a CIB or marks it as being deleted: it has a new version,  *)
(* of the same status.                                                     *)
(***************************************************************************)
LEMMA BumpInv ==
  ASSUME BuildInv, NEW n \in Names, Exists(n), NEW deleting \in BOOLEAN,
         cib' = [cib EXCEPT ![n].deleting = deleting, ![n].ver = @ + 1],
         edits' \in 0..MaxEdits,
         UNCHANGED <<nameOf, clock, cibCache, owner, pod, published, pushed, starter, finisher, faults>>
  PROVE  BuildInv'
<1> USE DEF BuildInv
<1> DEFINE c == [cib[n] EXCEPT !.deleting = deleting, !.ver = @ + 1]
<1>1. cib[n] \in Cibs /\ cib \in [Names -> Cibs \cup {NoCib}]
  BY Zenon, Fields DEF TypeOK, ClusterTypeOK
<1>2. cib'[n] = c /\ \A m \in Names \ {n} : cib'[m] = cib[m]
  BY Zenon, <1>1
<1>3. cib[n].ver \in Nat /\ cib[n].ver + 1 \in Nat
  BY <1>1 DEF Cibs
<1>4. c.uid = cib[n].uid /\ c.state = cib[n].state /\ c.ver = cib[n].ver + 1 /\ c \in Cibs
  BY Zenon, <1>1, <1>3 DEF Cibs
<1>5. c # NoCib /\ cib' \in [Names -> Cibs \cup {NoCib}]
  BY Zenon, <1>1, <1>4, NoUid
<1> HIDE DEF c
<1>6. TypeOK'
  BY Zenon, <1>5 DEF TypeOK, ClusterTypeOK
<1>7. \A m \in Names : cib'[m] # NoCib =>
        Exists(m) /\ cib'[m].uid = cib[m].uid /\ cib'[m].state = cib[m].state
  BY Zenon, <1>2, <1>4 DEF Exists
<1>11. NamesInv'
  BY Zenon, <1>7 DEF NamesInv, Exists, Given
<1>8. VersionInv'
  <2> SUFFICES ASSUME NEW p \in PodIds, pod[p] # NoPod, pod[p].copy # NoCib,
                      cib'[pod[p].name].uid = pod[p].copy.uid
               PROVE  /\ pod[p].copy.ver <= cib'[pod[p].name].ver
                      /\ (pod[p].step \in Started /\ pod[p].copy.ver = cib'[pod[p].name].ver) =>
                           starter[pod[p].copy.uid] = p
    BY Zenon DEF VersionInv
  <2>1. pod[p] \in Pods /\ pod[p].copy \in Cibs /\ pod[p].copy.ver \in Nat
    BY Zenon, Fields DEF Pods, Cibs
  <2>2. CASE pod[p].name = n
    <3>1. pod[p].copy.ver <= cib[n].ver
      BY <1>2, <1>4, <2>2 DEF VersionInv
    <3> QED
      BY <1>2, <1>3, <1>4, <2>1, <2>2, <3>1
  <2>3. CASE pod[p].name # n
    BY Zenon, <1>2, <2>1, <2>3 DEF VersionInv, Pods
  <2> QED
    BY Zenon, <2>2, <2>3
<1>9. StateInv'
  <2> SUFFICES ASSUME NEW m \in Names, Exists(m)'
               PROVE  StateOK(cib[m].state, cib[m].uid)'
    BY Zenon DEF StateInv
  <2>1. StateOK(cib[m].state, cib[m].uid)
    BY Zenon, <1>7 DEF StateInv, Exists
  <2> QED
    BY Zenon, <1>7, <2>1 DEF StateOK, Exists
<1>10. PodInv' /\ WritersInv' /\ PairInv'
  BY Zenon DEF PodInv, PodOK, WritersInv, Wrote, PairInv, Given
<1> QED
  BY Zenon, <1>6, <1>11, <1>8, <1>9, <1>10

(***************************************************************************)
(* A CIB goes.                                                             *)
(***************************************************************************)
LEMMA RemoveInv ==
  ASSUME BuildInv, NEW n \in Names, RemoveCib(n),
         UNCHANGED <<nameOf, clock, cibCache, owner, jobVars>>
  PROVE  BuildInv'
<1> USE DEF BuildInv
<1>1. cib \in [Names -> Cibs \cup {NoCib}]
  BY Zenon DEF TypeOK, ClusterTypeOK
<1>2. cib'[n] = NoCib /\ \A m \in Names \ {n} : cib'[m] = cib[m]
  BY Zenon, <1>1 DEF RemoveCib
<1>3. TypeOK'
  BY Zenon, <1>1 DEF TypeOK, ClusterTypeOK, RemoveCib, jobVars
<1>4. NamesInv'
  BY Zenon, <1>2 DEF NamesInv, Exists, Given
<1>5. VersionInv'
  <2> SUFFICES ASSUME NEW p \in PodIds, pod[p] # NoPod, pod[p].copy # NoCib,
                      cib'[pod[p].name].uid = pod[p].copy.uid
               PROVE  /\ cib'[pod[p].name] = cib[pod[p].name]
                      /\ cib[pod[p].name].uid = pod[p].copy.uid
    BY Zenon DEF VersionInv, jobVars
  <2>1. pod[p] \in Pods /\ pod[p].copy \in Cibs
    BY Zenon, Fields DEF Pods
  <2> QED
    BY Zenon, <1>2, <2>1, NoUid DEF Pods
<1>6. StateInv'
  BY Zenon, <1>2 DEF StateInv, StateOK, Exists, jobVars
<1>7. PodInv' /\ WritersInv' /\ PairInv'
  BY Zenon DEF PodInv, PodOK, WritersInv, Wrote, PairInv, Given, jobVars
<1> QED
  BY Zenon, <1>3, <1>4, <1>5, <1>6, <1>7

(***************************************************************************)
(* A CIB is created, with a uid that no pod knows.                         *)
(***************************************************************************)
LEMMA CreateInv ==
  ASSUME BuildInv, NEW n \in Names, CreateCib(n), UNCHANGED jobVars
  PROVE  BuildInv'
<1> USE DEF BuildInv
<1> DEFINE v == Len(nameOf) + 1
<1>1. ClusterTypeOK /\ ClusterTypeOK'
  BY Zenon, CreateType DEF TypeOK
<1>2. /\ v \notin DOMAIN nameOf /\ v \in DOMAIN nameOf' /\ nameOf'[v] = n
      /\ \A m, w : Given(m, w) => Given(m, w)'
  BY Zenon, <1>1, CreateGives
<1>3. /\ cib'[n].uid = v /\ cib'[n].state = ""
      /\ \A m \in Names \ {n} : cib'[m] = cib[m]
      /\ UNCHANGED <<cibCache, owner>>
  BY Zenon, <1>1 DEF CreateCib, ClusterTypeOK
<1>4. v \in Uids
  <2>1. Len(nameOf) \in Nat
    BY <1>1 DEF ClusterTypeOK
  <2>2. Len(nameOf) < MaxUid
    BY Zenon DEF CreateCib
  <2> QED
    BY <2>1, <2>2, MaxUidAssumption DEF Uids
<1> HIDE DEF v
<1>5. TypeOK'
  BY Zenon, <1>1 DEF TypeOK, jobVars
<1>6. NamesInv'
  <2>1. cib'[n].uid \in DOMAIN nameOf' /\ nameOf'[cib'[n].uid] = n
    BY Zenon, <1>2, <1>3
  <2>2. \A m \in Names \ {n} : Exists(m)' => Given(m, cib[m].uid)
    BY Zenon, <1>3 DEF NamesInv, Exists
  <2>3. ASSUME NEW m \in Names \ {n}, Exists(m)'
        PROVE  cib'[m].uid \in DOMAIN nameOf' /\ nameOf'[cib'[m].uid] = m
    <3>1. Given(m, cib[m].uid)
      BY Zenon, <2>2, <2>3
    <3>2. \A w : Given(m, w) => w \in DOMAIN nameOf' /\ nameOf'[w] = m
      BY Zenon, <1>2 DEF Given
    <3>3. cib'[m] = cib[m]
      BY Zenon, <1>3
    <3> QED
      BY Zenon, <3>1, <3>2, <3>3
  <2>4. \A m \in Names : owner["Job"][m] # 0 => Given(m, owner["Job"][m])'
    <3> SUFFICES ASSUME NEW m \in Names, owner["Job"][m] # 0
                 PROVE  Given(m, owner["Job"][m])'
      BY Zenon
    <3>1. Given(m, owner["Job"][m])
      BY Zenon DEF NamesInv
    <3> QED
      BY Zenon, <1>2, <1>3, <3>1 DEF Given
  <2> QED
    BY Zenon, <1>3, <2>1, <2>3, <2>4 DEF NamesInv, Exists, Given
<1>7. PodInv'
  BY <1>2 DEF PodInv, PodOK, Given, jobVars
<1>8. VersionInv'
  <2> SUFFICES ASSUME NEW p \in PodIds, pod[p] # NoPod, pod[p].copy # NoCib,
                      cib'[pod[p].name].uid = pod[p].copy.uid
               PROVE  cib'[pod[p].name] = cib[pod[p].name]
    BY Zenon DEF VersionInv, jobVars
  <2>1. pod[p] \in Pods /\ pod[p].copy.uid \in DOMAIN nameOf
    BY Zenon, Fields DEF PodInv, PodOK, Given
  <2> QED
    BY Zenon, <1>2, <1>3, <2>1 DEF Pods
<1>9. starter[v] = 0
  <2> SUFFICES ASSUME starter[v] # 0
               PROVE  FALSE
    BY Zenon
  <2>1. starter[v] \in PodIds /\ Wrote(starter[v], v, Started \cup Ended)
    BY Zenon, <1>4 DEF WritersInv, TypeOK
  <2> QED
    BY <1>2, <2>1 DEF Wrote, PodInv, PodOK, Given
<1>10. StateInv'
  <2> SUFFICES ASSUME NEW m \in Names, Exists(m)'
               PROVE  StateOK(cib[m].state, cib[m].uid)'
    BY Zenon DEF StateInv
  <2>1. CASE m = n
    BY Zenon, <1>3, <1>9, <2>1 DEF StateOK, Finished, jobVars
  <2>2. CASE m # n
    BY Zenon, <1>3, <2>2 DEF StateInv, StateOK, Exists, jobVars
  <2> QED
    BY Zenon, <2>1, <2>2
<1>11. WritersInv' /\ PairInv'
  BY Zenon DEF WritersInv, Wrote, PairInv, jobVars
<1> QED
  BY Zenon, <1>5, <1>6, <1>7, <1>8, <1>10, <1>11

(***************************************************************************)
(* Writing the status                                                      *)
(***************************************************************************)

(***************************************************************************)
(* What the three transitions write, and where they go on from there.      *)
(***************************************************************************)
LEMMA Transitions ==
  /\ DOMAIN Transition = {"building", "complete", "fail"}
  /\ Transition["building"] = "Building"
  /\ Transition["complete"] = "Completed"
  /\ Transition["fail"] = "Failed"
  /\ Telling["building"] = "tellBuilding"
  /\ Telling["complete"] = "tellComplete"
  /\ Telling["fail"] = "tellFail"
  BY Zenon DEF Transition, Telling

(***************************************************************************)
(* A uid belongs to one CIB.                                               *)
(***************************************************************************)
LEMMA OneCib ==
  ASSUME BuildInv, NEW m \in Names, NEW n \in Names, Exists(n), cib[m].uid = cib[n].uid
  PROVE  m = n
<1>1. Exists(m)
  BY Zenon, Fields, NoUid DEF BuildInv
<1> QED
  BY <1>1 DEF BuildInv, NamesInv, Given

(***************************************************************************)
(* What a write of the status does to the CIB: the one that the pod has a  *)
(* copy of, in the version that it has, and no other.                      *)
(***************************************************************************)
LEMMA Written ==
  ASSUME BuildInv, NEW p \in PodIds, pod[p].step \in DOMAIN Transition, StatusWritten(p)
  PROVE  /\ pod[p] \in Pods
         /\ pod[p] # NoPod
         /\ pod[p].step \in {"building", "complete", "fail"}
         /\ pod[p].copy \in Cibs
         /\ Exists(pod[p].name)
         /\ cib[pod[p].name].uid = pod[p].copy.uid
         /\ cib[pod[p].name].ver = pod[p].copy.ver
         /\ cib' \in [Names -> Cibs \cup {NoCib}]
         /\ cib'[pod[p].name] # NoCib
         /\ cib'[pod[p].name].uid = pod[p].copy.uid
         /\ cib'[pod[p].name].ver = pod[p].copy.ver + 1
         /\ cib'[pod[p].name].state = Transition[pod[p].step]
         /\ \A m \in Names \ {pod[p].name} :
              cib'[m] = cib[m] /\ cib[m].uid # pod[p].copy.uid
<1> DEFINE n == pod[p].name
           s == Transition[pod[p].step]
           c == [cib[n] EXCEPT !.state = s, !.ver = @ + 1]
<1>1. pod[p].step \in {"building", "complete", "fail"} /\ s \in BuildStates
  BY Zenon, Transitions DEF BuildStates
<1>2. pod[p] # NoPod /\ pod[p] \in Pods
  BY Zenon, <1>1, Fields DEF BuildInv
<1>3. pod[p].copy \in Cibs /\ n \in Names
  BY Zenon, <1>1, <1>2 DEF BuildInv, PodInv, PodOK, Started, Pods
<1>4. /\ Exists(n) /\ cib[n].uid = pod[p].copy.uid /\ cib[n].ver = pod[p].copy.ver
      /\ cib' = [cib EXCEPT ![n].state = s, ![n].ver = @ + 1]
  BY Zenon DEF StatusWritten, Current, WriteState
<1>5. cib[n] \in Cibs /\ cib \in [Names -> Cibs \cup {NoCib}]
  BY Zenon, <1>3, <1>4, Fields DEF BuildInv, TypeOK, ClusterTypeOK
<1>6. cib'[n] = c /\ \A m \in Names \ {n} : cib'[m] = cib[m]
  BY Zenon, <1>3, <1>4, <1>5
<1>7. cib[n].ver + 1 \in Nat
  BY <1>5 DEF Cibs
<1>8. c.uid = cib[n].uid /\ c.state = s /\ c.ver = cib[n].ver + 1 /\ c \in Cibs
  BY Zenon, <1>1, <1>5, <1>7 DEF Cibs
<1>9. c # NoCib /\ cib' \in [Names -> Cibs \cup {NoCib}]
  BY Zenon, <1>3, <1>4, <1>5, <1>8, NoUid
<1>10. \A m \in Names \ {n} : cib[m].uid # pod[p].copy.uid
  BY Zenon, <1>3, <1>4, OneCib
<1> HIDE DEF c
<1> QED
  BY Zenon, <1>1, <1>2, <1>3, <1>4, <1>6, <1>8, <1>9, <1>10

(***************************************************************************)
(* updateStatus: the write goes through, and the pod gets the answer or    *)
(* ends.                                                                   *)
(***************************************************************************)
LEMMA AnsweredPod ==
  ASSUME BuildInv, NEW p \in PodIds, pod[p].step \in DOMAIN Transition, StatusWritten(p),
         \/ pod' = [pod EXCEPT ![p] =
              [Answered(SetState(@, Transition[@.step])) EXCEPT !.step = Telling[pod[p].step]]]
         \/ Goto(p, "failed")
  PROVE  /\ \A q \in PodIds \ {p} : pod'[q] = pod[q]
         /\ pod'[p] # NoPod
         /\ pod'[p].name = pod[p].name
         /\ pod'[p].job = pod[p].job
         /\ pod'[p].done = pod[p].done
         /\ pod'[p].lost = pod[p].lost
         /\ pod'[p].copy # NoCib
         /\ pod'[p].copy.uid = pod[p].copy.uid
         /\ \/ /\ pod'[p].step = Telling[pod[p].step]
               /\ pod'[p].copy.ver = pod[p].copy.ver + 1
               /\ pod'[p].copy.state = Transition[pod[p].step]
            \/ pod'[p].step = "failed" /\ pod'[p].copy = pod[p].copy
         /\ pod' \in [PodIds -> Pods \cup {NoPod}]
<1>1. /\ pod[p] \in Pods /\ pod[p] # NoPod /\ pod[p].copy \in Cibs
      /\ pod[p].step \in {"building", "complete", "fail"}
  BY Zenon, Written
<1>2. pod \in [PodIds -> Pods \cup {NoPod}]
  BY Zenon DEF BuildInv, TypeOK
<1>3. CASE Goto(p, "failed")
  <2>1. "failed" \in PodSteps \ {"none"}
    BY Zenon DEF PodSteps, Exited
  <2> QED
    BY Zenon, <1>1, <1>3, <2>1, Moved, NoUid DEF BuildInv
<1>4. CASE pod' = [pod EXCEPT ![p] =
             [Answered(SetState(@, Transition[@.step])) EXCEPT !.step = Telling[pod[p].step]]]
  <2> DEFINE s == Transition[pod[p].step]
             x == SetState(pod[p], s)
             y == Answered(x)
             z == [y EXCEPT !.step = Telling[pod[p].step]]
  <2>1. s \in BuildStates /\ Telling[pod[p].step] \in PodSteps \ {"none"}
    BY Zenon, <1>1, Transitions DEF BuildStates, PodSteps
  <2>2. /\ x \in Pods /\ x.copy \in Cibs /\ x.copy.uid = pod[p].copy.uid
        /\ x.copy.ver = pod[p].copy.ver /\ x.copy.state = s /\ x.step = pod[p].step
        /\ x.name = pod[p].name /\ x.job = pod[p].job /\ x.done = pod[p].done
        /\ x.lost = pod[p].lost
    BY Zenon, <1>1, <2>1 DEF SetState, Pods, Cibs, BuildStates
  <2> HIDE DEF x
  <2>3. x.copy.ver + 1 \in Nat
    <3>1. x.copy.ver \in Nat
      BY Zenon, <2>2 DEF Cibs
    <3> QED
      BY <3>1
  <2>4. /\ y \in Pods /\ y.copy \in Cibs /\ y.copy.uid = x.copy.uid
        /\ y.copy.ver = x.copy.ver + 1 /\ y.copy.state = x.copy.state /\ y.step = x.step
        /\ y.name = x.name /\ y.job = x.job /\ y.done = x.done /\ y.lost = x.lost
    BY Zenon, <2>2, <2>3 DEF Answered, Pods, Cibs, BuildStates
  <2> HIDE DEF y
  <2>5. /\ z \in Pods /\ z.copy = y.copy /\ z.step = Telling[pod[p].step]
        /\ z.name = y.name /\ z.job = y.job /\ z.done = y.done /\ z.lost = y.lost
    BY Zenon, <2>1, <2>2, <2>4 DEF Pods
  <2>6. pod' = [pod EXCEPT ![p] = z]
    BY Zenon, <1>4 DEF x, y
  <2> HIDE DEF z
  <2>7. z # NoPod
    <3>1. NoPod.step = "none"
      BY Zenon DEF NoPod
    <3> QED
      BY Zenon, <2>1, <2>5, <3>1
  <2>8. pod'[p] = z /\ \A q \in PodIds \ {p} : pod'[q] = pod[q]
    BY Zenon, <1>2, <2>6
  <2>9. pod' \in [PodIds -> Pods \cup {NoPod}]
    BY Zenon, <1>2, <2>5, <2>6
  <2>10. z.copy # NoCib
    BY Zenon, <2>4, <2>5, NoUid
  <2> QED
    BY Zenon, <2>2, <2>4, <2>5, <2>7, <2>8, <2>9, <2>10
<1> QED
  BY Zenon, <1>3, <1>4

(***************************************************************************)
(* The last pod that wrote Building is remembered, and so is the last that *)
(* wrote an outcome, which is the same one: between the two writes nobody  *)
(* else has made a new version of the CIB.                                 *)
(***************************************************************************)
LEMMA Histories ==
  ASSUME BuildInv, NEW p \in PodIds, pod[p].step \in DOMAIN Transition, StatusWritten(p)
  PROVE  /\ starter' \in [Uids -> PodIds \cup {0}] /\ finisher' \in [Uids -> PodIds \cup {0}]
         /\ starter'[pod[p].copy.uid] = p
         /\ pod[p].step = "building" => UNCHANGED finisher
         /\ pod[p].step # "building" =>
              UNCHANGED starter /\ finisher'[pod[p].copy.uid] = p
         /\ \A v \in Uids \ {pod[p].copy.uid} :
              starter'[v] = starter[v] /\ finisher'[v] = finisher[v]
<1> DEFINE u == pod[p].copy.uid
<1>1. /\ pod[p].step \in {"building", "complete", "fail"} /\ pod[p] # NoPod
      /\ u \in Uids /\ pod[p].copy # NoCib
      /\ cib[pod[p].name].uid = u /\ cib[pod[p].name].ver = pod[p].copy.ver
  BY Zenon, Written, NoUid
<1>2. starter \in [Uids -> PodIds \cup {0}] /\ finisher \in [Uids -> PodIds \cup {0}]
  BY Zenon DEF BuildInv, TypeOK
<1>3. CASE pod[p].step = "building"
  <2>1. starter' = [starter EXCEPT ![u] = p] /\ UNCHANGED finisher
    BY Zenon, <1>3, Transitions DEF StatusWritten
  <2> QED
    BY Zenon, <1>1, <1>2, <1>3, <2>1
<1>4. CASE pod[p].step # "building"
  <2>1. finisher' = [finisher EXCEPT ![u] = p] /\ UNCHANGED starter
    BY Zenon, <1>1, <1>4, Transitions DEF StatusWritten
  <2>2. starter[u] = p
    BY Zenon, <1>1, <1>4 DEF BuildInv, VersionInv, Started
  <2> QED
    BY Zenon, <1>1, <1>2, <1>4, <2>1, <2>2
<1> QED
  BY Zenon, <1>3, <1>4

(***************************************************************************)
(* updateStatus keeps the invariant of the builds: when the write is       *)
(* accepted the state of the CIB moves as the Transition of the pod says   *)
(* and the pod becomes its starter or its finisher; when it is refused the *)
(* job fails.                                                              *)
(***************************************************************************)
LEMMA StatusInv ==
  ASSUME BuildInv, NEW p \in PodIds, pod[p].step \in DOMAIN Transition, StatusWritten(p),
         \/ pod' = [pod EXCEPT ![p] =
              [Answered(SetState(@, Transition[@.step])) EXCEPT !.step = Telling[pod[p].step]]]
         \/ Goto(p, "failed"),
         UNCHANGED <<nameOf, clock, cibCache, owner, edits, published, pushed, faults>>
  PROVE  BuildInv' /\ PodsGoOn
<1> DEFINE n == pod[p].name
           u == pod[p].copy.uid
<1>1. /\ pod[p] \in Pods /\ pod[p] # NoPod
      /\ pod[p].step \in {"building", "complete", "fail"}
      /\ pod[p].copy \in Cibs /\ Exists(n)
      /\ cib[n].uid = u /\ cib[n].ver = pod[p].copy.ver
      /\ cib' \in [Names -> Cibs \cup {NoCib}] /\ cib'[n] # NoCib
      /\ cib'[n].uid = u /\ cib'[n].ver = pod[p].copy.ver + 1
      /\ cib'[n].state = Transition[pod[p].step]
      /\ \A m \in Names \ {n} : cib'[m] = cib[m] /\ cib[m].uid # u
  BY Zenon, Written
<1>2. /\ \A q \in PodIds \ {p} : pod'[q] = pod[q]
      /\ pod'[p] # NoPod
      /\ pod'[p].name = pod[p].name
      /\ pod'[p].job = pod[p].job
      /\ pod'[p].done = pod[p].done
      /\ pod'[p].lost = pod[p].lost
      /\ pod'[p].copy # NoCib
      /\ pod'[p].copy.uid = pod[p].copy.uid
      /\ \/ /\ pod'[p].step = Telling[pod[p].step]
            /\ pod'[p].copy.ver = pod[p].copy.ver + 1
            /\ pod'[p].copy.state = Transition[pod[p].step]
         \/ pod'[p].step = "failed" /\ pod'[p].copy = pod[p].copy
      /\ pod' \in [PodIds -> Pods \cup {NoPod}]
  BY Zenon, AnsweredPod
<1>3. /\ starter' \in [Uids -> PodIds \cup {0}] /\ finisher' \in [Uids -> PodIds \cup {0}]
      /\ starter'[u] = p
      /\ pod[p].step = "building" => UNCHANGED finisher
      /\ pod[p].step # "building" => UNCHANGED starter /\ finisher'[u] = p
      /\ \A v \in Uids \ {u} : starter'[v] = starter[v] /\ finisher'[v] = finisher[v]
  BY Zenon, Histories
<1>4. u \in Uids /\ pod[p].copy # NoCib /\ pod[p].copy.ver \in Nat
  BY Zenon, <1>1, NoUid DEF Cibs
<1>5. n \in Names /\ p # 0
  BY <1>1 DEF Pods, PodIds
<1>6. PodInv /\ PodOK(p)
  BY Zenon, <1>1 DEF BuildInv, PodInv
<1> USE DEF BuildInv
<1>7. TypeOK'
  BY Zenon, <1>1, <1>2, <1>3 DEF TypeOK, ClusterTypeOK
<1>8. NamesInv'
  BY <1>1, <1>5 DEF NamesInv, Exists, Given
<1>9. PodInv'
  <2> SUFFICES ASSUME NEW q \in PodIds, pod'[q] # NoPod
               PROVE  PodOK(q)'
    BY Zenon DEF PodInv
  <2>1. CASE q = p
    <3>1. Given(pod[p].name, pod[p].job) /\ Given(pod[p].name, pod[p].copy.uid)
      BY Zenon, <1>4, <1>6 DEF PodOK
    <3>2. Given(pod[p].name, pod[p].job)' /\ Given(pod[p].name, pod[p].copy.uid)'
      BY Zenon, <1>1, <1>2, <3>1 DEF Given
    <3>3. /\ pod'[p].done <= pushed'[pod'[p].copy.uid]
          /\ pod[p].step = "complete" => pod'[p].done = Registries
      BY Zenon, <1>1, <1>2, <1>4, <1>6 DEF PodOK
    <3>4. CASE pod'[p].step = "failed"
      BY Zenon, <1>2, <2>1, <3>2, <3>3, <3>4 DEF PodOK, Started
    <3>5. CASE /\ pod'[p].step = Telling[pod[p].step]
               /\ pod'[p].copy.state = Transition[pod[p].step]
      <4>1. CASE pod[p].step = "building"
        BY Zenon, <1>2, <2>1, <3>2, <3>3, <3>5, <4>1, Transitions DEF PodOK, Started
      <4>2. CASE pod[p].step = "complete"
        BY Zenon, <1>2, <2>1, <3>2, <3>3, <3>5, <4>2, Transitions DEF PodOK, Started
      <4>3. CASE pod[p].step = "fail"
        BY Zenon, <1>2, <2>1, <3>2, <3>3, <3>5, <4>3, Transitions DEF PodOK, Started
      <4> QED
        BY Zenon, <1>1, <4>1, <4>2, <4>3
    <3> QED
      BY Zenon, <1>2, <3>4, <3>5
  <2>2. CASE q # p
    BY <1>2, <2>2 DEF PodInv, PodOK, Given
  <2> QED
    BY Zenon, <2>1, <2>2
<1>10. VersionInv'
  <2> SUFFICES ASSUME NEW q \in PodIds, pod'[q] # NoPod, pod'[q].copy # NoCib,
                      cib'[pod'[q].name].uid = pod'[q].copy.uid
               PROVE  /\ pod'[q].copy.ver <= cib'[pod'[q].name].ver
                      /\ (pod'[q].step \in Started /\ pod'[q].copy.ver = cib'[pod'[q].name].ver) =>
                           starter'[pod'[q].copy.uid] = q
    BY Zenon DEF VersionInv
  <2>1. CASE q = p
    <3>1. pod'[p].copy.ver <= cib'[n].ver
      BY <1>1, <1>2, <1>4
    <3> QED
      BY Zenon, <1>2, <1>3, <2>1, <3>1
  <2>2. CASE q # p
    <3>1. /\ pod'[q] = pod[q] /\ pod[q] \in Pods /\ pod[q].copy \in Cibs
          /\ pod[q].name \in Names /\ pod[q].copy.ver \in Nat /\ pod[q].copy.uid \in Uids
      BY <1>2, <2>2, Fields DEF Pods, Cibs
    <3>2. CASE pod[q].name = n
      <4>1. pod[q].copy.ver <= pod[p].copy.ver
        BY <1>1, <3>1, <3>2 DEF VersionInv
      <4> QED
        BY <1>1, <1>4, <3>1, <3>2, <4>1
    <3>3. CASE pod[q].name # n
      BY <1>1, <1>3, <3>1, <3>3 DEF VersionInv
    <3> QED
      BY Zenon, <3>2, <3>3
  <2> QED
    BY Zenon, <2>1, <2>2
<1>11. WritersInv'
  <2>1. ASSUME NEW q \in PodIds, pod[q] # NoPod, pod[q].copy # NoCib
        PROVE  /\ pod'[q] # NoPod /\ pod'[q].copy # NoCib /\ pod'[q].copy.uid = pod[q].copy.uid
               /\ pod[q].step \in Ended => pod'[q].step \in Ended
               /\ pod[q].step \in Started \cup Ended => pod'[q].step \in Started \cup Ended
    BY <1>1, <1>2, <2>1, Transitions DEF Started, Ended, Exited
  <2>2. pod'[p].step \in Started \cup Ended
    BY <1>1, <1>2, Transitions DEF Started, Ended, Exited
  <2>3. pod[p].step # "building" => pod'[p].step \in Ended
    BY <1>1, <1>2, Transitions DEF Ended, Exited
  <2>4. ASSUME NEW v, v = u
        PROVE  /\ Wrote(p, v, Started \cup Ended)'
               /\ pod[p].step # "building" => Wrote(p, v, Ended)'
    BY Zenon, <1>2, <2>2, <2>3, <2>4 DEF Wrote
  <2>5. ASSUME NEW v \in Uids
        PROVE  /\ starter'[v] # 0 => Wrote(starter[v], v, Started \cup Ended)'
               /\ finisher'[v] # 0 => Wrote(finisher[v], v, Ended)'
    <3>1. /\ starter[v] # 0 => starter[v] \in PodIds /\ Wrote(starter[v], v, Started \cup Ended)
          /\ finisher[v] # 0 => finisher[v] \in PodIds /\ Wrote(finisher[v], v, Ended)
      BY Zenon DEF WritersInv, TypeOK
    <3>2. ASSUME NEW q \in PodIds, NEW steps, Wrote(q, v, steps)
          PROVE  /\ pod'[q] # NoPod /\ pod'[q].copy # NoCib /\ pod'[q].copy.uid = v
                 /\ steps = Ended => pod'[q].step \in Ended
                 /\ steps = Started \cup Ended => pod'[q].step \in Started \cup Ended
      BY Zenon, <2>1, <3>2 DEF Wrote
    <3>3. starter[v] # 0 =>
            /\ pod'[starter[v]] # NoPod /\ pod'[starter[v]].copy # NoCib
            /\ pod'[starter[v]].copy.uid = v /\ pod'[starter[v]].step \in Started \cup Ended
      BY Zenon, <3>1, <3>2
    <3>4. finisher[v] # 0 =>
            /\ pod'[finisher[v]] # NoPod /\ pod'[finisher[v]].copy # NoCib
            /\ pod'[finisher[v]].copy.uid = v /\ pod'[finisher[v]].step \in Ended
      BY Zenon, <3>1, <3>2
    <3>5. CASE v # u
      <4>1. starter'[v] = starter[v] /\ finisher'[v] = finisher[v]
        BY Zenon, <1>3, <3>5
      <4> QED
        BY Zenon, <3>3, <3>4, <4>1 DEF Wrote
    <3>6. CASE v = u /\ pod[p].step = "building"
      <4>1. starter'[v] = p /\ finisher'[v] = finisher[v]
        BY Zenon, <1>3, <3>6
      <4>2. Wrote(p, v, Started \cup Ended)'
        BY Zenon, <2>4, <3>6
      <4> QED
        BY Zenon, <3>4, <4>1, <4>2 DEF Wrote
    <3>7. CASE v = u /\ pod[p].step # "building"
      <4>1. starter'[v] = p /\ finisher'[v] = p
        BY Zenon, <1>3, <3>7
      <4>2. Wrote(p, v, Started \cup Ended)' /\ Wrote(p, v, Ended)'
        BY Zenon, <2>4, <3>7
      <4> QED
        BY Zenon, <4>1, <4>2 DEF Wrote
    <3> QED
      BY Zenon, <3>5, <3>6, <3>7
  <2> QED
    BY Zenon, <2>5 DEF WritersInv
<1>12. StateInv'
  <2> SUFFICES ASSUME NEW m \in Names, Exists(m)'
               PROVE  StateOK(cib[m].state, cib[m].uid)'
    BY Zenon DEF StateInv
  <2>1. CASE m = n
    <3>1. pod[p].step = "complete" => pushed[u] = Registries
      BY <1>1, <1>4, <1>6, BuildJobAssumption DEF PodOK, TypeOK
    <3>2. cib'[m].uid = u /\ starter'[u] = p /\ p # 0 /\ cib'[m].state = Transition[pod[p].step]
      BY Zenon, <1>1, <1>3, <1>5, <2>1
    <3>3. CASE pod[p].step = "building"
      BY Zenon, <3>2, <3>3, Transitions DEF StateOK, Finished
    <3>4. CASE pod[p].step = "complete"
      BY Zenon, <1>3, <3>1, <3>2, <3>4, Transitions DEF StateOK, Finished
    <3>5. CASE pod[p].step = "fail"
      BY Zenon, <1>3, <3>2, <3>5, Transitions DEF StateOK, Finished
    <3> QED
      BY Zenon, <1>1, <3>3, <3>4, <3>5
  <2>2. CASE m # n
    <3>1. cib'[m] = cib[m] /\ Exists(m) /\ cib[m].uid \in Uids \ {u}
      BY Zenon, <1>1, <2>2, Fields, NoUid DEF Exists
    <3>2. starter'[cib[m].uid] = starter[cib[m].uid] /\ finisher'[cib[m].uid] = finisher[cib[m].uid]
      BY Zenon, <1>3, <3>1
    <3>3. StateOK(cib[m].state, cib[m].uid)
      BY Zenon, <3>1 DEF StateInv
    <3> QED
      BY Zenon, <1>1, <3>1, <3>2, <3>3 DEF StateOK
  <2> QED
    BY Zenon, <2>1, <2>2
<1>13. PairInv'
  BY <1>1, <1>2 DEF PairInv
<1>14. PodsGoOn
  BY Zenon, <1>1, <1>2 DEF PodsGoOn, GoesOn, Exited
<1> QED
  BY Zenon, <1>7, <1>8, <1>9, <1>10, <1>11, <1>12, <1>13, <1>14

(***************************************************************************)
(* The steps of the specification, by what they change                     *)
(***************************************************************************)
SamePlace == UNCHANGED <<clusterVars, edits, pushed, starter, finisher, faults>>

\* A process moves on; if that is the end of a build, its message is out,
\* provided that the broker does not fail.
MoveStep(p) ==
  \E s \in PodSteps \ {"none"} :
    /\ Goto(p, s)
    /\ MovesOn(pod[p].step, s)
    /\ SamePlace
    /\ \/ published' = published /\ (s = "succeeded" => ~Reliable)
       \/ Publish(p) /\ HasBroker

GetStep(p) ==
  /\ pod[p].step = "get"
  /\ Exists(pod[p].name)
  /\ pod' = [pod EXCEPT ![p].step = "building", ![p].copy = cib[pod[p].name]]
  /\ SamePlace
  /\ UNCHANGED published

StatusStep(p) ==
  /\ pod[p].step \in DOMAIN Transition
  /\ StatusWritten(p)
  /\ \/ pod' = [pod EXCEPT ![p] =
          [Answered(SetState(@, Transition[@.step])) EXCEPT !.step = Telling[pod[p].step]]]
     \/ Goto(p, "failed")
  /\ UNCHANGED <<nameOf, clock, cibCache, owner, edits, published, pushed, faults>>

BumpStep(n) ==
  /\ Exists(n)
  /\ \E deleting \in BOOLEAN :
       cib' = [cib EXCEPT ![n].deleting = deleting, ![n].ver = @ + 1]
  /\ edits' \in 0..MaxEdits
  /\ UNCHANGED <<nameOf, clock, cibCache, owner, pod, published, pushed, starter, finisher, faults>>

RemoveStep(n) == RemoveCib(n) /\ UNCHANGED <<nameOf, clock, cibCache, owner, jobVars>>

CreateStep(n) == CreateCib(n) /\ UNCHANGED jobVars

PodStep(p) ==
  \/ MoveStep(p)
  \/ GetStep(p)
  \/ PushImage(p)
  \/ StatusStep(p)
  \/ PodLost(p)
  \/ \E n \in Names : StartPod(n, p)

CibStep(n) ==
  \/ JobAppears(n) \/ CollectJob(n)
  \/ BumpStep(n)
  \/ RemoveStep(n)
  \/ CreateStep(n)

(***************************************************************************)
(* Where a process goes after a message.                                   *)
(***************************************************************************)
LEMMA AfterMessages ==
  /\ DOMAIN AfterTelling = {"tellBuilding", "tellComplete", "tellFail"}
  /\ AfterTelling["tellBuilding"] = "options"
  /\ AfterTelling["tellComplete"] = "succeeded"
  /\ AfterTelling["tellFail"] = "failed"
  BY Zenon DEF AfterTelling

(***************************************************************************)
(* Every step of a process, and every end of one, is one of these.         *)
(***************************************************************************)
LEMMA ProcessSteps ==
  ASSUME TypeOK, NEW p \in PodIds, RunJob(p) \/ Terminated(p) \/ Crashes(p)
  PROVE  MoveStep(p) \/ GetStep(p) \/ PushImage(p) \/ StatusStep(p)
<1> USE DEF SamePlace
<1>1. ASSUME NEW s \in {"get", "options", "push", "fail", "failed", "terminated"},
             Goto(p, s), MovesOn(pod[p].step, s), SamePlace, UNCHANGED published
      PROVE  MoveStep(p)
  BY Zenon, <1>1 DEF MoveStep, PodSteps, Exited
<1>2. CASE New(p)
  BY Zenon, <1>1, <1>2 DEF New, MovesOn, Exited
<1>3. CASE Get(p)
  BY Zenon, <1>1, <1>3 DEF Get, GetStep, MovesOn, Exited
<1>4. CASE UpdateStatus(p) \/ UpdateStatusUnanswered(p)
  BY Zenon, <1>4 DEF UpdateStatus, UpdateStatusUnanswered, StatusStep
<1>5. CASE UpdateStatusFails(p)
  BY Zenon, <1>1, <1>5, Transitions DEF UpdateStatusFails, MovesOn, Exited
<1>6. CASE Publish(p)
  <2> DEFINE s == AfterTelling[pod[p].step]
  <2>1. Goto(p, s) /\ SamePlace /\ pod[p].step \in DOMAIN AfterTelling
        /\ (~HasBroker => published' = published)
    BY Zenon, <1>6 DEF Publish
  <2>2. s \in PodSteps \ {"none"} /\ MovesOn(pod[p].step, s)
    BY Zenon, <2>1, AfterMessages DEF PodSteps, MovesOn, Started, Exited
  <2> HIDE DEF s
  <2> QED
    BY Zenon, <1>6, <2>1, <2>2, BuildJobAssumption DEF MoveStep, Reliable
<1>7. CASE PublishLost(p)
  <2> DEFINE s == AfterTelling[pod[p].step]
  <2>1. /\ Goto(p, s) /\ SamePlace /\ pod[p].step \in DOMAIN AfterTelling
        /\ published' = published /\ ~Reliable
    BY Zenon, <1>7 DEF PublishLost, Reliable
  <2>2. s \in PodSteps \ {"none"} /\ MovesOn(pod[p].step, s)
    BY Zenon, <2>1, AfterMessages DEF PodSteps, MovesOn, Started, Exited
  <2> HIDE DEF s
  <2> QED
    BY Zenon, <2>1, <2>2 DEF MoveStep
<1>8. CASE PublishFails(p)
  BY Zenon, <1>1, <1>8, AfterMessages DEF PublishFails, MovesOn, Exited
<1>9. CASE GenerateOptions(p)
  BY Zenon, <1>1, <1>9 DEF GenerateOptions, MovesOn, Started
<1>10. CASE BuildFails(p)
  BY Zenon, <1>1, <1>10 DEF BuildFails, MovesOn, Started
<1>11. CASE Terminated(p) \/ Crashes(p)
  BY Zenon, <1>1, <1>11 DEF Terminated, Crashes, Running, MovesOn
<1> QED
  BY Zenon, <1>2, <1>3, <1>4, <1>5, <1>6, <1>7, <1>8, <1>9, <1>10, <1>11 DEF RunJob

(***************************************************************************)
(* And every step of Next.                                                 *)
(***************************************************************************)
LEMMA Steps ==
  ASSUME BuildInv, [Next]_vars
  PROVE  \/ \E p \in PodIds : PodStep(p)
         \/ \E n \in Names : CibStep(n)
         \/ UNCHANGED vars
<1>1. ASSUME NEW n \in Names, UserEdits(n)
      PROVE  BumpStep(n)
  <2>1. cib[n] \in Cibs /\ cib \in [Names -> Cibs \cup {NoCib}]
    BY Zenon, <1>1, Fields DEF UserEdits, BuildInv, TypeOK, ClusterTypeOK
  <2>2. cib' = [cib EXCEPT ![n].deleting = cib[n].deleting, ![n].ver = @ + 1]
    BY Zenon, <1>1, <2>1 DEF UserEdits, Cibs
  <2>3. cib[n].deleting \in BOOLEAN
    BY Zenon, <2>1 DEF Cibs
  <2>4. edits' \in 0..MaxEdits
    BY <1>1, BuildJobAssumption DEF UserEdits, BuildInv, TypeOK
  <2> QED
    BY Zenon, <1>1, <2>2, <2>3, <2>4 DEF UserEdits, BumpStep
<1>2. ASSUME NEW n \in Names, ClusterStep(n)
      PROVE  CibStep(n)
  <2>1. CASE CreateCib(n)
    BY Zenon, <1>2, <2>1 DEF ClusterStep, CibStep, CreateStep
  <2>2. CASE UserDeletes(n) \/ FinalizeCib(n)
    BY Zenon, <1>2, <2>2 DEF ClusterStep, CibStep, RemoveStep, UserDeletes, FinalizeCib
  <2>3. CASE UserDeletesForeground(n)
    <3>1. edits' \in 0..MaxEdits
      BY Zenon, <1>2 DEF ClusterStep, jobVars, BuildInv, TypeOK
    <3> QED
      BY Zenon, <1>2, <2>3, <3>1
      DEF ClusterStep, CibStep, BumpStep, UserDeletesForeground, ForegroundDelete, jobVars
  <2> QED
    BY Zenon, <1>2, <2>1, <2>2, <2>3 DEF ClusterStep
<1>3. ASSUME NEW p \in PodIds, RunJob(p) \/ Terminated(p) \/ Crashes(p)
      PROVE  PodStep(p)
  BY Zenon, <1>3, ProcessSteps DEF BuildInv, PodStep
<1> QED
  BY Zenon, <1>1, <1>2, <1>3 DEF Next, PodStep, CibStep

(***************************************************************************)
(* In the beginning there are no CIBs, no pods and no messages.            *)
(***************************************************************************)
LEMMA InitInv == Init => IInv
<1> SUFFICES ASSUME Init
             PROVE  IInv
  BY Zenon
<1> USE DEF Init, JobInit, ClusterInit
<1>1. TypeOK
  BY ClusterInitType, BuildJobAssumption DEF TypeOK
<1>2. NamesInv /\ PodInv /\ VersionInv /\ WritersInv /\ StateInv /\ PairInv
  BY Zenon DEF NamesInv, PodInv, VersionInv, WritersInv, StateInv, PairInv, Exists, Kinds
<1>3. published = <<>> /\ DOMAIN published = {}
  OBVIOUS
<1>4. NewsInv
  BY Zenon, <1>3
  DEF NewsInv, MessageInv, ReportInv, TellInv, DoneInv, OutcomeMessagesAreTrue, OutcomeMessageIsLast
<1> QED
  BY Zenon, <1>1, <1>2, <1>4 DEF IInv, BuildInv

(***************************************************************************)
(* What is known of the CIBs and of the pods survives every step.          *)
(***************************************************************************)
LEMMA BuildStep ==
  ASSUME BuildInv, [Next]_vars
  PROVE  BuildInv' /\ PodsGoOn
<1>1. ASSUME NEW p \in PodIds, MoveStep(p)
      PROVE  BuildInv' /\ PodsGoOn
  <2>1. PICK s \in PodSteps \ {"none"} :
          /\ Goto(p, s) /\ MovesOn(pod[p].step, s) /\ SamePlace
          /\ published' = published \/ Publish(p)
    BY Zenon, <1>1 DEF MoveStep
  <2>2. published \in Seq(Messages)
    BY Zenon DEF BuildInv, TypeOK
  <2>3. published' \in Seq(Messages)
    <3>1. CASE published' = published
      BY Zenon, <2>2, <3>1
    <3>2. CASE Publish(p)
      <4>1. pod[p].step \in {"tellBuilding", "tellComplete", "tellFail"}
        BY Zenon, <3>2, AfterMessages DEF Publish
      <4>2. pod[p] \in Pods /\ pod[p].copy \in Cibs
        BY Zenon, <4>1, Fields DEF BuildInv, PodInv, PodOK, Pods, Started
      <4>3. StatusUpdate(p) \in Messages
        BY Zenon, <4>2 DEF StatusUpdate, Messages, Pods, Cibs
      <4>4. \A m \in Messages : Append(published, m) \in Seq(Messages)
        BY <2>2
      <4> QED
        BY Zenon, <2>2, <3>2, <4>3, <4>4 DEF Publish
    <3> QED
      BY Zenon, <2>1, <3>1, <3>2
  <2> QED
    BY Zenon, <2>1, <2>3, MoveInv DEF SamePlace
<1>2. ASSUME NEW p \in PodIds, PodStep(p)
      PROVE  BuildInv' /\ PodsGoOn
  BY Zenon, <1>1, <1>2, GetInv, PushInv, StatusInv, LostInv, StartInv
  DEF PodStep, GetStep, StatusStep, SamePlace
<1>3. ASSUME NEW n \in Names, CibStep(n)
      PROVE  BuildInv' /\ PodsGoOn
  <2>1. UNCHANGED pod
    BY Zenon, <1>3 DEF CibStep, JobAppears, CollectJob, BumpStep, RemoveStep, CreateStep, jobVars
  <2> QED
    BY Zenon, <1>3, <2>1, QuietPods, OwnerInv, BumpInv, RemoveInv, CreateInv
    DEF CibStep, BumpStep, RemoveStep, CreateStep
<1>4. CASE UNCHANGED vars
  <2> USE <1>4 DEF vars, clusterVars, jobVars, BuildInv
  <2>1. TypeOK'
    BY Zenon DEF TypeOK, ClusterTypeOK
  <2>2. NamesInv' /\ StateInv'
    BY Zenon DEF NamesInv, StateInv, StateOK, Exists, Given
  <2>3. PodInv' /\ VersionInv' /\ PairInv'
    BY Zenon DEF PodInv, PodOK, VersionInv, PairInv, Given
  <2>4. WritersInv'
    BY Zenon DEF WritersInv, Wrote
  <2> QED
    BY Zenon, <2>1, <2>2, <2>3, <2>4, QuietPods
<1> QED
  BY Zenon, <1>2, <1>3, <1>4, Steps

(***************************************************************************)
(* What the status says of a CIB changes when the CIB goes, when a new one *)
(* is created, and when a process that has a copy of it writes it.         *)
(***************************************************************************)
LEMMA StatusChanges ==
  ASSUME BuildInv, [Next]_vars, NEW n \in Names
  PROVE  \/ cib'[n].uid = cib[n].uid /\ cib'[n].state = cib[n].state
         \/ cib'[n].uid = 0
         \/ cib'[n].uid \notin DOMAIN nameOf
         \/ \E p \in PodIds :
              /\ StatusStep(p)
              /\ pod[p] # NoPod /\ pod[p].copy # NoCib
              /\ pod[p].step \in {"building", "complete", "fail"}
              /\ pod[p].copy.uid = cib'[n].uid
<1>1. ASSUME NEW p \in PodIds, PodStep(p), ~StatusStep(p)
      PROVE  UNCHANGED cib
  BY Zenon, <1>1 DEF PodStep, MoveStep, GetStep, SamePlace, PushImage, PodLost, StartPod, clusterVars
<1>2. ASSUME NEW p \in PodIds, StatusStep(p)
      PROVE  \/ cib'[n] = cib[n]
             \/ /\ StatusStep(p)
                /\ pod[p] # NoPod /\ pod[p].copy # NoCib
                /\ pod[p].step \in {"building", "complete", "fail"}
                /\ pod[p].copy.uid = cib'[n].uid
  BY Zenon, <1>2, Written, NoUid DEF StatusStep
<1>3. ASSUME NEW m \in Names, CibStep(m)
      PROVE  \/ cib'[n].uid = cib[n].uid /\ cib'[n].state = cib[n].state
             \/ cib'[n].uid = 0
             \/ cib'[n].uid \notin DOMAIN nameOf
  <2>1. cib \in [Names -> Cibs \cup {NoCib}] /\ ClusterTypeOK
    BY Zenon DEF BuildInv, TypeOK, ClusterTypeOK
  <2>2. CASE JobAppears(m) \/ CollectJob(m)
    BY Zenon, <2>2 DEF JobAppears, CollectJob
  <2>3. CASE BumpStep(m)
    <3>1. cib[m] \in Cibs
      BY Zenon, <2>3, Fields DEF BumpStep, BuildInv
    <3> QED
      BY <2>1, <2>3, <3>1 DEF BumpStep, Cibs
  <2>4. CASE RemoveStep(m)
    BY Zenon, <2>1, <2>4, NoUid DEF RemoveStep, RemoveCib
  <2>5. CASE CreateStep(m)
    <3>1. Len(nameOf) + 1 \notin DOMAIN nameOf
      BY Zenon, <2>1, <2>5, CreateGives DEF CreateStep
    <3>2. cib'[m].uid = Len(nameOf) + 1 /\ (n # m => cib'[n] = cib[n])
      BY Zenon, <2>1, <2>5 DEF CreateStep, CreateCib
    <3> QED
      BY Zenon, <3>1, <3>2
  <2> QED
    BY Zenon, <1>3, <2>2, <2>3, <2>4, <2>5 DEF CibStep
<1>4. CASE UNCHANGED vars
  BY Zenon, <1>4 DEF vars, clusterVars
<1> QED
  BY Zenon, <1>1, <1>2, <1>3, <1>4, Steps

(***************************************************************************)
(* Messages                                                                *)
(***************************************************************************)

(***************************************************************************)
(* A step of a pod leaves the others alone; where it brings the pod.       *)
(***************************************************************************)
LEMMA PodChanges ==
  ASSUME BuildInv, NEW p \in PodIds, PodStep(p)
  PROVE  /\ \A q \in PodIds \ {p} : pod'[q] = pod[q]
         /\ \/ StatusStep(p) /\ pod'[p].step # "succeeded"
            \/ /\ MoveStep(p) /\ MovesOn(pod[p].step, pod'[p].step)
               /\ pod[p] # NoPod /\ pod'[p].copy = pod[p].copy
            \/ UNCHANGED published /\ pod'[p].step \in {"new", "building", "push", "complete"}
            \/ /\ UNCHANGED published
               /\ pod[p] # NoPod /\ pod'[p].step = pod[p].step /\ pod'[p].copy = pod[p].copy
<1>1. pod \in [PodIds -> Pods \cup {NoPod}]
  BY Zenon DEF BuildInv, TypeOK
<1>2. CASE MoveStep(p)
  <2>1. PICK s \in PodSteps \ {"none"} : Goto(p, s) /\ MovesOn(pod[p].step, s)
    BY Zenon, <1>2 DEF MoveStep
  <2>2. pod[p] # NoPod
    BY <2>1 DEF MovesOn, Started, NoPod
  <2> QED
    BY Zenon, <1>2, <2>1, <2>2, Moved DEF BuildInv
<1>3. CASE GetStep(p)
  <2>1. pod[p] \in Pods
    BY Zenon, <1>3, Fields DEF GetStep, BuildInv
  <2> QED
    BY Zenon, <1>1, <1>3, <2>1 DEF GetStep, Pods
<1>4. CASE PushImage(p)
  <2>1. pod[p] \in Pods
    BY Zenon, <1>4, Fields DEF PushImage, BuildInv
  <2> QED
    BY Zenon, <1>1, <1>4, <2>1 DEF PushImage, Pods
<1>5. CASE StatusStep(p)
  BY <1>5, AnsweredPod, Transitions DEF StatusStep
<1>6. CASE PodLost(p)
  <2>1. pod[p] \in Pods /\ pod[p] # NoPod
    BY Zenon, <1>6, Fields DEF PodLost, Running, BuildInv
  <2> QED
    BY Zenon, <1>1, <1>6, <2>1 DEF PodLost, Pods
<1>7. CASE \E n \in Names : StartPod(n, p)
  <2>1. PICK n \in Names : StartPod(n, p)
    BY Zenon, <1>7
  <2>2. pod' = [pod EXCEPT ![p] = NewPod(n)] /\ UNCHANGED published
    BY Zenon, <2>1 DEF StartPod
  <2>3. NewPod(n).step = "new"
    BY Zenon DEF NewPod
  <2> QED
    BY Zenon, <1>1, <2>2, <2>3
<1> QED
  BY Zenon, <1>2, <1>3, <1>4, <1>5, <1>6, <1>7 DEF PodStep

(***************************************************************************)
(* A step that is not of a pod leaves the pods and the messages alone.     *)
(***************************************************************************)
LEMMA NoPodChanges ==
  ASSUME BuildInv, [Next]_vars, \A p \in PodIds : ~PodStep(p)
  PROVE  UNCHANGED <<published, pod>>
<1>1. ASSUME NEW n \in Names, CibStep(n)
      PROVE  UNCHANGED <<published, pod>>
  BY Zenon, <1>1 DEF CibStep, JobAppears, CollectJob, BumpStep, RemoveStep, CreateStep, jobVars
<1> QED
  BY Zenon, <1>1, Steps DEF vars, jobVars

(***************************************************************************)
(* A message is published by a step of its pod.  Otherwise no process ends *)
(* with success, if there is a broker that does not fail.                  *)
(***************************************************************************)
LEMMA MessageSteps ==
  ASSUME BuildInv, [Next]_vars
  PROVE  \/ \E p \in PodIds : Publish(p) /\ HasBroker
         \/ /\ UNCHANGED published
            /\ \A q \in PodIds :
                 (pod'[q] # NoPod /\ pod'[q].step = "succeeded" /\ Reliable) =>
                   pod[q] # NoPod /\ pod[q].step = "succeeded"
<1>1. ASSUME NEW p \in PodIds, PodStep(p), ~(Publish(p) /\ HasBroker)
      PROVE  /\ UNCHANGED published
             /\ (pod'[p].step = "succeeded" /\ Reliable) =>
                   pod[p] # NoPod /\ pod[p].step = "succeeded"
  <2>1. CASE MoveStep(p)
    <3>1. PICK s \in PodSteps \ {"none"} :
            /\ Goto(p, s) /\ MovesOn(pod[p].step, s)
            /\ published' = published /\ (s = "succeeded" => ~Reliable)
      BY Zenon, <1>1, <2>1 DEF MoveStep
    <3>2. pod[p] # NoPod
      BY <3>1 DEF MovesOn, Started, NoPod
    <3> QED
      BY Zenon, <3>1, <3>2, Moved DEF BuildInv
  <2>2. CASE ~MoveStep(p)
    BY Zenon, <1>1, <2>2, PodChanges DEF StatusStep
  <2> QED
    BY Zenon, <2>1, <2>2
<1>2. CASE \E p \in PodIds : PodStep(p)
  BY Zenon, <1>1, <1>2, PodChanges
<1>3. CASE \A p \in PodIds : ~PodStep(p)
  BY Zenon, <1>3, NoPodChanges
<1> QED
  BY Zenon, <1>2, <1>3

(***************************************************************************)
(* A pod is about to tell an outcome once it has written it.               *)
(***************************************************************************)
LEMMA TellSteps ==
  ASSUME BuildInv, [Next]_vars, NEW q \in PodIds, pod'[q] # NoPod,
         pod'[q].step \in {"tellComplete", "tellFail"}
  PROVE  \/ pod[q] # NoPod /\ pod'[q].step = pod[q].step /\ pod'[q].copy = pod[q].copy
         \/ StatusStep(q)
<1>1. CASE PodStep(q)
  BY Zenon, <1>1, PodChanges DEF MovesOn
<1>2. CASE \E p \in PodIds \ {q} : PodStep(p)
  BY Zenon, <1>2, PodChanges
<1>3. CASE \A p \in PodIds : ~PodStep(p)
  BY Zenon, <1>3, NoPodChanges
<1> QED
  BY Zenon, <1>1, <1>2, <1>3

(***************************************************************************)
(* A pod has completed its build once it has written so.                   *)
(***************************************************************************)
LEMMA DoneSteps ==
  ASSUME BuildInv, [Next]_vars, NEW q \in PodIds, pod'[q] # NoPod,
         pod'[q].step \in {"tellComplete", "succeeded"}
  PROVE  \/ /\ pod[q] # NoPod /\ pod'[q].copy = pod[q].copy
            /\ pod[q].step \in {"tellComplete", "succeeded"}
         \/ StatusStep(q)
<1>1. CASE PodStep(q)
  BY Zenon, <1>1, PodChanges DEF MovesOn
<1>2. CASE \E p \in PodIds \ {q} : PodStep(p)
  BY Zenon, <1>2, PodChanges
<1>3. CASE \A p \in PodIds : ~PodStep(p)
  BY Zenon, <1>3, NoPodChanges
<1> QED
  BY Zenon, <1>1, <1>2, <1>3

(***************************************************************************)
(* Who wrote Building last changes when a pod writes the status.           *)
(***************************************************************************)
LEMMA SameStarter ==
  ASSUME BuildInv, [Next]_vars, NEW u \in Uids,
         \A p \in PodIds : StatusStep(p) => pod[p].copy.uid # u
  PROVE  starter'[u] = starter[u]
<1>1. ASSUME NEW p \in PodIds, PodStep(p)
      PROVE  starter'[u] = starter[u]
  <2>1. CASE StatusStep(p)
    BY Zenon, <2>1, Histories DEF StatusStep
  <2>2. CASE ~StatusStep(p)
    BY Zenon, <1>1, <2>2 DEF PodStep, MoveStep, GetStep, SamePlace, PushImage, PodLost, StartPod
  <2> QED
    BY Zenon, <2>1, <2>2
<1>2. ASSUME NEW n \in Names, CibStep(n)
      PROVE  starter'[u] = starter[u]
  BY Zenon, <1>2 DEF CibStep, JobAppears, CollectJob, BumpStep, RemoveStep, CreateStep, jobVars
<1> QED
  BY Zenon, <1>1, <1>2, Steps DEF vars, jobVars

(***************************************************************************)
(* What a pod has completed stays so until another one starts the build    *)
(* anew: a pod that writes the status of the CIB is its starter from then  *)
(* on, if it was not before.                                               *)
(***************************************************************************)
LEMMA DoneStep ==
  ASSUME BuildInv, DoneInv, [Next]_vars
  PROVE  DoneInv'
<1> SUFFICES ASSUME NEW p \in PodIds, NEW n \in Names, pod'[p] # NoPod,
                    pod'[p].step \in {"tellComplete", "succeeded"},
                    cib'[n].uid = pod'[p].copy.uid, starter'[pod'[p].copy.uid] = p
             PROVE  cib'[n].state = "Completed"
  BY Zenon DEF DoneInv
<1>1. CASE StatusStep(p)
  <2>1. /\ pod[p].step \in {"building", "complete", "fail"}
        /\ cib'[pod[p].name].state = Transition[pod[p].step]
        /\ \A m \in Names \ {pod[p].name} : cib'[m] = cib[m] /\ cib[m].uid # pod[p].copy.uid
    BY Zenon, <1>1, Written DEF StatusStep
  <2>2. /\ pod'[p].copy.uid = pod[p].copy.uid
        /\ pod'[p].step \in {Telling[pod[p].step], "failed"}
    BY Zenon, <1>1, AnsweredPod DEF StatusStep
  <2>3. pod[p].step = "complete"
    BY Zenon, <2>1, <2>2, Transitions
  <2> QED
    BY Zenon, <2>1, <2>2, <2>3, Transitions
<1>2. CASE ~StatusStep(p)
  <2>1. /\ pod[p] # NoPod /\ pod'[p].copy = pod[p].copy
        /\ pod[p].step \in {"tellComplete", "succeeded"}
    BY Zenon, <1>2, DoneSteps
  <2>2. PICK u \in Uids : pod[p].copy.uid = u /\ u \in DOMAIN nameOf /\ u # 0
    <3>1. PodOK(p) /\ pod[p] \in Pods
      BY Zenon, <2>1, Fields DEF BuildInv, PodInv
    <3> QED
      BY Zenon, <2>1, <3>1, NoUid DEF PodOK, Pods, Given
  <2>3. ASSUME NEW q \in PodIds, StatusStep(q)
        PROVE  pod[q].copy.uid # u
    <3>1. q # p
      BY Zenon, <1>2, <2>3
    <3>2. starter'[pod[q].copy.uid] = q
      BY Zenon, <2>3, Histories DEF StatusStep
    <3> QED
      BY Zenon, <2>1, <2>2, <3>1, <3>2
  <2>4. starter[u] = p
    BY Zenon, <2>1, <2>2, <2>3, SameStarter
  <2>5. cib'[n].uid = cib[n].uid /\ cib'[n].state = cib[n].state
    <3>1. cib'[n].uid = u
      BY Zenon, <2>1, <2>2
    <3>2. ~\E q \in PodIds : StatusStep(q) /\ pod[q].copy.uid = cib'[n].uid
      BY Zenon, <2>3, <3>1
    <3> QED
      BY Zenon, <2>2, <3>1, <3>2, StatusChanges
  <2> QED
    BY Zenon, <2>1, <2>2, <2>4, <2>5 DEF DoneInv
<1> QED
  BY Zenon, <1>1, <1>2

(***************************************************************************)
(* What may go wrong is settled at the start.                              *)
(***************************************************************************)
LEMMA SameFaults ==
  ASSUME BuildInv, [Next]_vars
  PROVE  UNCHANGED faults
<1>1. ASSUME NEW p \in PodIds, PodStep(p)
      PROVE  UNCHANGED faults
  BY Zenon, <1>1
  DEF PodStep, MoveStep, GetStep, StatusStep, SamePlace, PushImage, PodLost, StartPod
<1>2. ASSUME NEW n \in Names, CibStep(n)
      PROVE  UNCHANGED faults
  BY Zenon, <1>2 DEF CibStep, JobAppears, CollectJob, BumpStep, RemoveStep, CreateStep, jobVars
<1> QED
  BY Zenon, <1>1, <1>2, Steps DEF vars, jobVars

(***************************************************************************)
(* What is known of the messages survives every step.  Several pods may    *)
(* work on a build, but only one as long as it is not disturbed: then      *)
(* nobody writes the status, or publishes, after the pod that has ended.   *)
(***************************************************************************)
LEMMA NewsStep ==
  ASSUME IInv, [Next]_vars
  PROVE  NewsInv'
<1> USE DEF IInv
<1>1. BuildInv /\ BuildInv' /\ PodsGoOn
  BY Zenon, BuildStep
<1>2. TypeOK /\ TypeOK' /\ PairInv
  BY Zenon, <1>1 DEF BuildInv
<1>3. \A u \in Uids : ~Disturbed(u)' => ~Disturbed(u)
  BY Zenon, <1>1, <1>2, StaysDisturbed
<1>4. published \in Seq(Messages) /\ published' \in Seq(Messages)
  BY Zenon, <1>2 DEF TypeOK
<1>5. \A i \in DOMAIN published : published[i] \in Messages /\ published[i].uid \in Uids
  <2>1. \A i \in DOMAIN published : published[i] \in Messages
    BY <1>4
  <2>2. \A m \in Messages : m.uid \in Uids
    BY Zenon DEF Messages
  <2> QED
    BY Zenon, <2>1, <2>2
<1>6. \A n \in Names : cib'[n].uid \in Uids \cup {0}
  BY Zenon, <1>2, Fields, NoUid DEF TypeOK, ClusterTypeOK, Exists
<1>7. ASSUME NEW i \in DOMAIN published
      PROVE  \E p \in PodIds :
               /\ pod'[p] # NoPod /\ pod'[p].copy # NoCib
               /\ pod'[p].copy.uid = published[i].uid
               /\ published[i].currentState \in Finished => pod'[p].step \in Exited
  <2>1. PICK p \in PodIds :
          /\ pod[p] # NoPod /\ pod[p].copy # NoCib /\ pod[p].copy.uid = published[i].uid
          /\ published[i].currentState \in Finished => pod[p].step \in Exited
    BY Zenon DEF NewsInv, MessageInv
  <2> QED
    BY Zenon, <1>1, <2>1 DEF PodsGoOn, GoesOn
<1>8. ASSUME NEW i \in DOMAIN published, published[i].currentState \in Finished,
             ~Disturbed(published[i].uid), NEW p \in PodIds,
             pod[p] # NoPod, pod[p].copy # NoCib, pod[p].copy.uid = published[i].uid
      PROVE  pod[p].step \in Exited
  <2>1. PICK q \in PodIds :
          /\ pod[q] # NoPod /\ pod[q].copy # NoCib /\ pod[q].copy.uid = published[i].uid
          /\ pod[q].step \in Exited
    BY Zenon, <1>8 DEF NewsInv, MessageInv
  <2> QED
    BY Zenon, <1>2, <1>5, <1>8, <2>1, OnePod
<1>9. ASSUME NEW n \in Names, NEW u \in Uids, cib'[n].uid = u, ~Disturbed(cib[n].uid)'
      PROVE  ~Disturbed(u)' /\ ~Disturbed(u)
  <2>1. ~Disturbed(u)'
    BY Zenon, <1>9 DEF Disturbed
  <2> QED
    BY Zenon, <1>3, <2>1
<1>10. TellInv'
  <2> SUFFICES ASSUME NEW p \in PodIds, NEW n \in Names, pod'[p] # NoPod,
                      pod'[p].step \in {"tellComplete", "tellFail"},
                      cib'[n].uid = pod'[p].copy.uid, ~Disturbed(cib[n].uid)'
               PROVE  cib'[n].state = pod'[p].copy.state
    BY Zenon DEF TellInv
  <2>1. PICK u \in Uids : cib'[n].uid = u /\ pod'[p].copy.uid = u
    <3>1. PodInv' /\ pod'[p] \in Pods
      BY Zenon, <1>1, <1>2 DEF BuildInv, TypeOK
    <3>2. pod'[p].copy \in Cibs
      BY Zenon, <3>1 DEF PodInv, PodOK, Pods
    <3> QED
      BY Zenon, <3>2, NoUid
  <2>2. ~Disturbed(u)
    BY Zenon, <1>9, <2>1
  <2>3. CASE StatusStep(p)
    <3>1. /\ cib'[pod[p].name].state = Transition[pod[p].step]
          /\ \A m \in Names \ {pod[p].name} : cib'[m] = cib[m] /\ cib[m].uid # pod[p].copy.uid
      BY Zenon, <1>1, <2>3, Written DEF StatusStep
    <3>2. pod'[p].copy.uid = pod[p].copy.uid /\ pod'[p].copy.state = Transition[pod[p].step]
      BY Zenon, <1>1, <2>3, AnsweredPod DEF StatusStep
    <3> QED
      BY Zenon, <2>1, <3>1, <3>2
  <2>4. CASE pod[p] # NoPod /\ pod'[p].step = pod[p].step /\ pod'[p].copy = pod[p].copy
    <3>1. pod[p].copy # NoCib /\ Given(pod[p].name, u)
      BY Zenon, <1>1, <2>1, <2>4 DEF BuildInv, PodInv, PodOK
    <3>2. CASE cib'[n].uid = cib[n].uid /\ cib'[n].state = cib[n].state
      <4>1. ~Disturbed(cib[n].uid) /\ cib[n].uid = pod[p].copy.uid
        BY Zenon, <2>1, <2>2, <2>4, <3>2
      <4> QED
        BY Zenon, <2>4, <3>2, <4>1 DEF NewsInv, TellInv
    <3>3. ASSUME NEW q \in PodIds, pod[q] # NoPod, pod[q].copy # NoCib,
                 pod[q].step \in {"building", "complete", "fail"}, pod[q].copy.uid = u
          PROVE  FALSE
      <4>1. p = q
        BY Zenon, <1>2, <2>1, <2>2, <2>4, <3>1, <3>3, OnePod
      <4> QED
        BY Zenon, <2>4, <3>3, <4>1
    <3> QED
      BY Zenon, <1>1, <2>1, <3>1, <3>2, <3>3, NoUid, StatusChanges DEF Given
  <2> QED
    BY Zenon, <1>1, <2>3, <2>4, TellSteps
\* What was published stays true.
<1>11. ASSUME NEW n \in Names, NEW i \in DOMAIN published,
              published[i].uid = cib'[n].uid, published[i].currentState \in Finished,
              ~Disturbed(cib[n].uid)'
       PROVE  cib'[n].state = published[i].currentState
  <2>1. PICK u \in Uids : published[i].uid = u
    BY Zenon, <1>5
  <2>2. ~Disturbed(u)
    BY Zenon, <1>9, <1>11, <2>1
  <2>3. CASE cib'[n].uid = cib[n].uid /\ cib'[n].state = cib[n].state
    <3>1. ~Disturbed(cib[n].uid)
      BY Zenon, <1>11, <2>1, <2>2, <2>3
    <3> QED
      BY Zenon, <1>11, <2>3, <3>1 DEF NewsInv, OutcomeMessagesAreTrue
  <2>4. ASSUME NEW p \in PodIds, pod[p] # NoPod, pod[p].copy # NoCib,
               pod[p].step \in {"building", "complete", "fail"}, pod[p].copy.uid = u
        PROVE  FALSE
    BY Zenon, <1>8, <1>11, <2>1, <2>2, <2>4 DEF Exited
  <2>5. u \in DOMAIN nameOf
    BY Zenon, <1>1, <2>1 DEF NewsInv, MessageInv, BuildInv, PodInv, PodOK, Given
  <2> QED
    BY Zenon, <1>1, <1>11, <2>1, <2>3, <2>4, <2>5, NoUid, StatusChanges
<1>12. ASSUME NEW q \in PodIds, pod[q] # NoPod, pod[q].step = "succeeded"
       PROVE  pod'[q].copy.uid = pod[q].copy.uid
  BY Zenon, <1>1, <1>12 DEF BuildInv, PodInv, PodOK, PodsGoOn, GoesOn
<1>13. ASSUME UNCHANGED published,
              \A q \in PodIds :
                (pod'[q] # NoPod /\ pod'[q].step = "succeeded" /\ Reliable) =>
                  pod[q] # NoPod /\ pod[q].step = "succeeded"
       PROVE  MessageInv' /\ ReportInv' /\ OutcomeMessagesAreTrue' /\ OutcomeMessageIsLast'
  <2>1. MessageInv'
    BY Zenon, <1>7, <1>13 DEF MessageInv
  <2>2. OutcomeMessagesAreTrue'
    BY Zenon, <1>11, <1>13 DEF OutcomeMessagesAreTrue
  <2>3. OutcomeMessageIsLast'
    <3> SUFFICES ASSUME NEW i \in DOMAIN published, NEW j \in DOMAIN published,
                        i < j, published[i].uid = published[j].uid,
                        ~Disturbed(published[i].uid)'
                 PROVE  published[i].currentState \notin Finished
      BY Zenon, <1>13 DEF OutcomeMessageIsLast
    <3>1. PICK u \in Uids : published[i].uid = u
      BY Zenon, <1>5
    <3>2. ~Disturbed(u)'
      BY Zenon, <1>13, <3>1 DEF Disturbed
    <3>3. ~Disturbed(published[i].uid)
      BY Zenon, <1>3, <3>1, <3>2
    <3> QED
      BY Zenon, <3>3 DEF NewsInv, OutcomeMessageIsLast
  <2>4. ReportInv'
    <3> SUFFICES ASSUME NEW q \in PodIds, pod'[q] # NoPod, pod'[q].step = "succeeded", Reliable
                 PROVE  \E i \in DOMAIN published :
                          /\ published[i].uid = pod'[q].copy.uid
                          /\ published[i].currentState = "Completed"
      BY Zenon, <1>1, <1>13, SameFaults DEF ReportInv, Reliable
    <3>1. pod[q] # NoPod /\ pod[q].step = "succeeded"
      BY Zenon, <1>13
    <3> QED
      BY Zenon, <1>12, <3>1 DEF NewsInv, ReportInv
  <2> QED
    BY Zenon, <2>1, <2>2, <2>3, <2>4
<1>14. ASSUME NEW p \in PodIds, Publish(p), HasBroker
       PROVE  MessageInv' /\ ReportInv' /\ OutcomeMessagesAreTrue' /\ OutcomeMessageIsLast'
  <2> DEFINE new == StatusUpdate(p)
             last == Len(published) + 1
  <2>1. published' = Append(published, new) /\ Goto(p, AfterTelling[pod[p].step])
        /\ pod[p].step \in {"tellBuilding", "tellComplete", "tellFail"} /\ UNCHANGED clusterVars
    BY Zenon, <1>14, AfterMessages DEF Publish
  <2>2. pod[p] \in Pods /\ pod[p] # NoPod /\ pod[p].copy # NoCib /\ PodOK(p)
    BY Zenon, <1>1, <2>1, Fields DEF BuildInv, PodInv, PodOK, Started
  <2>3. new.uid = pod[p].copy.uid /\ new.currentState = pod[p].copy.state
    BY Zenon DEF StatusUpdate
  <2>4. pod[p].copy.uid \in Uids
    BY Zenon, <2>2, NoUid DEF Pods
  <2>5. new.currentState \in Finished => pod[p].step \in {"tellComplete", "tellFail"}
    BY Zenon, <2>1, <2>2, <2>3 DEF PodOK, Finished
  <2>6. /\ pod'[p] # NoPod /\ pod'[p].copy = pod[p].copy
        /\ pod[p].step \in {"tellComplete", "tellFail"} => pod'[p].step \in Exited
        /\ pod'[p].step = "succeeded" => pod[p].step = "tellComplete"
        /\ \A q \in PodIds \ {p} : pod'[q] = pod[q]
    <3>1. AfterTelling[pod[p].step] \in PodSteps \ {"none"}
      BY Zenon, <2>1, AfterMessages DEF PodSteps, Exited
    <3>2. /\ pod'[p] # NoPod /\ pod'[p].copy = pod[p].copy
          /\ pod'[p].step = AfterTelling[pod[p].step]
          /\ \A q \in PodIds \ {p} : pod'[q] = pod[q]
      BY Zenon, <1>2, <2>1, <2>2, <3>1, Moved
    <3> QED
      BY Zenon, <2>1, <3>2, AfterMessages DEF Exited
  <2> HIDE DEF new
  <2>7. /\ DOMAIN published' = DOMAIN published \cup {last}
        /\ last \notin DOMAIN published
        /\ published'[last] = new
        /\ \A i \in DOMAIN published : published'[i] = published[i]
        /\ \A i \in DOMAIN published \cup {last} : ~(last < i)
    <3>1. Len(published) \in Nat /\ DOMAIN published = 1..Len(published)
      BY <1>4
    <3>2. DOMAIN published' = 1..last
      BY <1>4, <2>1, <3>1
    <3> QED
      BY <1>4, <2>1, <3>1, <3>2
  <2> HIDE DEF last
  <2>8. MessageInv'
    <3> SUFFICES ASSUME NEW i \in DOMAIN published'
                 PROVE  \E q \in PodIds :
                          /\ pod'[q] # NoPod /\ pod'[q].copy # NoCib
                          /\ pod'[q].copy.uid = published'[i].uid
                          /\ published'[i].currentState \in Finished => pod'[q].step \in Exited
      BY Zenon DEF MessageInv
    <3>1. CASE i = last
      BY Zenon, <2>2, <2>3, <2>5, <2>6, <2>7, <3>1
    <3>2. CASE i \in DOMAIN published
      BY Zenon, <1>7, <2>7, <3>2
    <3> QED
      BY Zenon, <2>7, <3>1, <3>2
  <2>9. OutcomeMessagesAreTrue'
    <3> SUFFICES ASSUME NEW n \in Names, NEW i \in DOMAIN published',
                        published'[i].uid = cib'[n].uid,
                        published'[i].currentState \in Finished, ~Disturbed(cib[n].uid)'
                 PROVE  cib'[n].state = published'[i].currentState
      BY Zenon DEF OutcomeMessagesAreTrue
    <3>1. CASE i = last
      <4>1. cib' = cib /\ cib[n].uid = pod[p].copy.uid
        BY Zenon, <2>1, <2>3, <2>7, <3>1 DEF clusterVars
      <4>2. ~Disturbed(cib[n].uid)
        BY Zenon, <1>9, <2>4, <4>1
      <4>3. cib[n].state = pod[p].copy.state
        BY Zenon, <2>2, <2>5, <2>7, <3>1, <4>1, <4>2 DEF NewsInv, TellInv
      <4> QED
        BY Zenon, <2>3, <2>7, <3>1, <4>1, <4>3
    <3>2. CASE i \in DOMAIN published
      BY Zenon, <1>11, <2>7, <3>2
    <3> QED
      BY Zenon, <2>7, <3>1, <3>2
  <2>10. OutcomeMessageIsLast'
    <3> SUFFICES ASSUME NEW i \in DOMAIN published', NEW j \in DOMAIN published',
                        i < j, published'[i].uid = published'[j].uid,
                        ~Disturbed(published[i].uid)'
                 PROVE  published'[i].currentState \notin Finished
      BY Zenon DEF OutcomeMessageIsLast
    <3>1. i \in DOMAIN published /\ published'[i] = published[i]
      <4>1. last # i
        BY Zenon, <2>7
      <4> QED
        BY Zenon, <2>7, <4>1
    <3>2. PICK u \in Uids : published[i].uid = u
      BY Zenon, <1>5, <3>1
    <3>3. ~Disturbed(u)'
      BY Zenon, <3>1, <3>2 DEF Disturbed
    <3>4. ~Disturbed(published[i].uid)
      BY Zenon, <1>3, <3>2, <3>3
    <3>5. CASE j \in DOMAIN published
      BY Zenon, <2>7, <3>1, <3>4, <3>5 DEF NewsInv, OutcomeMessageIsLast
    <3>6. CASE j = last
      BY Zenon, <1>8, <2>1, <2>2, <2>3, <2>7, <3>1, <3>4, <3>6 DEF Exited
    <3> QED
      BY Zenon, <2>7, <3>5, <3>6
  <2>11. ReportInv'
    <3> SUFFICES ASSUME NEW q \in PodIds, pod'[q] # NoPod, pod'[q].step = "succeeded", Reliable
                 PROVE  \E i \in DOMAIN published' :
                          /\ published'[i].uid = pod'[q].copy.uid
                          /\ published'[i].currentState = "Completed"
      BY Zenon, <1>1, SameFaults DEF ReportInv, Reliable
    <3>1. CASE q = p
      BY Zenon, <2>1, <2>2, <2>3, <2>6, <2>7, <3>1 DEF PodOK
    <3>2. CASE q # p
      <4>1. pod[q] = pod'[q]
        BY Zenon, <2>6, <3>2
      <4>2. \E i \in DOMAIN published :
              published[i].uid = pod[q].copy.uid /\ published[i].currentState = "Completed"
        BY Zenon, <4>1 DEF NewsInv, ReportInv
      <4> QED
        BY Zenon, <2>7, <4>1, <4>2
    <3> QED
      BY Zenon, <3>1, <3>2
  <2> QED
    BY Zenon, <2>8, <2>9, <2>10, <2>11
<1> QED
  BY Zenon, <1>1, <1>10, <1>13, <1>14, MessageSteps, DoneStep DEF NewsInv

-----------------------------------------------------------------------------
(***************************************************************************)
(* The invariant holds in every reachable state of the build job.          *)
(***************************************************************************)
THEOREM Invariance == Spec => []IInv
<1>1. IInv /\ [Next]_vars => IInv'
  BY Zenon, BuildStep, NewsStep DEF IInv
<1> QED
  BY <1>1, InitInv, PTL DEF Spec

(***************************************************************************)
(* Type correctness of the build job.                                      *)
(***************************************************************************)
THEOREM TypeCorrect == Spec => []TypeOK
<1>1. IInv => TypeOK
  BY Zenon DEF IInv, BuildInv
<1> QED
  BY <1>1, Invariance, PTL

(***************************************************************************)
(* The absence of a CIB has no state either.                               *)
(***************************************************************************)
LEMMA NoState == \A n \in Names : ~Exists(n) => cib[n].state = ""
<1>1. NoCib.state = ""
  BY Zenon DEF NoCib
<1> QED
  BY Zenon, <1>1 DEF Exists

(***************************************************************************)
(* A CIB whose status is Completed has its image in every push registry.   *)
(***************************************************************************)
THEOREM CompletedSafe == Spec => []CompletedIsPushed
<1>1. IInv => CompletedIsPushed
  BY Zenon, NoState DEF IInv, BuildInv, CompletedIsPushed, StateInv, StateOK
<1> QED
  BY <1>1, Invariance, PTL

(***************************************************************************)
(* The outcome in the status was written by the pod that wrote Building    *)
(* last.                                                                   *)
(***************************************************************************)
THEOREM OutcomeSafe == Spec => []OutcomeOfLatestStart
<1>1. IInv => OutcomeOfLatestStart
  BY Zenon, NoState DEF IInv, BuildInv, OutcomeOfLatestStart, StateInv, StateOK, Finished
<1> QED
  BY <1>1, Invariance, PTL

(***************************************************************************)
(* Subscribers never hear of an outcome that is not the one in the status. *)
(***************************************************************************)
THEOREM MessagesSafe == Spec => []OutcomeMessagesAreTrue
<1>1. IInv => OutcomeMessagesAreTrue
  BY Zenon DEF IInv, NewsInv
<1> QED
  BY <1>1, Invariance, PTL

(***************************************************************************)
(* No message follows the one that tells the outcome.                      *)
(***************************************************************************)
THEOREM OrderSafe == Spec => []OutcomeMessageIsLast
<1>1. IInv => OutcomeMessageIsLast
  BY Zenon DEF IInv, NewsInv
<1> QED
  BY <1>1, Invariance, PTL

(***************************************************************************)
(* A pod that ends with success has pushed the image to every registry;    *)
(* the status says Completed until another pod starts the build anew; and  *)
(* a broker that does not fail has the message.                            *)
(***************************************************************************)
THEOREM SuccessSafe == Spec => []SuccessIsReported
<1>1. IInv => SuccessIsReported
  <2> SUFFICES ASSUME IInv, NEW p \in PodIds, pod[p].step = "succeeded"
               PROVE  /\ pushed[pod[p].copy.uid] = Registries
                      /\ \A n \in Names :
                           cib[n].uid = pod[p].copy.uid /\ starter[pod[p].copy.uid] = p =>
                             cib[n].state = "Completed"
                      /\ Reliable => \E i \in DOMAIN published :
                           /\ published[i].uid = pod[p].copy.uid
                           /\ published[i].currentState = "Completed"
    BY Zenon DEF SuccessIsReported, Reliable
  <2>1. pod[p] # NoPod /\ pod[p] \in Pods /\ TypeOK
    BY Zenon, Fields DEF IInv, BuildInv
  <2>2. /\ pod[p].copy # NoCib
        /\ pod[p].done = Registries /\ pod[p].done <= pushed[pod[p].copy.uid]
    BY Zenon, <2>1 DEF IInv, BuildInv, PodInv, PodOK
  <2>3. pushed[pod[p].copy.uid] \in 0..Registries
    BY Zenon, <2>1, <2>2, NoUid DEF TypeOK, Pods
  <2>4. pushed[pod[p].copy.uid] = Registries
    BY <2>2, <2>3, BuildJobAssumption
  <2> QED
    BY Zenon, <2>1, <2>4 DEF IInv, NewsInv, ReportInv, DoneInv
<1> QED
  BY <1>1, Invariance, PTL

-----------------------------------------------------------------------------
(***************************************************************************)
(* The life of a build                                                     *)
(***************************************************************************)

(***************************************************************************)
(* What the phase of a build depends on.                                   *)
(***************************************************************************)
LEMMA SamePhase ==
  ASSUME NEW u,
         u \in DOMAIN nameOf' <=> u \in DOMAIN nameOf,
         u \in LiveUids' <=> u \in LiveUids,
         Disturbed(u)' <=> Disturbed(u),
         u \in LiveUids => cib'[nameOf'[u]].state = cib[nameOf[u]].state
  PROVE  Phase(u)' = Phase(u)
<1>1. CASE u \notin DOMAIN nameOf
  BY Zenon, <1>1 DEF Phase
<1>2. CASE u \in DOMAIN nameOf /\ (u \notin LiveUids \/ Disturbed(u))
  BY Zenon, <1>2 DEF Phase
<1>3. CASE u \in DOMAIN nameOf /\ u \in LiveUids /\ ~Disturbed(u)
  BY Zenon, <1>3 DEF Phase
<1> QED
  BY Zenon, <1>1, <1>2, <1>3

(***************************************************************************)
(* The CIBs that exist are the same.                                       *)
(***************************************************************************)
LEMMA SameLive ==
  ASSUME \A m \in Names : (cib'[m] # NoCib <=> cib[m] # NoCib) /\ cib'[m].uid = cib[m].uid
  PROVE  LiveUids' = LiveUids
  BY Zenon DEF LiveUids, Exists

(***************************************************************************)
(* A step of a pod that keeps its Job and its copy disturbs no build.      *)
(***************************************************************************)
LEMMA SameDisturbed ==
  ASSUME NEW u,
         \A p \in PodIds :
           /\ pod'[p] # NoPod <=> pod[p] # NoPod
           /\ pod[p] # NoPod =>
                /\ pod'[p].job = pod[p].job
                /\ pod'[p].lost = pod[p].lost
                /\ pod'[p].copy # NoCib <=> pod[p].copy # NoCib
                /\ pod'[p].copy.uid = pod[p].copy.uid
  PROVE  Disturbed(u)' <=> Disturbed(u)
  BY Zenon DEF Disturbed

(***************************************************************************)
(* A CIB that exists is the one its uid was given to.                      *)
(***************************************************************************)
LEMMA LiveIs ==
  ASSUME BuildInv, NEW u \in Uids
  PROVE  /\ u \in LiveUids => /\ u \in DOMAIN nameOf /\ nameOf[u] \in Names
                              /\ Exists(nameOf[u]) /\ cib[nameOf[u]].uid = u
         /\ \A n \in Names : (Exists(n) /\ cib[n].uid = u) => u \in LiveUids /\ nameOf[u] = n
  BY DEF LiveUids, BuildInv, NamesInv, Given

(***************************************************************************)
(* One build moves.                                                        *)
(***************************************************************************)
LEMMA PhaseMove ==
  ASSUME NEW b \in Uids, NEW from, NEW to, Phase(b) \in from, Phase(b)' = to,
         \A v \in Uids \ {b} : Phase(v)' = Phase(v)
  PROVE  Lifecycle!Move(b, from, to)
  BY Zenon DEF Lifecycle!Move

(***************************************************************************)
(* Steps that concern no build, as a whole: they keep the phase of each.   *)
(***************************************************************************)
LEMMA QuietLife ==
  ASSUME BuildInv, NEW u \in Uids,
         \/ \E p \in PodIds : MoveStep(p) \/ PushImage(p) \/ \E n \in Names : StartPod(n, p)
         \/ \E n \in Names : JobAppears(n) \/ CollectJob(n) \/ BumpStep(n)
         \/ UNCHANGED vars
  PROVE  Phase(u)' = Phase(u)
<1>1. pod \in [PodIds -> Pods \cup {NoPod}] /\ cib \in [Names -> Cibs \cup {NoCib}]
  BY Zenon DEF BuildInv, TypeOK, ClusterTypeOK
<1>2. ASSUME UNCHANGED <<cib, nameOf>>, Disturbed(u)' <=> Disturbed(u)
      PROVE  Phase(u)' = Phase(u)
  BY Zenon, <1>2, SamePhase DEF LiveUids, Exists
<1>3. ASSUME NEW p \in PodIds, MoveStep(p)
      PROVE  Phase(u)' = Phase(u)
  <2>1. PICK s \in PodSteps \ {"none"} : Goto(p, s) /\ MovesOn(pod[p].step, s) /\ SamePlace
    BY Zenon, <1>3 DEF MoveStep
  <2>2. pod[p] # NoPod
    BY <2>1 DEF MovesOn, Started, NoPod
  <2>3. Disturbed(u)' <=> Disturbed(u)
    BY <2>1, <2>2, Moved, SameDisturbed DEF BuildInv
  <2> QED
    BY Zenon, <1>2, <2>1, <2>3 DEF SamePlace, clusterVars
<1>4. ASSUME NEW p \in PodIds, PushImage(p)
      PROVE  Phase(u)' = Phase(u)
  <2>1. pod[p] # NoPod /\ pod[p] \in Pods
    BY Zenon, <1>4, Fields DEF PushImage, BuildInv
  <2>2. /\ pod'[p].job = pod[p].job /\ pod'[p].lost = pod[p].lost /\ pod'[p].copy = pod[p].copy
        /\ \A q \in PodIds \ {p} : pod'[q] = pod[q]
        /\ pod'[p].step # "none"
    BY Zenon, <1>1, <1>4, <2>1 DEF PushImage, Pods
  <2>3. pod'[p] # NoPod
    BY <2>2 DEF NoPod
  <2>4. Disturbed(u)' <=> Disturbed(u)
    BY Zenon, <2>1, <2>2, <2>3, SameDisturbed
  <2> QED
    BY Zenon, <1>2, <1>4, <2>4 DEF PushImage, clusterVars
<1>5. ASSUME NEW p \in PodIds, NEW n \in Names, StartPod(n, p)
      PROVE  Phase(u)' = Phase(u)
  <2>1. pod[p] = NoPod /\ pod' = [pod EXCEPT ![p] = NewPod(n)]
    BY Zenon, <1>5 DEF StartPod
  <2>2. \A q \in PodIds \ {p} : pod'[q] = pod[q]
    BY Zenon, <1>1, <2>1
  <2>3. ~pod'[p].lost /\ pod'[p].copy = NoCib
    BY Zenon, <1>1, <2>1 DEF NewPod
  <2>4. Disturbed(u)' <=> Disturbed(u)
    BY Zenon, <2>1, <2>2, <2>3 DEF Disturbed
  <2> QED
    BY Zenon, <1>2, <1>5, <2>4 DEF StartPod, clusterVars
<1>6. ASSUME NEW n \in Names, BumpStep(n)
      PROVE  Phase(u)' = Phase(u)
  <2>1. cib[n] \in Cibs
    BY Zenon, <1>6, Fields DEF BumpStep, BuildInv
  <2>2. PICK deleting \in BOOLEAN : cib' = [cib EXCEPT ![n].deleting = deleting, ![n].ver = @ + 1]
    BY Zenon, <1>6 DEF BumpStep
  <2>3. cib'[n].uid = cib[n].uid /\ cib'[n].state = cib[n].state
        /\ \A m \in Names \ {n} : cib'[m] = cib[m]
    BY Zenon, <1>1, <2>1, <2>2 DEF Cibs
  <2>4. cib'[n] # NoCib /\ cib[n] # NoCib
    BY Zenon, <2>1, <2>3, NoUid
  <2>5. LiveUids' = LiveUids
    BY Zenon, <2>3, <2>4, SameLive
  <2>6. Disturbed(u)' <=> Disturbed(u)
    BY Zenon, <1>6 DEF BumpStep, Disturbed
  <2>7. u \in LiveUids => nameOf[u] \in Names
    BY Zenon, LiveIs
  <2> QED
    BY Zenon, <1>6, <2>3, <2>5, <2>6, <2>7, SamePhase DEF BumpStep
<1>7. CASE UNCHANGED <<cib, nameOf, pod>>
  BY Zenon, <1>2, <1>7 DEF Disturbed
<1>8. ASSUME (\E n \in Names : JobAppears(n) \/ CollectJob(n)) \/ UNCHANGED vars
      PROVE  UNCHANGED <<cib, nameOf, pod>>
  BY Zenon, <1>8 DEF JobAppears, CollectJob, vars, clusterVars, jobVars
<1> QED
  BY Zenon, <1>3, <1>4, <1>5, <1>6, <1>7, <1>8

(***************************************************************************)
(* A build that is created begins its life.                                *)
(***************************************************************************)
LEMMA CreateLife ==
  ASSUME BuildInv, BuildInv', NEW n \in Names, CreateStep(n)
  PROVE  \E b \in Uids : Lifecycle!Create(b)
<1>1. PICK b \in Uids : b = Len(nameOf) + 1
  <2>1. Len(nameOf) < MaxUid
    BY Zenon DEF CreateStep, CreateCib
  <2>2. Len(nameOf) \in Nat
    BY DEF BuildInv, TypeOK, ClusterTypeOK
  <2> QED
    BY <2>1, <2>2, MaxUidAssumption DEF Uids
<1>2. /\ b \notin DOMAIN nameOf
      /\ DOMAIN nameOf' = DOMAIN nameOf \cup {b}
      /\ nameOf'[b] = n
      /\ \A m, v : Given(m, v) => Given(m, v)'
  BY Zenon, <1>1, CreateGives DEF CreateStep, BuildInv, TypeOK
<1>3. /\ cib'[n].uid = b /\ cib'[n].state = "" /\ cib[n] = NoCib
      /\ \A m \in Names \ {n} : cib'[m] = cib[m]
  BY Zenon, <1>1 DEF CreateStep, CreateCib, Exists, BuildInv, TypeOK, ClusterTypeOK
<1>4. cib'[n] # NoCib
  BY Zenon, <1>3, NoUid
<1>5. LiveUids' = LiveUids \cup {b}
  BY Zenon, <1>3, <1>4 DEF LiveUids, Exists
<1>6. \A v \in DOMAIN nameOf : nameOf'[v] = nameOf[v]
  BY Zenon, <1>2 DEF Given
<1>7. UNCHANGED pod
  BY Zenon DEF CreateStep, jobVars
<1>8. \A v \in Uids : Disturbed(v)' <=> Disturbed(v)
  BY Zenon, <1>7 DEF Disturbed
<1>9. ~Disturbed(b)
  <2>1. \A p \in PodIds : pod[p] # NoPod => pod[p].job # b
    BY <1>2 DEF BuildInv, PodInv, PodOK, Given
  <2>2. \A p \in PodIds : pod[p] # NoPod => pod[p].copy.uid # b
    BY <1>2, NoUid DEF BuildInv, PodInv, PodOK, Given
  <2> QED
    BY Zenon, <2>1, <2>2 DEF Disturbed
<1>10. ASSUME NEW v \in Uids \ {b}
       PROVE  Phase(v)' = Phase(v)
  <2>1. v \in LiveUids =>
          v \in DOMAIN nameOf /\ nameOf[v] \in Names \ {n}
    BY Zenon, <1>3, LiveIs DEF Exists
  <2>2. v \in LiveUids => cib'[nameOf'[v]].state = cib[nameOf[v]].state
    BY Zenon, <1>3, <1>6, <2>1
  <2> QED
    BY Zenon, <1>2, <1>5, <1>8, <2>2, SamePhase
<1>11. Phase(b) = "none"
  BY Zenon, <1>2 DEF Phase
<1>12. Phase(b)' = "pending"
  <2>1. b \in DOMAIN nameOf' /\ b \in LiveUids' /\ ~Disturbed(b)' /\ cib'[nameOf'[b]].state = ""
    BY Zenon, <1>2, <1>3, <1>5, <1>8, <1>9
  <2> QED
    BY Zenon, <2>1 DEF Phase
<1> QED
  BY <1>10, <1>11, <1>12, PhaseMove DEF Lifecycle!Create

(***************************************************************************)
(* A build that is gone after a step has left, if it was there before it.  *)
(***************************************************************************)
LEMMA LeaveOrStay ==
  ASSUME NEW b \in Uids, b \in DOMAIN nameOf, \A v \in Uids \ {b} : Phase(v)' = Phase(v),
         Phase(b)' \in {Phase(b), "gone"}
  PROVE  \/ Lifecycle!Leave(b)
         \/ [u \in Uids |-> Phase(u)]' = [u \in Uids |-> Phase(u)]
<1>1. Phase(b) \in Lifecycle!Phases \ {"none"}
  BY Zenon DEF Phase, Lifecycle!Phases
<1>2. CASE Phase(b)' = Phase(b)
  BY Zenon, <1>2
<1>3. CASE Phase(b)' = "gone" /\ Phase(b) # "gone"
  BY Zenon, <1>1, <1>3, PhaseMove DEF Lifecycle!Leave
<1> QED
  BY Zenon, <1>2, <1>3

(***************************************************************************)
(* A CIB that is removed takes its build, if it was not disturbed before,  *)
(* out of the lifecycle.                                                   *)
(***************************************************************************)
LEMMA RemoveLife ==
  ASSUME BuildInv, NEW n \in Names, RemoveStep(n)
  PROVE  \/ \E b \in Uids : Lifecycle!Leave(b)
         \/ [u \in Uids |-> Phase(u)]' = [u \in Uids |-> Phase(u)]
<1>1. /\ Exists(n) /\ cib' = [cib EXCEPT ![n] = NoCib]
      /\ UNCHANGED <<nameOf, pod>>
  BY Zenon DEF RemoveStep, RemoveCib, jobVars
<1>2. cib'[n] = NoCib /\ \A m \in Names \ {n} : cib'[m] = cib[m]
  BY Zenon, <1>1 DEF BuildInv, TypeOK, ClusterTypeOK
<1>3. PICK b \in Uids : cib[n].uid = b
  BY Zenon, <1>1, Fields, NoUid DEF BuildInv
<1>4. b \in DOMAIN nameOf /\ nameOf[b] = n /\ \A m \in Names \ {n} : cib[m].uid # b
  BY Zenon, <1>1, <1>3, OneCib DEF BuildInv, NamesInv, Given
<1>5. LiveUids' = LiveUids \ {b}
  BY <1>1, <1>2, <1>3, <1>4 DEF LiveUids, Exists
<1>6. \A v \in Uids : Disturbed(v)' <=> Disturbed(v)
  BY Zenon, <1>1 DEF Disturbed
<1>7. ASSUME NEW v \in Uids \ {b}
      PROVE  Phase(v)' = Phase(v)
  <2>1. v \in LiveUids => nameOf[v] \in Names \ {n}
    BY Zenon, <1>3, LiveIs
  <2> QED
    BY Zenon, <1>1, <1>2, <1>5, <1>6, <2>1, SamePhase
<1>8. Phase(b)' = "gone"
  <2>1. b \in DOMAIN nameOf' /\ b \notin LiveUids'
    BY Zenon, <1>1, <1>4, <1>5
  <2> QED
    BY Zenon, <2>1 DEF Phase
<1> QED
  BY Zenon, <1>4, <1>7, <1>8, LeaveOrStay

(***************************************************************************)
(* A build may be disturbed by a pod that is lost, or by one that was      *)
(* started for an earlier CIB of the name and finds it.  The earlier CIB   *)
(* is gone by then, so that one build leaves and no more.                  *)
(***************************************************************************)
LEMMA DisturbLife ==
  ASSUME BuildInv, NEW p \in PodIds, GetStep(p) \/ PodLost(p)
  PROVE  \/ \E b \in Uids : Lifecycle!Leave(b)
         \/ [u \in Uids |-> Phase(u)]' = [u \in Uids |-> Phase(u)]
<1>1. pod[p] # NoPod /\ pod[p] \in Pods /\ pod \in [PodIds -> Pods \cup {NoPod}]
  BY Zenon, Fields DEF GetStep, PodLost, Running, BuildInv, TypeOK
<1>2. UNCHANGED <<cib, nameOf>>
  BY Zenon DEF GetStep, PodLost, SamePlace, clusterVars
<1>3. ASSUME NEW b \in Uids, b \in DOMAIN nameOf,
             \A v \in Uids \ {b} : v \in LiveUids => (Disturbed(v)' <=> Disturbed(v)),
             Disturbed(b) => Disturbed(b)'
      PROVE  \/ Lifecycle!Leave(b)
             \/ [u \in Uids |-> Phase(u)]' = [u \in Uids |-> Phase(u)]
  <2>1. LiveUids' = LiveUids
    BY Zenon, <1>2 DEF LiveUids, Exists
  <2>2. ASSUME NEW v \in Uids \ {b}
        PROVE  Phase(v)' = Phase(v)
    BY Zenon, <1>2, <1>3, <2>1 DEF Phase
  <2>3. Phase(b)' \in {Phase(b), "gone"}
    BY Zenon, <1>2, <1>3, <2>1 DEF Phase
  <2> QED
    BY Zenon, <1>3, <2>2, <2>3, LeaveOrStay
<1>4. BuildInv' /\ PodsGoOn
  BY Zenon, GetInv, LostInv DEF GetStep, SamePlace
<1>5. \A v \in Uids : Disturbed(v) => Disturbed(v)'
  BY Zenon, <1>4, StaysDisturbed DEF BuildInv
<1>6. pod[p].job \in Uids /\ Given(pod[p].name, pod[p].job)
  BY Zenon, <1>1 DEF BuildInv, PodInv, PodOK, Pods
<1>7. CASE GetStep(p)
  <2>1. /\ Exists(pod[p].name) /\ pod[p].name \in Names
        /\ pod' = [pod EXCEPT ![p].step = "building", ![p].copy = cib[pod[p].name]]
        /\ pod[p].copy = NoCib
    BY Zenon, <1>1, <1>7 DEF GetStep, BuildInv, PodInv, PodOK, Pods
  <2>2. PICK b \in Uids : cib[pod[p].name].uid = b
    BY Zenon, <2>1, Fields, NoUid DEF BuildInv
  <2>3. b \in DOMAIN nameOf
    BY Zenon, <2>1, <2>2 DEF BuildInv, NamesInv, Given
  <2>4. /\ pod'[p].job = pod[p].job /\ pod'[p].copy.uid = b
        /\ \A q \in PodIds \ {p} : pod'[q] = pod[q]
    BY Zenon, <1>1, <2>1, <2>2 DEF Pods
  <2>5. ASSUME NEW v \in Uids \ {b}, v \in LiveUids, Disturbed(v)'
        PROVE  Disturbed(v)
    <3>1. v # pod[p].job
      <4>1. v = pod[p].job => cib[pod[p].name].uid = v
        BY Zenon, <1>6, <2>5, LiveIs DEF Given
      <4> QED
        BY Zenon, <2>2, <4>1
    <3> QED
      BY Zenon, <2>4, <2>5, <3>1 DEF Disturbed
  <2> QED
    BY Zenon, <1>3, <1>5, <2>3, <2>5
<1>8. CASE PodLost(p)
  <2>1. pod' = [pod EXCEPT ![p].lost = TRUE]
    BY Zenon, <1>8 DEF PodLost
  <2>2. /\ pod'[p].job = pod[p].job /\ pod'[p].copy = pod[p].copy
        /\ \A q \in PodIds \ {p} : pod'[q] = pod[q]
    BY Zenon, <1>1, <2>1 DEF Pods
  <2>3. ASSUME NEW v \in Uids \ {pod[p].job}, Disturbed(v)'
        PROVE  Disturbed(v)
    <3>1. CASE v = pod[p].copy.uid
      BY Zenon, <1>1, <3>1, NoUid DEF Disturbed
    <3>2. CASE v # pod[p].copy.uid
      BY Zenon, <2>2, <2>3, <3>2 DEF Disturbed
    <3> QED
      BY Zenon, <3>1, <3>2
  <2> QED
    BY Zenon, <1>3, <1>5, <1>6, <2>3 DEF Given
<1> QED
  BY Zenon, <1>7, <1>8

(***************************************************************************)
(* A status that is written takes a build up or finishes it, unless it was *)
(* disturbed: the only pod that works on it is the one that has started it.*)
(***************************************************************************)
LEMMA StatusLife ==
  ASSUME BuildInv, NEW p \in PodIds, StatusStep(p)
  PROVE  \/ \E b \in Uids : Lifecycle!Start(b) \/ Lifecycle!Complete(b) \/ Lifecycle!Fail(b)
         \/ [u \in Uids |-> Phase(u)]' = [u \in Uids |-> Phase(u)]
<1> DEFINE n == pod[p].name
<1>1. /\ pod[p] # NoPod /\ pod[p] \in Pods /\ pod[p].copy \in Cibs
      /\ pod[p].step \in {"building", "complete", "fail"}
      /\ Exists(n) /\ cib[n].uid = pod[p].copy.uid
      /\ cib'[n] # NoCib /\ cib'[n].uid = pod[p].copy.uid
      /\ cib'[n].state = Transition[pod[p].step]
      /\ \A m \in Names \ {n} : cib'[m] = cib[m] /\ cib[m].uid # pod[p].copy.uid
      /\ nameOf' = nameOf
  BY Zenon, Written DEF StatusStep
<1>2. PICK b \in Uids : pod[p].copy.uid = b
  BY Zenon, <1>1, NoUid
<1>3. n \in Names /\ cib[n] # NoCib /\ b \in LiveUids /\ nameOf[b] = n /\ b \in DOMAIN nameOf
  <2>1. n \in Names
    BY Zenon, <1>1 DEF Pods
  <2>2. b \in LiveUids /\ nameOf[b] = n
    BY Zenon, <1>1, <1>2, <2>1, LiveIs
  <2> QED
    BY Zenon, <1>1, <2>1, <2>2, LiveIs DEF Exists
<1>4. LiveUids' = LiveUids
  BY Zenon, <1>1, <1>3, SameLive
<1>5. \A v \in Uids : Disturbed(v)' <=> Disturbed(v)
  <2>1. /\ \A q \in PodIds \ {p} : pod'[q] = pod[q]
        /\ pod'[p] # NoPod /\ pod'[p].job = pod[p].job /\ pod'[p].lost = pod[p].lost
        /\ pod'[p].copy # NoCib /\ pod'[p].copy.uid = pod[p].copy.uid
    BY Zenon, AnsweredPod DEF StatusStep
  <2>2. pod[p].copy # NoCib
    BY Zenon, <1>1, NoUid
  <2> QED
    BY Zenon, <1>1, <2>1, <2>2, SameDisturbed
<1>6. ASSUME NEW v \in Uids \ {b}
      PROVE  Phase(v)' = Phase(v)
  <2>1. v \in LiveUids => nameOf[v] \in Names \ {n}
    BY Zenon, <1>1, <1>2, LiveIs
  <2> QED
    BY Zenon, <1>1, <1>4, <1>5, <2>1, SamePhase
<1>7. CASE Disturbed(b)
  <2>1. Phase(b)' = Phase(b)
    BY Zenon, <1>1, <1>3, <1>4, <1>5, <1>7 DEF Phase
  <2> QED
    BY Zenon, <1>6, <2>1
<1>8. CASE ~Disturbed(b)
  <2>1. StateOK(cib[n].state, b)
    BY Zenon, <1>1, <1>2, <1>3 DEF BuildInv, StateInv
  <2>2. /\ starter[b] # 0 => starter[b] \in PodIds /\ Wrote(starter[b], b, Started \cup Ended)
        /\ finisher[b] # 0 => finisher[b] \in PodIds /\ Wrote(finisher[b], b, Ended)
    BY Zenon DEF BuildInv, WritersInv, TypeOK
  <2>3. b \in LiveUids' /\ b \in DOMAIN nameOf' /\ ~Disturbed(b)' /\ nameOf'[b] = n
    BY Zenon, <1>1, <1>3, <1>4, <1>5, <1>8
  <2>4. CASE pod[p].step = "building"
    <3>1. starter[b] = 0
      <4> SUFFICES ASSUME starter[b] # 0
                   PROVE  FALSE
        BY Zenon
      <4>1. /\ pod[starter[b]] # NoPod /\ pod[starter[b]].copy # NoCib
            /\ pod[starter[b]].copy.uid = b
            /\ pod[starter[b]].step # "building"
        BY Zenon, <2>2 DEF Wrote, Started, Ended, Exited
      <4>2. starter[b] = p
        BY Zenon, <1>1, <1>2, <1>8, <2>2, <4>1, OnePod, NoUid DEF BuildInv
      <4> QED
        BY Zenon, <2>4, <4>1, <4>2
    <3>2. cib[n].state = "" /\ cib'[n].state = "Building"
      BY Zenon, <1>1, <2>1, <2>4, <3>1, Transitions DEF StateOK
    <3>3. Phase(b) = "pending" /\ Phase(b)' = "building"
      BY Zenon, <1>3, <1>8, <2>3, <3>2 DEF Phase
    <3> QED
      BY <1>6, <3>3, PhaseMove DEF Lifecycle!Start
  <2>5. CASE pod[p].step \in {"complete", "fail"}
    <3>1. starter[b] = p
      BY Zenon, <1>2, <2>5, Histories DEF StatusStep
    <3>2. finisher[b] # p
      BY <2>2, <2>5 DEF Wrote, Ended, Exited, PodIds
    <3>3. cib[n].state = "Building"
      <4>1. p # 0
        BY DEF PodIds
      <4> QED
        BY Zenon, <2>1, <3>1, <3>2, <4>1 DEF StateOK
    <3>4. Phase(b) = "building"
      BY Zenon, <1>3, <1>8, <3>3 DEF Phase
    <3>5. CASE pod[p].step = "complete"
      <4>1. Phase(b)' = "completed"
        BY Zenon, <1>1, <2>3, <3>5, Transitions DEF Phase
      <4> QED
        BY <1>6, <3>4, <4>1, PhaseMove DEF Lifecycle!Complete
    <3>6. CASE pod[p].step = "fail"
      <4>1. Phase(b)' = "failed"
        BY Zenon, <1>1, <2>3, <3>6, Transitions DEF Phase
      <4> QED
        BY <1>6, <3>4, <4>1, PhaseMove DEF Lifecycle!Fail
    <3> QED
      BY Zenon, <2>5, <3>5, <3>6
  <2> QED
    BY Zenon, <1>1, <2>4, <2>5
<1> QED
  BY Zenon, <1>7, <1>8

(***************************************************************************)
(* The build job implements the life of a build: whatever pods are lost,   *)
(* names used again and calls fail, every CIB is taken up once, finished   *)
(* at most once and never changes its outcome, until it is deleted or      *)
(* disturbed.                                                              *)
(***************************************************************************)
THEOREM Refinement == Spec => ImplementsLifecycle
<1>1. Init => Lifecycle!Init
  BY DEF Init, ClusterInit, Lifecycle!Init, Phase
<1>2. IInv /\ [Next]_vars => [Lifecycle!Next]_([u \in Uids |-> Phase(u)])
  <2> SUFFICES ASSUME IInv, [Next]_vars
               PROVE  \/ Lifecycle!Next
                      \/ [u \in Uids |-> Phase(u)]' = [u \in Uids |-> Phase(u)]
    BY Zenon
  <2>1. BuildInv /\ BuildInv'
    BY Zenon, BuildStep DEF IInv
  <2>2. ASSUME NEW p \in PodIds, PodStep(p)
        PROVE  \/ Lifecycle!Next
               \/ [u \in Uids |-> Phase(u)]' = [u \in Uids |-> Phase(u)]
    BY Zenon, <2>1, <2>2, QuietLife, DisturbLife, StatusLife DEF PodStep, Lifecycle!Next
  <2>3. ASSUME NEW n \in Names, CibStep(n)
        PROVE  \/ Lifecycle!Next
               \/ [u \in Uids |-> Phase(u)]' = [u \in Uids |-> Phase(u)]
    BY Zenon, <2>1, <2>3, QuietLife, CreateLife, RemoveLife DEF CibStep, Lifecycle!Next
  <2>4. CASE UNCHANGED vars
    BY Zenon, <2>1, <2>4, QuietLife
  <2> QED
    BY Zenon, <2>1, <2>2, <2>3, <2>4, Steps
<1> QED
  BY <1>1, <1>2, Invariance, PTL DEF Spec, ImplementsLifecycle, Lifecycle!Spec
=============================================================================
