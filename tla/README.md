# A TLA+ verification of Forge

Forge is a Kubernetes controller that builds container images. A user creates a
`ContainerImageBuild` (CIB) resource; the controller makes a service account, a
role, a role binding, if asked for a Secret with cloud credentials, and a Job.
The pod of the Job runs `forge build`: it builds the image with an embedded
buildkit, pushes it, writes the outcome to the status of the CIB and publishes
status messages to an AMQP queue. Finished CIBs are deleted by the controller's
own garbage collection. This directory holds TLA+ models of these parts, TLC
configurations that check them on small instances, and TLAPS proofs.

## The system

| part | state | operations | code |
|------|-------|------------|------|
| CIB and cluster | CIBs, owned resources, informer caches | create, edit, delete (background or foreground), collect, watch events | `api/forge/v1alpha1`, Kubernetes |
| reconcile loop | work queue, reconcile in progress, shared `JobConfig.DynamicVolumes` | `Reconcile`, `checkPrerequisites`, `createJobForBuild` | `controllers/containerimagebuild_*.go` |
| build GC | the list a sweep works from | `RunGC`, ticker | `controllers/containerimagebuild_controller.go`, `start.go` |
| build job | a process per pod with a copy of the CIB | `New`, `Run`, transitions, `updateStatus`, SIGTERM | `cmd/build.go`, `internal/buildjob` |
| image builder | registries pushed to, plugins | `BuildAndPush`, `build`, `tag`, `push` | `internal/builder/embedded` |
| registry configuration | credentials per host | `buildRegistryConfigs` | `internal/buildjob`, `internal/credentials` |
| publisher | connection, channel, error signal, watcher goroutine | `Push`, `connect`, `Close` | `internal/message/amqp` |
| context fetch | attempts, deadline | `FetchAndExtract` | `internal/archive` |
| sessions | hosts of the client, seeds | `Session`, the auth provider, `Solve`, `PushImage` | `internal/builder/embedded/bkimage` |
| cloud credentials | loaders, the Secret of a build | `Register`, `RetrieveAuthorization`, `checkCloudRegistrySecrets` | `internal/cloud`, `controllers` |
| startup | the CRD, the pods of the controller | `Apply`, `Delete`, flags, `StartManager` | `internal/crd`, `cmd`, `controllers/start.go` |

How they interact: the controller and the pods never talk to each other, only
through CIBs and Jobs. The controller acts on a CIB with an empty status and
leaves it alone afterwards; it does not watch Jobs or pods. The pod finds its
CIB by name. Every replica of the controller runs `RunGC`, from its own cache.
Inside a pod the build job calls the registry configuration, then the image
builder, and the publisher before and after it. Credentials of clouds take the
way from the controller through a Secret to the job.

What makes it hard: caches that lag behind the API server, resources found by
name whatever they belong to, one list of volumes shared by all reconciles,
calls that fail or whose answer is lost half-way through a sequence, pods that
die at any point or are replaced while they still run, names that are used
again; within a process, goroutines that share a connection or wait for each
other on unbuffered channels, and deferred calls that run on every way out. `PROJECT.json` lists the hazards with the lines where they bite.

What correctness means here: a Job gets exactly the credentials of its build and
all the resources it needs; a build gets one Job; GC deletes finished builds
only, oldest first, and never the newest N; the status is true (Completed means
pushed everywhere, and the outcome is the one of the latest start); messages
agree with the status; builds end, and what is deleted leaves nothing behind.
An image is built from a whole context and is the same for all registries; a
registry is shown the credentials the CIB gives it and no others; nothing waits
for ever as long as the services outside answer.

## Modules

| module | models |
|--------|--------|
| `Cluster` | the shared Kubernetes objects and what users, API server, informers and the garbage collector do to them |
| `Reconciler` | `Reconcile` of the leading replica, extends `Cluster` |
| `RunGC` | `RunGC` in every replica, extends `Cluster` |
| `BuildJob` | the pods of Jobs, extends `Cluster` |
| `BuildLifecycle` | abstract: what a CIB promises whoever watches it; implemented by `BuildJob` |
| `Publisher` | the AMQP publisher with the goroutines of a build job's process |
| `CloudAuth` | the registries section of a CIB, the cloud loaders and the Secret |
| `RegistryConfigs` | `buildRegistryConfigs` in the job, extends `CloudAuth` |
| `AuthProvider` | sessions and their handlers; composes the two before it into the whole way of credentials |
| `ContextFetch` | `FetchAndExtract` |
| `SolveStream` | the goroutines of a build or a push |
| `ImageBuilder` | `BuildAndPush`, composed with the two before it |
| `AbstractBuilder` | abstract: what `BuildAndPush` promises; implemented by `ImageBuilder` |
| `Startup` | CRD installation and start of the controller's replicas |
| `MCReconciler`, `MCRunGC`, `MCBuildJob`, `MCAuthProvider`, `MCImageBuilder`, `MCStartup` | instances for TLC |
| `ClusterProofs` | lemmas about the cluster that the next three share |
| `ReconcilerProofs`, `RunGCProofs`, `BuildJobProofs`, `PublisherProofs`, `AuthProviderProofs`, `ImageBuilderProofs`, `StartupProofs` | proofs about the module they are named after |

`Cluster`. `cib[n]` is the CIB named `n`, or `NoCib`. One incarnation is
identified by its `uid`, counted in creation order; `nameOf` remembers the name
of each. `created` is the creationTimestamp, which advances by a member of
`StampSteps` (0 for two creations in the same second). `ver` is the
resourceVersion. `owner[k][n]` is the uid in the controller reference of the
resource of kind `k` named after `n`, or 0. `cibCache[r]` is the informer cache
of replica `r`; an event brings one entry up to date at once, so a cache may lag
by any amount, but it does not catch up in small steps. Left out is a cache that
is read twice, shows an older and then a newer version, and is behind both times.

`Reconciler`. `worker` is the reconcile in progress (controller-runtime runs one
at a time) with the step it is at; every `check...` of `checkPrerequisites` and
`createJobForBuild` is one action. A `Get` from the cache and the `Create` after
it are one step, since the cache is arbitrarily old anyway. `StepFails` is any
error return: the name is queued again, and if the step was `createJobForBuild`
its deferred function empties the volumes. `CreateUnanswered` is a create that
is carried out but reported as an error. `ControllerRestarts` is a new process,
or a new leader, with fresh caches. `Prerequisites` is a constant so that one
kind can stand for three that are treated alike.

`RunGC`. `sweep[r]` is what the call in progress on replica `r` still has to
delete. Listing, filtering and sorting are one step, every deletion is one more.
`SortedBuilds` is every order that an unstable sort by creationTimestamp may
leave. `everFinished` and `collected` are history variables.

`BuildJob`. `pod[p].step` is where the process is, `copy` its copy of the CIB.
`updateStatus` is two steps: the write, which needs the current resourceVersion,
and the message. `SetState` and `Answered` model what happens to the previous
state: it is kept in memory and not in the answer of the API server. `faults`,
one of `FaultSets`, says what may go wrong in a behaviour. `starter`, `finisher`
and `pushed` are history. A build is `Disturbed` when one of its pods was lost,
or a pod of an earlier CIB of the same name works on it.

`Publisher`. `pconn` and `channel` are the fields `p.conn` and `p.channel`, and
`watcher[c]` is the goroutine that `connect` starts for connection `c`; it offers
an error on the unbuffered `p.err`, which `Push` takes only if the watcher is
`offering` at that moment. A connection is `broken` before the library notices
(writes are lost) and `dead` afterwards. `stopper` is the goroutine that waits
for SIGTERM; its `Close` is two steps, since `connect` may write `p.conn` between.

`CloudAuth`, `RegistryConfigs`, `AuthProvider`. An entry of the section is a
server, the `BasicAuth` fields that are set, and its flags. Credentials are
identified by where they come from. `auth` is the controller in
`checkCloudRegistrySecrets`, one action per call of a loader; `mounted` is the
Secret, which is kept when it is there already; `job` and `configs` are
`buildRegistryConfigs`, one action per case of its switch. `Expected` says
without a loop which credentials a host should have. `session` has the seeds of
the current provider, `request[r]` is a handler that runs concurrently with the
others. Hosts are looked up at the time of the request, as the code does.

`ContextFetch`. `clock` counts tenths of a second of the attempts and sleeps;
`Step` is the back-off of the library, in which exceeding the cap also ends the
steps. `SolveStream`. One field per goroutine; a send on an unbuffered channel
and its receive are one step. `ImageBuilder`. `job.step` follows `BuildAndPush`
and `build`; `job.plugin` is what the loop variable `preparerPlugin` holds, which
all deferred functions share; `store` is the image store. The order of these
sequential steps is exactly the code's; only the streams interleave.

`Startup`. A replica's pod runs `crd-apply` until it succeeds (`get`, `create` or
`update`), then the controller. The write of the CRD carries the resourceVersion
that was read. An exit restarts the container and not the init container.

## Runs

| run | instance | checks |
|-----|----------|--------|
| `reconciler_safety` | two names, one of them with quantities that do not parse, both with dynamic credentials, both deletion policies | `JobMountsItsCredentials`, `LiveJobHasPrerequisites` |
| `reconciler_live` | one name used twice, without dynamic credentials, both deletion policies, with fairness | `EveryBuildGetsItsJob`, `DeletedBuildLeavesNothing`, `DeletionEnds`, `NothingComesBack` |
| `reconciler_recreate` | one name used twice | violates `LiveJobHasPrerequisites` |
| `rungc_retention` | three builds, two replicas, retention 1, distinct creation times | `OnlyFinishedCollected`, `NewestKept` |
| `rungc_live` | two builds, two replicas, equal creation times possible | `Converges` |
| `buildjob_faults` | one name used twice, two pods, five fault sets, both deletion policies, with fairness | `CompletedIsPushed`, `OutcomeOfLatestStart`, `OutcomeMessagesAreTrue`, `OutcomeMessageIsLast`, `SuccessIsReported`, `ImplementsLifecycle`, `EveryBuildFinishes` |
| `buildjob_previous` | nothing fails | violates `MessagesTellPreviousState` |
| `publisher` | two messages, three connections, SIGTERM, with fairness | `WatcherWatchesItsConnection`, `NoConnectionLeaks`, `NilChannelNeverUsed`, `LostOnlyWithItsConnection`, `NothingAfterAFailure`, `CallsReturn` |
| `credentials` | sections of up to three entries that collide in every way, two sessions, two handlers | `PrecedenceKept`, `RegistriesSeeTheirCredentials`, `DynamicEntriesAreMounted`, `AuthorityKeysAgree` |
| `builder` | up to two registries and two plugins, two updates, with fairness | `BuiltFromWholeContext`, `FetchOverdueBounded`, `EveryUpdateShown`, `ImplementsBuilder`, `BuildAndPushReturns` |
| `builder_cleanup` | the same instance | violates `EveryPluginCleanedUp` |
| `startup` | two replicas of one release, three faults, one deletion of the CRD, with fairness | `CrdInPlace`, `RunsWithItsLoaders`, `EveryReplicaStarts` |

What the violations show:

- `reconciler_recreate`: `withOwnedResource` takes any resource of the right name
  for the one it needs. When a CIB is deleted and created again, the resources of
  the old one count as present and are then collected, and the new Job runs
  without them.
- `buildjob_previous`: the previous state is read from the answer of the API
  server, which does not have it.
- `builder_cleanup`: the deferred clean-ups of the plugins share a loop variable
  and all call the last plugin.

Limits of the properties that hold, each seen in a model before it was excluded:

- With equal creation times `NewestKept` fails: two sweeps may order two
  builds differently, and a build that is being deleted is still listed.
- With a name used again between a listing and its deletions
  `OnlyFinishedCollected` fails: the deletion has no precondition on the uid.
- When the broker refuses a message, Run ends after the status was written and
  the status stays Building; `EveryBuildFinishes` leaves broker failures out.
- A `Push` right after the loss of a connection may use the dead channel, and
  fails, instead of reconnecting.
- The deadline of a fetch is looked at between attempts only; a context may be
  used after its timeout. `FetchOverdueBounded` says by how much at most.
- A CIB that is edited after its Secret was made may ask for credentials that are
  not mounted; its job then fails, and `DynamicEntriesAreMounted` leaves it out.
- Reconcile does not heed a deletion. `DeletionEnds` speaks of a CIB that has a
  status: without one every reconcile makes the resources anew, which a foreground
  deletion has to wait for. `LiveJobHasPrerequisites` speaks of CIBs that are not
  being deleted.
- A message may be lost though `Push` succeeded, since nothing confirms it; and a
  pod that was replaced may start a completed build anew. `SuccessIsReported`
  promises the message with a broker that does not fail, and the status until
  another pod starts.
- A push that ends well before the goroutine of its session has started closes
  nothing, and `BuildAndPush` waits for that session for ever. `Close` at any later
  moment ends it. `BuildAndPushReturns` makes this one exception (`ServesUnclosed`).
- The status stream is cut off three seconds after the solve: a solved build may
  fail for a slow display. `EveryUpdateShown` speaks of updates that were sent.
- When a session is closed its handlers that still run are dropped.
- ECR whose configuration does not load, and GCR with the credentials of the
  machine when the metadata server does not answer, are left out without an
  error. `RunsWithItsLoaders` speaks of ACR and of GCR with a file.

Why the bounds are enough: a leak between builds takes two builds; a race of
sweeps two replicas, and retention 1 of three builds lets each sweep delete two;
a pod that is replaced takes two pods, an edit that conflicts one edit, a partly
pushed image two registries; reuse of a name two incarnations. Symmetry is used
in `rungc_retention` only, for safety properties.

The fault sets of `buildjob_faults` are the failures of the build with a
foreground deletion, one with every fault but a lost pod, and three that combine a
lost pod with a killed process and failures of the API server, with the broker,
and with an edit. A set with "broker" includes messages lost unnoticed.
`RetryLimit` is the code's 5; three connections let a second loss follow a reconnection. Three entries of a
section are the fewest in which a host is in two Secrets and named as well, in
any order. A fetch of attempts of 0.1 or 2 seconds meets its 5 second timeout
before, during and after a sleep, and without one runs into the cap of the
back-off. Two registries show a push that fails after one that succeeded, and a
repeated registry one that is tagged onto itself. Three faults exhaust the
attempts of ACR, or disturb both replicas.

For a `Disturbed` build the life of a build is not the abstract one: the second
pod takes it up a second time, and may do so after the first has finished. This
is what the Job controller makes possible; `CompletedIsPushed` and
`OutcomeOfLatestStart` hold even then.

Deadlock checking is off where the system really stops: when all pods have ended
and all CIBs are used up (`BuildJob`), when the process has ended (`Publisher`),
when `BuildAndPush` has returned (`ImageBuilder`), when the bounds of sessions
and requests are reached (`AuthProvider`), and when every replica runs or is
misconfigured and nothing more goes wrong (`Startup`).

## Fairness

- The worker runs when there is work and takes every queued name in turn
  (the work queue is first in, first out); a step that is repeated succeeds in
  the end (strong fairness: `StepFails` puts the name back into the queue, so the
  step is enabled again and again but not continuously).
- Watch events arrive, and the informer delivers every cached CIB again at its
  resync period (ten hours by default, which `StartManager` does not change). A
  CIB created again under the same name needs it: its reconcile may have found
  the Job of the old one, and nothing else wakes the controller up afterwards.
- The ticker goes on calling `RunGC`; a deletion that is tried in every round
  succeeds in the end. The garbage collector works.
- For `EveryBuildFinishes`: processes run and Jobs and pods get started and
  collected. No fairness is assumed of users.
- For `CallsReturn`: goroutines run, a dial ends, the broker answers on a
  connection that works, and the library notices a loss (heartbeats).
- For `BuildAndPushReturns`: buildkit, the registries and the server of the
  context answer in the end, and every goroutine that can take a step takes it;
  no goroutine is assumed to be faster than another.
- For `EveryReplicaStarts`: kubelet restarts what has ended; faults are finite in
  number, conflicts are not.

## Proofs

TLAPS proves, for every value of the constants that meets the named assumptions,
all the safety invariants that the runs check, the action property
`NothingComesBack` and both refinements. Each proof module has one inductive
invariant `IInv` (`ReconcilerProofs` a second one, `OwnInv`), a lemma that `Init`
implies it, one lemma or step per action that the action keeps it, `Invariance`
(`Spec => []IInv`), and a theorem per property that follows from it. TLC checked
each invariant on the instance of the run before it was proved. `ClusterProofs`
has what the steps of the cluster do to types, names and uids.

| theorem | property | under |
|---------|----------|-------|
| `ReconcilerProofs`: `CredentialsSafe` | `JobMountsItsCredentials` | |
| `PrerequisitesSafe` | `LiveJobHasPrerequisites` | `NoReuse` |
| `OverSafe` | `NothingComesBack` | |
| `RunGCProofs`: `FinishedSafe` | `OnlyFinishedCollected` | `NoReuse` |
| `RetentionSafe` | `NewestKept` | `NoReuse`, `DistinctStamps` |
| `BuildJobProofs`: `CompletedSafe`, `OutcomeSafe` | `CompletedIsPushed`, `OutcomeOfLatestStart` | |
| `MessagesSafe`, `OrderSafe`, `SuccessSafe` | `OutcomeMessagesAreTrue`, `OutcomeMessageIsLast`, `SuccessIsReported` | |
| `Refinement` | `ImplementsLifecycle` | |
| `PublisherProofs`: `WatchersSafe`, `ConnectionsSafe`, `ChannelSafe` | `WatcherWatchesItsConnection`, `NoConnectionLeaks`, `NilChannelNeverUsed` | |
| `DeliverySafe`, `OrderSafe` | `LostOnlyWithItsConnection`, `NothingAfterAFailure` | |
| `AuthProviderProofs`: `PrecedenceSafe`, `CredentialsSafe` | `PrecedenceKept`, `RegistriesSeeTheirCredentials` | |
| `MountSafe`, `KeysSafe` | `DynamicEntriesAreMounted`, `AuthorityKeysAgree` | |
| `ImageBuilderProofs`: `ContextSafe`, `UpdatesShown` | `BuiltFromWholeContext`, `EveryUpdateShown` | |
| `FetchInTime` | `FetchOverdueBounded` | `BoundedAttempts` |
| `Refinement` | `ImplementsBuilder` | |
| `StartupProofs`: `CrdSafe`, `LoadersSafe` | `CrdInPlace`, `RunsWithItsLoaders` | |

All but `StartupProofs`, whose `IInv` includes it, also have `TypeCorrect`
(`Spec => []TypeOK`).

The hypotheses. `NoReuse` (no name is used for a second CIB) and `DistinctStamps`
(no two CIBs are created in the same second) are needed: `reconciler_recreate`
and the limits listed under Runs are counterexamples without them. The instances
of `reconciler_safety` and `rungc_retention` satisfy them. `BoundedAttempts` says
that some attempt is the longest, which any finite set of durations does; the
bound is stated in terms of it.

The inductive invariants, and why the properties need them:

- `Reconciler`, credentials. A Job mounts whatever is in the shared list.
  `VolumesInv`: the list is empty, except that it has exactly the credentials of
  the build in progress when the next step is `createJobForBuild`. It holds
  because `checkCloudRegistrySecrets` adds its volume only when it succeeds, as
  the last thing before `createJobForBuild`, whose deferred function runs on
  every return.
- `Reconciler`, prerequisites. The loop only looks at caches. `UidInv`: every uid
  in the cluster, in a cache or in the worker was given out with the name it is
  kept under. `LiveInv`: for a live CIB a cache never shows a resource that is
  gone, since the garbage collector leaves what a live CIB owns alone; and the
  steps that a reconcile has behind it have left their resources.
- `Reconciler`, deleted builds. `Origins` says of every step where the uids that
  it leaves in the worker, the cache and the owner references come from: from each
  other, from the cluster, or never given out before. A uid that is in none of
  these places is in none of them after the step.
- `RunGC`. `RecordInv`: a record of a CIB, however old, has the right uid and
  says finished only of a build that has finished. `StampInv`: creation times are
  in the order of the uids. `SweepInv`, `SweepCount`: what a sweep has listed had
  `Retention` newer finished builds at that time, deleted since or not.
  `OneMoreDeleted` is the argument that this is enough although other sweeps
  delete meanwhile: the newest of all deleted builds has `Retention` newer ones,
  none of which is deleted.
- `BuildJob`. `VersionInv`: no copy is newer than the CIB, and a pod that has
  written Building and still has the current version is the last that wrote it;
  with `WritersInv` and `StateInv` this makes the outcome that of the latest
  start, since a pod that was overtaken has an old version. `PairInv`: of two pods
  of a Job one has been lost. `NewsInv` relates the messages to the pods that
  sent them; its part `DoneInv` says that the CIB of a pod past its last status
  write still says Completed while that pod is the one that started it last, since
  every other writer of that status starts it first. `Refinement` maps a CIB to its phase, `gone` once it is disturbed,
  and goes through the steps by what they change.
- `Publisher`. `ConnInv`: a connection that is not over, and a watcher that has
  not ended, belong to `p.conn`, and there is neither when `connect` dials, the
  only time that `p.conn` is written. `MessageInv`: which calls of `Push` have
  written, by where the process is.
- `AuthProvider`. `MountInv` and `LoopInv` are the invariants of the two loops
  over the section: what the entries before the current one say about a host.
  `PrecedenceKept` compares the end of the loop with `Expected`, which has no
  loop; the proof shows that "the last that names it" and "the first Secret that
  contains it" are what the loop keeps at every entry. `RequestInv`: a handler
  runs while the hosts are configured. `SeedInv`: no two hosts share a seed, and
  a key is made from the seed of its host.
- `ImageBuilder`. `RoundInv` and `TimeInv` give the back-off of each of the five
  rounds and bound the clock by the round. `StreamInv`: an update that is not
  shown yet is with the sender or the converter, and the goroutines end in the
  order of their channels. `StageInv` says what is in the store and how many
  registries are served at each step; the refinement needs it to show that all
  registries get the one image that was built.
- `Startup`. `ControllerInv`: a controller has the loaders of the clouds whose
  turn is over, if it was given credentials of its own for them; an error starts
  it over without loaders.
  `CrdInPlace` is inductive together with the types.

The assumptions on constants are the `ASSUME`s of the modules: sizes are natural
numbers, sets are of the right kind, sections are sequences of entries
(`SectionsAssumption`), and no Secret has the name of one of the words by which
the model tells other sources of credentials apart (`SourcesAssumption`, about
the model and not about the code: Secrets may be renamed at will).

Only model-checked are the liveness properties, `EveryBuildGetsItsJob`,
`DeletedBuildLeavesNothing`, `DeletionEnds`, `Converges`, `EveryBuildFinishes`, `CallsReturn`,
`BuildAndPushReturns` and `EveryReplicaStarts`: TLAPS does neither fairness nor
ENABLED. They are shown for the instances of the runs only.

## Not modelled

The contents of the created objects, apart from owners, dynamic volumes and mounted
credentials; the command line of the job; metrics, logs and events; flags, except
that the broker's are valid or not; the answers of cloud providers, beyond success and failure; what
buildkit and containerd do inside a call, and the wiring of their stores and
workers; the members of archives; the processes behind plugins; generated
clients. These are I/O or configuration, without a protocol of their own in this
repository. A negative `gc-max-keep` (the slice in `RunGC` would panic) is
excluded by assumption. `timeoutSeconds` is read nowhere. Replicas of two
releases at once are not instantiated: the last `crd-apply` wins. A build job
whose CIB is edited while `buildRegistryConfigs` runs needs no model: it works on
its own copy.

## Plan

1. `Forge`: reconcile loop, `RunGC` and build jobs over one cluster.
2. Action properties of the proved components, from the invariants at hand: what
   no step of a pod does to a build that has finished, and what no sweep does to
   a build of a later listing.
