---------------------------- MODULE ImageBuilder ----------------------------
(***************************************************************************)
(* The embedded image builder (internal/builder/embedded): BuildAndPush,   *)
(* with the fetch of the context, the preparer plugins, the build, the     *)
(* size limit, and a tag and a push for every registry.  The configuration *)
(* of the registry hosts is the subject of AuthProvider.                   *)
(***************************************************************************)
EXTENDS ContextFetch, SolveStream, Sequences

CONSTANTS
  Options,  \* the options of a build: push, limit, plugins, request
  Names,    \* the registries; an image name in one of Unparsable is malformed
  Unparsable,
  Sizes     \* the sizes of an image

ASSUME BuilderAssumption ==
  /\ Unparsable \subseteq Names
  /\ Sizes \subseteq Nat \ {0}
  /\ Options \subseteq [push : Seq(Names), limit : Nat, plugins : Nat,
                        request : [caching : BOOLEAN, disableExport : BOOLEAN,
                                   mode : {"", "min", "max", "invalid"}, args : BOOLEAN]]

VARIABLES
  opts,   \* the options
  job,    \* BuildAndPush and build
  store,  \* the image store: the size of the image by each name, 0 for none
  pushed  \* the images the registries have been sent

vars == <<opts, job, store, pushed, fetch, stream>>

JobSteps ==
  {"start", "name", "fetch", "prepare", "session", "solve", "cleanup", "size", "tag", "push",
   "pushing", "pushed", "failed"}

TypeOK ==
  /\ FetchTypeOK
  /\ StreamTypeOK
  /\ opts \in Options
  /\ job.step \in JobSteps
  /\ job.idx \in 1..Len(opts.push) \cup {1}
  /\ job.plugin \in 0..opts.plugins
  /\ job.deferred \in 0..opts.plugins
  /\ job.size \in Sizes \cup {0}
  /\ store \in [Names -> Sizes \cup {0}]
  /\ pushed \in Seq([name : Names, image : Sizes])

Init ==
  /\ opts \in Options
  /\ job = [step |-> "start",
            idx |-> 1,            \* of the registry the loop is at
            plugin |-> 0,         \* what the loop variable preparerPlugin holds
            deferred |-> 0,       \* deferred calls to run
            size |-> 0,           \* imageSize
            err |-> FALSE,        \* what build is going to return
            prepared |-> {},      \* the plugins whose Prepare was called
            cleaned |-> <<>>]     \* the plugins whose Cleanup was called
  /\ store = [n \in Names |-> 0]
  /\ pushed = <<>>
  /\ \E timeout \in Timeouts, source \in Sources : fetch = NoFetch(timeout, source)
  /\ stream = NoStream

Goto(step) == job' = [job EXCEPT !.step = step]

Registry == opts.push[job.idx]

\* The first image; the others are tagged after it.
HeadImg == opts.push[1]

Start ==
  /\ job.step = "start"
  /\ Goto(IF opts.push = <<>> THEN "failed" ELSE "name")
  /\ UNCHANGED <<opts, store, pushed, fetch, stream>>

Name ==
  /\ job.step = "name"
  /\ Goto(IF Registry \in Unparsable THEN "failed" ELSE IF job.idx = 1 THEN "fetch" ELSE "tag")
  /\ UNCHANGED <<opts, store, pushed, fetch, stream>>

(***************************************************************************)
(* build                                                                   *)
(***************************************************************************)
Fetch ==
  /\ job.step = "fetch"
  /\ FetchAndExtract
  /\ UNCHANGED <<opts, job, store, pushed, stream>>

Fetched ==
  /\ job.step = "fetch"
  /\ fetch.step \in {"done", "error"}
  /\ Goto(IF fetch.step = "done" THEN "prepare" ELSE "failed")
  /\ fetch' = [fetch EXCEPT !.clock = 0]
  /\ UNCHANGED <<opts, store, pushed, stream>>

\* One round of the loop: defer the clean-up, then prepare.
Prepare ==
  /\ job.step = "prepare"
  /\ job.plugin < opts.plugins
  /\ \E fails \in BOOLEAN :
       job' = [job EXCEPT !.plugin = @ + 1, !.deferred = @ + 1, !.prepared = @ \cup {job.plugin + 1},
                          !.err = fails, !.step = IF fails THEN "cleanup" ELSE @]
  /\ UNCHANGED <<opts, store, pushed, fetch, stream>>

Prepared ==
  /\ job.step = "prepare"
  /\ job.plugin = opts.plugins
  /\ Goto("session")
  /\ UNCHANGED <<opts, store, pushed, fetch, stream>>

\* solveRequestWithContext: the cache mode matters if layers are exported.
RequestValid(r) == (r.caching /\ ~r.disableExport => r.mode # "invalid") /\ r.args

\* The session may fail to open, the request may be invalid.
Solve ==
  /\ job.step = "session"
  /\ \/ job' = [job EXCEPT !.step = "cleanup", !.err = TRUE] /\ UNCHANGED stream
     \/ RequestValid(opts.request) /\ Goto("solve") /\ stream' = BuildStream
  /\ UNCHANGED <<opts, store, pushed, fetch>>

RunStream ==
  /\ job.step \in {"solve", "pushing"}
  /\ Stream
  /\ UNCHANGED <<opts, job, store, pushed, fetch>>

\* The image of a failed build is not read by anyone.
Solved ==
  /\ job.step = "solve"
  /\ Waited
  /\ job' = [job EXCEPT !.step = "cleanup", !.err = stream.failed]
  /\ IF stream.failed THEN UNCHANGED store
     ELSE \E size \in Sizes : store' = [store EXCEPT ![HeadImg] = size]
  /\ stream' = NoStream
  /\ UNCHANGED <<opts, pushed, fetch>>

\* A deferred call cleans up the plugin that the loop variable holds by now.
Cleanup ==
  /\ job.step = "cleanup"
  /\ job.deferred > 0
  /\ job' = [job EXCEPT !.deferred = @ - 1, !.cleaned = Append(@, job.plugin)]
  /\ UNCHANGED <<opts, store, pushed, fetch, stream>>

BuildReturns ==
  /\ job.step = "cleanup"
  /\ job.deferred = 0
  /\ Goto(IF job.err THEN "failed" ELSE "size")
  /\ UNCHANGED <<opts, store, pushed, fetch, stream>>

(***************************************************************************)
(* validateImageSize, tag and push.  The image store may fail at any call. *)
(***************************************************************************)
ValidateImageSize ==
  /\ job.step = "size"
  /\ \/ (opts.limit > 0 => store[HeadImg] <= opts.limit)
        /\ job' = [job EXCEPT !.step = "push", !.size = store[HeadImg]]
     \/ Goto("failed")
  /\ UNCHANGED <<opts, store, pushed, fetch, stream>>

\* TagImage updates the image of that name, or creates it.
Tag ==
  /\ job.step = "tag"
  /\ \/ Goto("push") /\ store' = [store EXCEPT ![Registry] = store[HeadImg]]
     \/ Goto("failed") /\ UNCHANGED store
  /\ UNCHANGED <<opts, pushed, fetch, stream>>

Push ==
  /\ job.step = "push"
  /\ \/ Goto("pushing") /\ stream' = PushStream
     \/ Goto("failed") /\ UNCHANGED stream
  /\ UNCHANGED <<opts, store, pushed, fetch>>

\* Mutant of Pushed: the error of a push is dropped, and the loop goes on.
PushedUnchecked ==
  /\ job.step = "pushing"
  /\ Waited
  /\ stream' = NoStream
  /\ pushed' = IF stream.failed THEN pushed
               ELSE Append(pushed, [name |-> Registry, image |-> store[Registry]])
  /\ job' = IF job.idx = Len(opts.push) THEN [job EXCEPT !.step = "pushed"]
            ELSE [job EXCEPT !.step = "name", !.idx = @ + 1]
  /\ UNCHANGED <<opts, store, fetch>>

\* Mutant of Pushed: the loop goes one registry too far.
PushedPastTheEnd ==
  /\ job.step = "pushing"
  /\ Waited
  /\ stream' = NoStream
  /\ IF stream.failed THEN Goto("failed") /\ UNCHANGED pushed
     ELSE /\ pushed' = Append(pushed, [name |-> Registry, image |-> store[Registry]])
          /\ job' = [job EXCEPT !.step = "name", !.idx = @ + 1]
  /\ UNCHANGED <<opts, store, fetch>>

Pushed ==
  /\ job.step = "pushing"
  /\ Waited
  /\ stream' = NoStream
  /\ IF stream.failed THEN Goto("failed") /\ UNCHANGED pushed
     ELSE /\ pushed' = Append(pushed, [name |-> Registry, image |-> store[Registry]])
          /\ job' = IF job.idx = Len(opts.push) THEN [job EXCEPT !.step = "pushed"]
                    ELSE [job EXCEPT !.step = "name", !.idx = @ + 1]
  /\ UNCHANGED <<opts, store, fetch>>

BuildAndPush ==
  \/ Start
  \/ Name
  \/ Fetch
  \/ Fetched
  \/ Prepare
  \/ Prepared
  \/ Solve
  \/ Solved
  \/ Cleanup
  \/ BuildReturns
  \/ ValidateImageSize
  \/ Tag
  \/ Push
  \/ Pushed

Next == BuildAndPush \/ RunStream

\* Buildkit, the registries and the server of the context answer in the end,
\* and every goroutine that can take a step takes it.
StreamStep(A) == job.step \in {"solve", "pushing"} /\ A /\ UNCHANGED <<opts, job, store, pushed, fetch>>

Fairness ==
  /\ WF_vars(BuildAndPush)
  /\ WF_vars(StreamStep(SessionRuns \/ SessionServes \/ SessionEnds))
  /\ WF_vars(StreamStep(CreateController \/ SolveReturns \/ PushReturns \/ Close \/ CloseReturns))
  /\ WF_vars(StreamStep(SolverRegisters \/ SolverReturns))
  /\ WF_vars(StreamStep(StatusOpens \/ Send \/ StatusReturns))
  /\ WF_vars(StreamStep(Convert \/ ConvertEnds))
  /\ WF_vars(StreamStep(DisplayEnds))

Spec == Init /\ [][Next]_vars /\ Fairness

-----------------------------------------------------------------------------
(***************************************************************************)
(* Properties                                                              *)
(***************************************************************************)

(***************************************************************************)
(* No image is built from half a context, however the download ended,      *)
(* except from a bare tar sent with no length, which cannot be told from a *)
(* shorter one.                                                            *)
(***************************************************************************)
BuiltFromWholeContext ==
  job.step \notin {"start", "name", "fetch", "failed"} =>
    fetch.contents = "whole" \/ (fetch.source.kind = "tar" /\ ~fetch.source.sized)

(***************************************************************************)
(* The fetch ends: after five attempts, with 31 seconds of sleep and their *)
(* jitter; and with a timeout, before another attempt and another sleep    *)
(* have gone by after it.                                                  *)
(***************************************************************************)
FetchOverdueBounded ==
  LET sleep(s) == (s * Second * 11) \div 10
  IN /\ fetch.clock <= 5 * Max(AttemptTimes) + sleep(31)
     /\ fetch.timeout > 0 => fetch.clock <= fetch.timeout + Max(AttemptTimes) + sleep(16)

(***************************************************************************)
(* When the build is over, all that buildkit reported of it has been       *)
(* shown, whether it succeeded, failed or was cut off.                     *)
(***************************************************************************)
EveryUpdateShown ==
  Waited => stream.shown = stream.sent

(***************************************************************************)
(* "Cleanup runs after the build has finished (successfully or             *)
(* otherwise)": for every plugin that was prepared.                        *)
(***************************************************************************)
EveryPluginCleanedUp ==
  job.step \in {"size", "push", "pushed", "failed"} =>
    \A p \in job.prepared : \E i \in DOMAIN job.cleaned : job.cleaned[i] = p

Abstract ==
  INSTANCE AbstractBuilder WITH
    registries <- opts.push,
    limit <- opts.limit,
    image <- job.size,
    pushed <- pushed,
    outcome <- IF job.step \in {"pushed", "failed"} THEN job.step ELSE "working"

(***************************************************************************)
(* BuildAndPush keeps its promise: every registry gets the image that was  *)
(* built and measured, in their order, and nothing is pushed past a limit  *)
(* or after an error.                                                      *)
(***************************************************************************)
ImplementsBuilder == Abstract!Spec

(***************************************************************************)
(* BuildAndPush returns: the session, the solver, its status stream and    *)
(* the display never wait for each other for good, whichever fails first   *)
(* and wherever Close meets Run.  There is one exception: a push that ends *)
(* well before the goroutine of Run has started leaves a session that      *)
(* nobody closes, and waits for it for ever.                               *)
(***************************************************************************)
BuildAndPushReturns ==
  \/ <>(job.step \in {"pushed", "failed"})
  \/ <>[](job.step = "pushing" /\ ServesUnclosed)
=============================================================================
