----------------------------- MODULE SolveStream -----------------------------
(***************************************************************************)
(* The goroutines behind a build or a push of the embedded driver: one     *)
(* serves the session, one makes the call (Solve, PushImage) and closes    *)
(* the session after it, and, for a build, one shows the progress.  Solve  *)
(* runs buildkit's solver and its status stream side by side; the updates  *)
(* pass through an unbuffered channel to a converter, and from there       *)
(* through another one to the display.                                     *)
(***************************************************************************)
EXTENDS Integers

CONSTANT MaxUpdates  \* bound: status updates of a build

ASSUME StreamAssumption == MaxUpdates \in Nat

VARIABLE stream

StreamTypeOK ==
  stream \in [sess : {"off", "starting", "dialing", "serving", "done"},
              call : {"off", "controller", "solving", "pushing", "closing", "waiting", "done"},
              failed : BOOLEAN,
              solver : {"off", "run", "job", "ok", "failed", "rejected"},
              status : {"off", "wait", "open", "sending", "done", "failed"},
              conv : {"off", "recv", "hold", "done"},
              display : {"off", "recv", "done"},
              sent : 0..MaxUpdates, shown : 0..MaxUpdates]

NoStream ==
  [sess |-> "off", call |-> "off", failed |-> FALSE, solver |-> "off", status |-> "off",
   conv |-> "off", display |-> "off", sent |-> 0, shown |-> 0]

BuildStream ==
  [NoStream EXCEPT !.sess = "starting", !.call = "controller", !.conv = "recv", !.display = "recv"]

PushStream == [NoStream EXCEPT !.sess = "starting", !.call = "pushing"]

\* The context of the errgroup: only the call can return an error.
Cancelled == stream.call = "done" /\ stream.failed

ChannelClosed == stream.call \in {"closing", "waiting", "done"}

\* eg.Wait returns.
Waited ==
  stream.sess = "done" /\ stream.call = "done" /\ stream.display \in {"off", "done"}

(***************************************************************************)
(* The session, of buildkit.  Run sets s.done, dials, sets s.conn and      *)
(* serves.  Close does nothing before s.done is set, and then waits for    *)
(* Run to end.  If it comes before s.conn is set it closes no connection,  *)
(* but it stops the gRPC server: the health check of the other side fails, *)
(* and hangs up.                                                           *)
(***************************************************************************)
SessionRuns ==
  /\ stream.sess = "starting"
  /\ stream' = [stream EXCEPT !.sess = "dialing"]

SessionServes ==
  /\ stream.sess = "dialing"
  /\ stream' = [stream EXCEPT !.sess = "serving"]

SessionEnds ==
  /\ stream.sess = "serving"
  /\ stream.call = "waiting" \/ Cancelled
  /\ stream' = [stream EXCEPT !.sess = "done"]

Close ==
  /\ stream.call = "closing"
  /\ stream' = [stream EXCEPT !.call = IF stream.sess = "starting" THEN "done" ELSE "waiting"]

CloseReturns ==
  /\ stream.call = "waiting"
  /\ stream.sess = "done"
  /\ stream' = [stream EXCEPT !.call = "done"]

\* Close came before Run, and there was no error to cancel the context of Run.
ServesUnclosed ==
  stream.sess = "serving" /\ stream.call = "done" /\ ~stream.failed

(***************************************************************************)
(* Solve: the controller is created for the first build, then both         *)
(* goroutines are waited for and the channel of the updates is closed.     *)
(***************************************************************************)
CreateController ==
  /\ stream.call = "controller"
  /\ \/ stream' = [stream EXCEPT !.call = "solving", !.solver = "run", !.status = "wait"]
     \/ stream' = [stream EXCEPT !.call = "closing", !.failed = TRUE]

SolverEnded == stream.solver \in {"ok", "failed", "rejected"}

\* Mutant of SolveReturns: the status stream is not waited for.
SolveReturnsEarly ==
  /\ stream.call = "solving"
  /\ SolverEnded
  /\ stream' = [stream EXCEPT !.call = "closing", !.failed = stream.solver # "ok"]

SolveReturns ==
  /\ stream.call = "solving"
  /\ SolverEnded
  /\ stream.status \in {"done", "failed"}
  /\ stream' = [stream EXCEPT !.call = "closing",
                              !.failed = stream.solver # "ok" \/ stream.status = "failed"]

\* The solver registers its job before it solves anything.
SolverRegisters ==
  /\ stream.solver = "run"
  /\ stream' = [stream EXCEPT !.solver = "job"]

\* It reads the context through the session; an error of the status cancels it.
SolverReturns ==
  \/ /\ stream.solver = "job"
     /\ stream.sess = "serving"
     /\ stream.status # "failed"
     /\ stream' = [stream EXCEPT !.solver = "ok"]
  \/ /\ stream.solver \in {"run", "job"}
     /\ stream' = [stream EXCEPT !.solver = IF @ = "job" THEN "failed" ELSE "rejected"]

\* Status waits a while for the job to be registered.
StatusOpens ==
  /\ stream.status = "wait"
  /\ stream' = [stream EXCEPT !.status = IF stream.solver \in {"run", "rejected"} THEN "failed"
                                         ELSE "open"]

StatusUpdates ==
  /\ stream.status = "open"
  /\ stream.sent < MaxUpdates
  /\ stream' = [stream EXCEPT !.status = "sending", !.sent = @ + 1]

\* controlStatusServer.Send heeds no context.
Send ==
  /\ stream.status = "sending"
  /\ stream.conv = "recv"
  /\ stream' = [stream EXCEPT !.status = "open", !.conv = "hold"]

\* At the end of the job; or cut off, three seconds after the solver returned.
StatusReturns ==
  /\ stream.status = "open"
  /\ SolverEnded
  /\ \E end \in {"done", "failed"} : stream' = [stream EXCEPT !.status = end]

(***************************************************************************)
(* displayProgress: the display ends when the converter has closed its     *)
(* channel, whatever has happened to the build.                            *)
(***************************************************************************)
Convert ==
  /\ stream.conv = "hold"
  /\ stream.display = "recv"
  /\ stream' = [stream EXCEPT !.conv = "recv", !.shown = @ + 1]

ConvertEnds ==
  /\ stream.conv = "recv"
  /\ ChannelClosed
  /\ stream' = [stream EXCEPT !.conv = "done"]

\* Mutant of DisplayEnds: the display gives up when the solver has failed.
DisplayEndsOnError ==
  /\ stream.display = "recv"
  /\ stream.conv = "done" \/ stream.solver = "failed"
  /\ stream' = [stream EXCEPT !.display = "done"]

DisplayEnds ==
  /\ stream.display = "recv"
  /\ stream.conv = "done"
  /\ stream' = [stream EXCEPT !.display = "done"]

(***************************************************************************)
(* PushImage.  It needs the session only if a registry asks for a token:   *)
(* it may be over before Run has started.                                  *)
(***************************************************************************)
PushReturns ==
  /\ stream.call = "pushing"
  /\ \E failed \in BOOLEAN : stream' = [stream EXCEPT !.call = "closing", !.failed = failed]

Stream ==
  \/ SessionRuns
  \/ SessionServes
  \/ SessionEnds
  \/ Close
  \/ CloseReturns
  \/ CreateController
  \/ SolveReturns
  \/ SolverRegisters
  \/ SolverReturns
  \/ StatusOpens
  \/ StatusUpdates
  \/ Send
  \/ StatusReturns
  \/ Convert
  \/ ConvertEnds
  \/ DisplayEnds
  \/ PushReturns
=============================================================================
