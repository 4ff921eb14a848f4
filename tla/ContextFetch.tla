---------------------------- MODULE ContextFetch ----------------------------
(***************************************************************************)
(* FetchAndExtract (internal/archive/extract.go): download the archive of  *)
(* the build context, again after a transient error, and extract it.  Time *)
(* is counted in tenths of a second, and passes while an attempt is made   *)
(* and while the back-off sleeps.                                          *)
(***************************************************************************)
EXTENDS Integers, FiniteSetsExt

CONSTANTS
  Timeouts,      \* the timeouts of a context, 0 for none
  AttemptTimes,  \* the durations of an attempt to download
  Sources        \* what the server has, and whether it announces the length

ASSUME FetchAssumption ==
  /\ Timeouts \subseteq Nat
  /\ AttemptTimes # {} /\ AttemptTimes \subseteq Nat
  /\ Sources \subseteq [kind : {"gzip", "tar", "other"}, sized : BOOLEAN]

VARIABLE fetch

\* defaultBackoff
Second == 10
Duration == 1 * Second
Factor == 2
Steps == 10
Cap == 30 * Second

FetchSteps == {"off", "check", "get", "copy", "backoff", "sniff", "extract", "done", "error"}

FetchTypeOK ==
  fetch \in [step : FetchSteps, timeout : Timeouts, source : Sources, clock : Nat,
             duration : Duration..Cap, steps : 0..Steps,
             archive : {"none", "part", "whole"}, contents : {"none", "part", "whole"}]

NoFetch(timeout, source) ==
  [step |-> "off", timeout |-> timeout, source |-> source, clock |-> 0, duration |-> Duration,
   steps |-> Steps, archive |-> "none", contents |-> "none"]

FetchGoto(step) == fetch' = [fetch EXCEPT !.step = step]

\* The directory of the build exists, or else there is nothing to do.
FetchStarts == fetch.step = "off" /\ (FetchGoto("check") \/ FetchGoto("error"))

\* The deadline is looked at before an attempt, and at no other time.
CheckDeadline ==
  /\ fetch.step = "check"
  /\ FetchGoto(IF fetch.timeout > 0 /\ fetch.clock >= fetch.timeout THEN "error" ELSE "get")

(***************************************************************************)
(* downloadFile: an attempt                                                *)
(***************************************************************************)
After(t, step) == fetch' = [fetch EXCEPT !.step = step, !.clock = @ + t]

\* A network error, 502, 503 or 504; any other error or status; or 200.
Get ==
  /\ fetch.step = "get"
  /\ \/ \E t \in AttemptTimes : After(t, "backoff") \/ After(t, "error")
     \/ FetchGoto("copy")

\* The file cannot be created; the body is copied; the copy breaks; or the
\* connection is lost and, with no length announced, taken for the end.
CopyArrives(archive, step) ==
  \E t \in AttemptTimes :
    fetch' = [fetch EXCEPT !.step = step, !.clock = @ + t, !.archive = archive]

\* Mutant of Copy: the error of the copy is dropped.
CopyUnchecked ==
  /\ fetch.step = "copy"
  /\ \/ CopyArrives("none", "error")
     \/ CopyArrives("whole", "sniff")
     \/ CopyArrives("part", "sniff")

Copy ==
  /\ fetch.step = "copy"
  /\ \/ CopyArrives("none", "error")
     \/ CopyArrives("whole", "sniff")
     \/ CopyArrives("part", "error")
     \/ ~fetch.source.sized /\ CopyArrives("part", "sniff")

\* Mutant of Step: the cap bounds the duration, and the steps go on.
StepPastCap(f) ==
  [f EXCEPT !.duration = Min({Cap, Factor * @}), !.steps = @ - 1]

\* Backoff.Step: a duration past the cap ends the steps.
Step(f) ==
  [f EXCEPT !.duration = Min({Cap, Factor * @}),
            !.steps = IF Factor * f.duration > Cap THEN 0 ELSE @ - 1]

\* ExponentialBackoff: sleep, with a jitter of up to a tenth, and go round, or give up.
Sleep ==
  /\ fetch.step = "backoff"
  /\ IF fetch.steps = 1 THEN FetchGoto("error")
     ELSE \E jitter \in {0, fetch.duration \div 10} :
            fetch' = [Step(fetch) EXCEPT !.step = IF Step(fetch).steps > 0 THEN "check" ELSE "error",
                                         !.clock = @ + fetch.duration + jitter]

(***************************************************************************)
(* getFileContentType and extract                                          *)
(***************************************************************************)
Sniff ==
  /\ fetch.step = "sniff"
  /\ \/ fetch.source.kind # "other" /\ FetchGoto("extract")
     \/ FetchGoto("error")

\* A tar cut off between two of its members reads like a whole one.
Extract ==
  /\ fetch.step = "extract"
  /\ \/ fetch' = [fetch EXCEPT !.step = "error", !.contents = "part"]
     \/ /\ fetch.archive = "whole" \/ fetch.source.kind = "tar"
        /\ fetch' = [fetch EXCEPT !.step = "done", !.contents = fetch.archive]

FetchAndExtract ==
  FetchStarts \/ CheckDeadline \/ Get \/ Copy \/ Sleep \/ Sniff \/ Extract
=============================================================================
