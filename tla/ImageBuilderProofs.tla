------------------------- MODULE ImageBuilderProofs -------------------------
(***************************************************************************)
(* Proofs about the embedded builder, for any list of registries, number   *)
(* of plugins and status updates, and any durations: its types, that what  *)
(* is built has a whole context, that the fetch is over in time, that all  *)
(* updates are shown, and that it does what AbstractBuilder promises.      *)
(***************************************************************************)
EXTENDS ImageBuilder, TLAPS

(***************************************************************************)
(* The fetch: which archives get as far as the extraction and its end.     *)
(***************************************************************************)
ArchiveInv ==
  /\ fetch.step \in {"sniff", "extract", "done"} =>
       fetch.archive = "whole" \/ (fetch.archive = "part" /\ ~fetch.source.sized)
  /\ fetch.step = "done" =>
       fetch.contents = fetch.archive /\ (fetch.archive = "whole" \/ fetch.source.kind = "tar")

(***************************************************************************)
(* An attempt to download takes no longer than the longest does.           *)
(***************************************************************************)
BoundedAttempts == \E m \in AttemptTimes : \A t \in AttemptTimes : t <= m

Longest == Max(AttemptTimes)

(***************************************************************************)
(* The rounds of the back-off: the sleep that would follow attempt k, and  *)
(* the time slept before it with all jitter.                               *)
(***************************************************************************)
SleepAfter == <<10, 20, 40, 80, 160>>

SleptBefore == <<0, 11, 33, 77, 165>>

InRound(k) == fetch.steps = Steps + 1 - k /\ fetch.duration = SleepAfter[k]

RoundInv ==
  fetch.step \in {"off", "check", "get", "copy", "backoff"} => \E k \in 1..5 : InRound(k)

TimeInv ==
  /\ fetch.step = "off" => fetch.clock = 0
  /\ \A k \in 1..5 :
       /\ fetch.step \in {"off", "check", "get", "copy"} /\ InRound(k) =>
            fetch.clock <= (k - 1) * Longest + SleptBefore[k]
       /\ fetch.step = "backoff" /\ InRound(k) =>
            fetch.clock <= k * Longest + SleptBefore[k]
  /\ fetch.step \in {"get", "copy"} /\ fetch.timeout > 0 => fetch.clock <= fetch.timeout
  /\ fetch.step = "backoff" /\ fetch.timeout > 0 => fetch.clock <= fetch.timeout + Longest

FetchInv ==
  /\ FetchTypeOK
  /\ ArchiveInv
  /\ RoundInv
  /\ BoundedAttempts => TimeInv /\ FetchOverdueBounded

(***************************************************************************)
(* The stream: an update that is not shown yet is with the sender or with  *)
(* the converter, and the goroutines end in the order of the channels.     *)
(***************************************************************************)
StreamInv ==
  /\ stream.sent = stream.shown + (IF stream.status = "sending" THEN 1 ELSE 0)
                                + (IF stream.conv = "hold" THEN 1 ELSE 0)
  /\ stream.status \in {"wait", "open", "sending"} => stream.call = "solving"
  /\ stream.call \in {"controller", "pushing", "off"} => stream.status = "off"
  /\ stream.display = "off" =>
       stream.call \notin {"controller", "solving"} /\ stream.conv = "off" /\ stream.status = "off"
  /\ stream.display = "done" => stream.conv = "done"
  /\ stream.conv = "done" => stream.call \in {"closing", "waiting", "done"}

(***************************************************************************)
(* BuildAndPush: what its progress says about the context, the image and   *)
(* the registries that have been served.                                   *)
(***************************************************************************)
Building == {"prepare", "session", "solve", "cleanup"}

Serving == {"tag", "push", "pushing"}

FirstRound == job.step = "name" /\ job.idx = 1

JobType ==
  [step : JobSteps, idx : Nat, plugin : Nat, deferred : Nat, size : Sizes \cup {0},
   err : BOOLEAN, prepared : SUBSET Nat, cleaned : Seq(Nat)]

StageInv ==
  /\ job.step = "start" => job.idx = 1
  /\ job.idx \in 1..Len(opts.push) \/ job.idx = 1
  /\ job.step \notin {"start", "failed"} => job.idx \in 1..Len(opts.push)
  /\ job.deferred <= job.plugin /\ job.plugin <= opts.plugins
  /\ job.step \notin {"pushed", "failed"} => Len(pushed) = job.idx - 1
  /\ job.step \in {"fetch", "size"} \cup Building => job.idx = 1
  /\ job.step \in {"start", "fetch", "size"} \cup Building \/ FirstRound => job.size = 0
  /\ job.step \in Building \cup {"size", "pushed"} \cup Serving => fetch.step = "done"
  /\ job.step = "name" /\ job.idx # 1 => fetch.step = "done"
  /\ (job.step = "cleanup" /\ ~job.err) \/ job.step = "size" => store[HeadImg] # 0
  /\ job.step \in Serving \/ (job.step = "name" /\ job.idx # 1) =>
       job.size # 0 /\ store[HeadImg] = job.size
  /\ job.step \in {"push", "pushing"} => store[Registry] = job.size

IInv ==
  /\ TypeOK
  /\ FetchInv
  /\ StreamInv
  /\ job \in JobType
  /\ StageInv

-----------------------------------------------------------------------------
(***************************************************************************)
(* The fetch                                                               *)
(***************************************************************************)

(***************************************************************************)
(* The longest attempt is as long as any.                                  *)
(***************************************************************************)
LEMMA LongestAttempt ==
  ASSUME BoundedAttempts
  PROVE  Longest \in Nat /\ \A t \in AttemptTimes : t \in Nat /\ t <= Longest
<1>1. AttemptTimes \subseteq Nat
  BY Zenon, FetchAssumption
<1>2. PICK m \in AttemptTimes : \A t \in AttemptTimes : m >= t
  BY Zenon, <1>1 DEF BoundedAttempts
<1>3. Longest \in AttemptTimes /\ \A t \in AttemptTimes : Longest >= t
  BY Zenon, <1>2 DEF Longest, Max
<1> QED
  BY Zenon, <1>1, <1>3

(***************************************************************************)
(* The sleeps of FetchOverdueBounded, in tenths of a second.               *)
(***************************************************************************)
LEMMA Overdue == (31 * Second * 11) \div 10 = 341 /\ (16 * Second * 11) \div 10 = 176
  BY DEF Second

(***************************************************************************)
(* Backoff.Step doubles the duration for four rounds, and in the fifth the *)
(* cap takes all the steps that are left.                                  *)
(***************************************************************************)
LEMMA BackoffStep ==
  ASSUME FetchTypeOK, NEW k \in 1..5, InRound(k)
  PROVE  /\ fetch.steps # 1
         /\ k < 5 => /\ Step(fetch).steps = Steps - k
                     /\ Step(fetch).duration = SleepAfter[k + 1]
         /\ k = 5 => Step(fetch).steps = 0 /\ Step(fetch).duration = Cap
         /\ Step(fetch) = [fetch EXCEPT !.duration = Step(fetch).duration, !.steps = Step(fetch).steps]
         /\ fetch.duration + fetch.duration \div 10 = (11 * SleepAfter[k]) \div 10
<1>1. \A a, b \in Int : Min({a, b}) = IF a <= b THEN a ELSE b
  BY DEF Min
<1>2. fetch.duration \in Int /\ fetch.steps \in Int
  BY DEF FetchTypeOK, Steps, Duration, Cap, Second
<1>3. /\ Step(fetch).duration = IF 300 <= 2 * fetch.duration THEN 300 ELSE 2 * fetch.duration
      /\ Step(fetch).steps = IF 2 * fetch.duration > 300 THEN 0 ELSE fetch.steps - 1
  BY <1>1, <1>2 DEF FetchTypeOK, Step, Cap, Second, Factor
<1>4. Step(fetch) = [fetch EXCEPT !.duration = Step(fetch).duration, !.steps = Step(fetch).steps]
  BY Zenon DEF FetchTypeOK, Step
<1>5. /\ fetch.steps = 11 - k /\ fetch.duration = SleepAfter[k]
      /\ \/ k = 1 /\ SleepAfter[k] = 10 /\ SleepAfter[k + 1] = 20
         \/ k = 2 /\ SleepAfter[k] = 20 /\ SleepAfter[k + 1] = 40
         \/ k = 3 /\ SleepAfter[k] = 40 /\ SleepAfter[k + 1] = 80
         \/ k = 4 /\ SleepAfter[k] = 80 /\ SleepAfter[k + 1] = 160
         \/ k = 5 /\ SleepAfter[k] = 160
  <2>1. k \in {1, 2, 3, 4, 5}
    OBVIOUS
  <2> QED
    BY <2>1 DEF SleepAfter, InRound, Steps
<1> QED
  BY <1>3, <1>4, <1>5 DEF Steps, Cap, Second

(***************************************************************************)
(* The time left in a round: attempt k ends before the bound of the fetch. *)
(***************************************************************************)
LEMMA RoundTimes ==
  \A k \in 1..5, m \in Nat :
    /\ SleptBefore[k] \in Nat /\ SleepAfter[k] \in Nat
    /\ k * m \in Nat /\ (k - 1) * m \in Nat
    /\ (k - 1) * m + SleptBefore[k] + m <= k * m + SleptBefore[k]
    /\ k * m + SleptBefore[k] <= 5 * m + 341
<1> SUFFICES ASSUME NEW k \in 1..5, NEW m \in Nat
             PROVE  /\ SleptBefore[k] \in Nat /\ SleepAfter[k] \in Nat
                    /\ k * m \in Nat /\ (k - 1) * m \in Nat
                    /\ (k - 1) * m + SleptBefore[k] + m <= k * m + SleptBefore[k]
                    /\ k * m + SleptBefore[k] <= 5 * m + 341
  BY Zenon
<1>1. k \in {1, 2, 3, 4, 5}
  OBVIOUS
<1> QED
  BY <1>1 DEF SleptBefore, SleepAfter

(***************************************************************************)
(* The sleep after attempt k: it ends before the bound of the fetch, is    *)
(* part of the time slept before attempt k + 1, and is no longer than the  *)
(* last.                                                                   *)
(***************************************************************************)
LEMMA SleepTimes ==
  \A k \in 1..5, m \in Nat :
    /\ k * m + SleptBefore[k] + (11 * SleepAfter[k]) \div 10 <= 5 * m + 341
    /\ k < 5 => SleptBefore[k] + (11 * SleepAfter[k]) \div 10 <= SleptBefore[k + 1]
    /\ (11 * SleepAfter[k]) \div 10 <= 176
<1> SUFFICES ASSUME NEW k \in 1..5, NEW m \in Nat
             PROVE  /\ k * m + SleptBefore[k] + (11 * SleepAfter[k]) \div 10 <= 5 * m + 341
                    /\ k < 5 => SleptBefore[k] + (11 * SleepAfter[k]) \div 10 <= SleptBefore[k + 1]
                    /\ (11 * SleepAfter[k]) \div 10 <= 176
  BY Zenon
<1>1. k \in {1, 2, 3, 4, 5}
  OBVIOUS
<1> QED
  BY <1>1 DEF SleptBefore, SleepAfter

(***************************************************************************)
(* Every step of the fetch keeps its invariant.                            *)
(***************************************************************************)
LEMMA FetchStep == FetchInv /\ FetchAndExtract => FetchInv'
<1> SUFFICES ASSUME FetchInv, FetchAndExtract PROVE FetchInv'
  BY Zenon
<1>1. FetchTypeOK /\ fetch.clock \in Nat /\ fetch.timeout \in Nat
  BY Zenon, FetchAssumption DEF FetchInv, FetchTypeOK
<1>2. ASSUME NEW s \in FetchSteps, FetchGoto(s),
             s \in {"check", "get", "copy"} => fetch.step \in {"off", "check", "get"},
             s = "get" /\ fetch.timeout > 0 => fetch.clock <= fetch.timeout,
             s = "copy" => fetch.step = "get",
             s \notin {"off", "backoff", "sniff", "done"},
             s = "extract" => fetch.step = "sniff"
      PROVE  FetchInv'
  <2>1. fetch' = [fetch EXCEPT !.step = s]
    BY Zenon, <1>2 DEF FetchGoto
  <2>2. FetchTypeOK'
    BY Zenon, <1>1, <2>1 DEF FetchTypeOK
  <2>3. fetch'.step = s /\ fetch'.clock = fetch.clock /\ fetch'.timeout = fetch.timeout
        /\ fetch'.steps = fetch.steps /\ fetch'.duration = fetch.duration
        /\ fetch'.archive = fetch.archive /\ fetch'.source = fetch.source
    BY Zenon, <1>1, <2>1 DEF FetchTypeOK
  <2>4. ArchiveInv'
    BY Zenon, <1>2, <2>3 DEF FetchInv, ArchiveInv
  <2>5. RoundInv'
    BY Zenon, <1>2, <2>3 DEF FetchInv, RoundInv, InRound
  <2>6. BoundedAttempts => TimeInv' /\ FetchOverdueBounded'
    BY Zenon, <1>2, <2>3 DEF FetchInv, TimeInv, FetchOverdueBounded, InRound
  <2> QED
    BY Zenon, <2>2, <2>4, <2>5, <2>6 DEF FetchInv, BoundedAttempts
<1>3. CASE FetchStarts
  BY Zenon, <1>2, <1>3 DEF FetchStarts, FetchSteps
<1>4. CASE CheckDeadline
  BY <1>1, <1>2, <1>4 DEF CheckDeadline, FetchSteps
<1>5. CASE fetch.step = "get" /\ FetchGoto("copy")
  BY Zenon, <1>2, <1>5 DEF FetchSteps
<1>6. ASSUME fetch.step \in {"get", "copy"}, NEW d \in AttemptTimes,
             NEW s \in {"backoff", "sniff", "error"}, NEW a \in {"none", "part", "whole"},
             fetch' = [fetch EXCEPT !.step = s, !.clock = @ + d, !.archive = a],
             s = "sniff" => a = "whole" \/ (a = "part" /\ ~fetch.source.sized)
      PROVE  FetchInv'
  <2>1. fetch'.step = s /\ fetch'.clock = fetch.clock + d /\ fetch'.timeout = fetch.timeout
        /\ fetch'.steps = fetch.steps /\ fetch'.duration = fetch.duration
        /\ fetch'.archive = a /\ fetch'.source = fetch.source
    BY Zenon, <1>1, <1>6 DEF FetchTypeOK
  <2>2. d \in Nat /\ fetch.clock + d \in Nat
    BY <1>1, FetchAssumption
  <2>3. FetchTypeOK'
    BY Zenon, <1>1, <1>6, <2>2 DEF FetchTypeOK, FetchSteps
  <2>4. ArchiveInv'
    BY Zenon, <1>6, <2>1 DEF ArchiveInv
  <2>5. PICK k \in 1..5 : InRound(k)
    BY Zenon, <1>6 DEF FetchInv, RoundInv
  <2>6. RoundInv'
    BY Zenon, <2>1, <2>5 DEF RoundInv, InRound
  <2>7. ASSUME BoundedAttempts PROVE TimeInv' /\ FetchOverdueBounded'
    <3>1. Longest \in Nat /\ d <= Longest
      BY Zenon, <2>7, LongestAttempt
    <3>2. \A i \in 1..5 : InRound(i) => fetch.clock <= (i - 1) * Longest + SleptBefore[i]
      BY Zenon, <1>6, <2>7 DEF FetchInv, TimeInv
    <3>3. \A i \in 1..5 : InRound(i) => fetch.clock + d <= i * Longest + SleptBefore[i]
      <4> TAKE i \in 1..5
      <4> HAVE InRound(i)
      <4>1. fetch.clock <= (i - 1) * Longest + SleptBefore[i]
        BY Zenon, <3>2
      <4>2. SleptBefore[i] \in Nat /\ i * Longest \in Nat /\ (i - 1) * Longest \in Nat
        BY Zenon, <3>1, RoundTimes
      <4>3. (i - 1) * Longest + SleptBefore[i] + Longest <= i * Longest + SleptBefore[i]
        BY Zenon, <3>1, RoundTimes
      <4> QED
        BY <1>1, <2>2, <3>1, <4>1, <4>2, <4>3
    <3>4. fetch.timeout > 0 => fetch.clock + d <= fetch.timeout + Longest
      <4>1. fetch.timeout > 0 => fetch.clock <= fetch.timeout
        BY Zenon, <1>6, <2>7 DEF FetchInv, TimeInv
      <4> QED
        BY <1>1, <2>2, <3>1, <4>1
    <3>5. fetch.clock + d <= 5 * Longest + 341
      <4>1. fetch.clock + d <= k * Longest + SleptBefore[k]
        BY Zenon, <2>5, <3>3
      <4>2. SleptBefore[k] \in Nat /\ k * Longest \in Nat
        BY Zenon, <3>1, RoundTimes
      <4>3. k * Longest + SleptBefore[k] <= 5 * Longest + 341
        BY Zenon, <3>1, RoundTimes
      <4> QED
        BY <1>1, <2>2, <3>1, <4>1, <4>2, <4>3
    <3>6. TimeInv'
      BY Zenon, <1>6, <2>1, <3>3, <3>4 DEF TimeInv, InRound, Longest
    <3>7. fetch.timeout > 0 => fetch.clock + d <= fetch.timeout + Longest + 176
      BY <1>1, <2>2, <3>1, <3>4
    <3>8. FetchOverdueBounded'
      BY Zenon, <2>1, <3>5, <3>7, Overdue DEF Longest, FetchOverdueBounded
    <3> QED
      BY Zenon, <3>6, <3>8
  <2> QED
    BY Zenon, <2>3, <2>4, <2>6, <2>7 DEF FetchInv, BoundedAttempts
<1>7. ASSUME NEW d \in AttemptTimes, fetch.step = "get", After(d, "backoff") \/ After(d, "error")
      PROVE  FetchInv'
  <2>1. PICK s \in {"backoff", "error"} : fetch' = [fetch EXCEPT !.step = s, !.clock = @ + d]
    BY Zenon, <1>7 DEF After
  <2>2. fetch' = [fetch EXCEPT !.step = s, !.clock = @ + d, !.archive = fetch.archive]
    BY Zenon, <1>1, <2>1 DEF FetchTypeOK
  <2>3. fetch.archive \in {"none", "part", "whole"}
    BY Zenon, <1>1 DEF FetchTypeOK
  <2> QED
    BY Zenon, <1>6, <1>7, <2>2, <2>3
<1>8. CASE Get
  BY Zenon, <1>5, <1>7, <1>8 DEF Get
<1>9. CASE Copy
  BY Zenon, <1>6, <1>9 DEF Copy, CopyArrives
<1>10. CASE Sleep
  <2>1. PICK k \in 1..5 : InRound(k)
    BY Zenon, <1>10 DEF Sleep, FetchInv, RoundInv
  <2>2. /\ fetch.steps # 1
        /\ k < 5 => /\ Step(fetch).steps = Steps - k
                    /\ Step(fetch).duration = SleepAfter[k + 1]
        /\ k = 5 => Step(fetch).steps = 0 /\ Step(fetch).duration = Cap
        /\ Step(fetch) = [fetch EXCEPT !.duration = Step(fetch).duration, !.steps = Step(fetch).steps]
        /\ fetch.duration + fetch.duration \div 10 = (11 * SleepAfter[k]) \div 10
    BY Zenon, <1>1, <2>1, BackoffStep
  <2>3. PICK jitter \in {0, fetch.duration \div 10} :
          fetch' = [Step(fetch) EXCEPT !.step = IF Step(fetch).steps > 0 THEN "check" ELSE "error",
                                       !.clock = @ + fetch.duration + jitter]
    BY Zenon, <1>10, <2>2 DEF Sleep
  <2> DEFINE d == fetch.duration + jitter
             s == IF k < 5 THEN "check" ELSE "error"
  <2>4. d \in Nat /\ d <= (11 * SleepAfter[k]) \div 10 /\ (11 * SleepAfter[k]) \div 10 \in Nat
    <3>1. fetch.duration \in Nat /\ fetch.duration \div 10 \in Nat /\ jitter \in Nat
      BY <1>1 DEF FetchTypeOK, Duration, Cap, Second
    <3>2. jitter <= fetch.duration \div 10
      BY <3>1
    <3> QED
      BY <2>2, <3>1, <3>2
  <2>5. /\ fetch'.step = s /\ fetch'.clock = fetch.clock + d /\ fetch'.timeout = fetch.timeout
        /\ fetch'.steps = IF k < 5 THEN Steps - k ELSE 0
        /\ fetch'.duration = IF k < 5 THEN SleepAfter[k + 1] ELSE Cap
    <3>1. /\ fetch'.clock = Step(fetch).clock + fetch.duration + jitter
          /\ fetch'.step = IF Step(fetch).steps > 0 THEN "check" ELSE "error"
          /\ fetch'.steps = Step(fetch).steps /\ fetch'.duration = Step(fetch).duration
          /\ fetch'.timeout = Step(fetch).timeout
      BY Zenon, <1>1, <2>3 DEF FetchTypeOK, Step
    <3>2. Step(fetch).clock = fetch.clock /\ Step(fetch).timeout = fetch.timeout
      BY Zenon, <1>1 DEF FetchTypeOK, Step
    <3>3. Step(fetch).steps > 0 <=> k < 5
      BY <2>2 DEF Steps
    <3>4. fetch.clock + fetch.duration + jitter = fetch.clock + d
      BY <1>1, <2>4 DEF FetchTypeOK, Duration, Cap, Second
    <3>5. k < 5 \/ k = 5
      OBVIOUS
    <3> QED
      BY Zenon, <2>2, <3>1, <3>2, <3>3, <3>4, <3>5
  <2>6. FetchTypeOK'
    <3>1. fetch' = [fetch EXCEPT !.duration = fetch'.duration, !.steps = fetch'.steps,
                                 !.step = s, !.clock = fetch.clock + d]
      BY Zenon, <1>1, <2>3, <2>5 DEF FetchTypeOK, Step
    <3>2. fetch'.duration \in Duration..Cap
      BY <2>5 DEF SleepAfter, Duration, Cap, Second
    <3>3. fetch'.steps \in 0..Steps /\ fetch.clock + d \in Nat
      BY <1>1, <2>4, <2>5 DEF Steps
    <3> QED
      BY Zenon, <1>1, <3>1, <3>2, <3>3 DEF FetchTypeOK, FetchSteps
  <2>7. ArchiveInv'
    BY Zenon, <2>5 DEF ArchiveInv
  <2>8. ASSUME k < 5 PROVE InRound(k + 1)'
    BY <2>5, <2>8 DEF InRound, Steps
  <2>9. RoundInv'
    BY <2>5, <2>8 DEF RoundInv
  <2>10. ASSUME BoundedAttempts PROVE TimeInv' /\ FetchOverdueBounded'
    <3>1. Longest \in Nat
      BY Zenon, <2>10, LongestAttempt
    <3>2. /\ fetch.clock <= k * Longest + SleptBefore[k]
          /\ fetch.timeout > 0 => fetch.clock <= fetch.timeout + Longest
      BY Zenon, <1>10, <2>1, <2>10 DEF FetchInv, TimeInv, Sleep
    <3>3. /\ SleptBefore[k] \in Nat /\ k * Longest \in Nat
          /\ k * Longest + SleptBefore[k] + (11 * SleepAfter[k]) \div 10 <= 5 * Longest + 341
          /\ k < 5 => SleptBefore[k] + (11 * SleepAfter[k]) \div 10 <= SleptBefore[k + 1]
          /\ (11 * SleepAfter[k]) \div 10 <= 176
      <4>1. SleptBefore[k] \in Nat /\ k * Longest \in Nat
        BY Zenon, <3>1, RoundTimes
      <4>2. k * Longest + SleptBefore[k] + (11 * SleepAfter[k]) \div 10 <= 5 * Longest + 341
        BY Zenon, <3>1, SleepTimes
      <4>3. k < 5 => SleptBefore[k] + (11 * SleepAfter[k]) \div 10 <= SleptBefore[k + 1]
        BY Zenon, <3>1, SleepTimes
      <4>4. (11 * SleepAfter[k]) \div 10 <= 176
        BY Zenon, <3>1, SleepTimes
      <4> QED
        BY Zenon, <4>1, <4>2, <4>3, <4>4
    <3>4. fetch.clock + d <= 5 * Longest + 341
      BY <1>1, <2>4, <3>1, <3>2, <3>3
    <3>5. fetch.timeout > 0 => fetch.clock + d <= fetch.timeout + Longest + 176
      BY <1>1, <2>4, <3>1, <3>2, <3>3
    <3>6. ASSUME k < 5 PROVE fetch.clock + d <= k * Longest + SleptBefore[k + 1]
      <4>1. SleptBefore[k + 1] \in Nat
        BY <3>6 DEF SleptBefore
      <4> QED
        BY <1>1, <2>4, <3>2, <3>3, <3>6, <4>1
    <3>7. \A i \in 1..5 : InRound(i)' => (k < 5 => i = k + 1)
      BY <2>5 DEF InRound, Steps
    <3>8. \A i \in 1..5 : fetch'.step = "check" /\ InRound(i)' =>
            fetch.clock + d <= (i - 1) * Longest + SleptBefore[i]
      BY <2>5, <3>6, <3>7
    <3>9. TimeInv'
      BY Zenon, <2>5, <3>8 DEF TimeInv, Longest
    <3>10. FetchOverdueBounded'
      BY <2>5, <3>4, <3>5, Overdue DEF Longest, FetchOverdueBounded
    <3> QED
      BY Zenon, <3>9, <3>10
  <2> QED
    BY Zenon, <2>6, <2>7, <2>9, <2>10 DEF FetchInv, BoundedAttempts
<1>11. CASE Sniff
  BY Zenon, <1>2, <1>11 DEF Sniff, FetchSteps
<1>12. CASE Extract
  <2>1. /\ fetch.step = "extract"
        /\ \/ fetch' = [fetch EXCEPT !.step = "error", !.contents = "part"]
           \/ /\ fetch.archive = "whole" \/ fetch.source.kind = "tar"
              /\ fetch' = [fetch EXCEPT !.step = "done", !.contents = fetch.archive]
    BY Zenon, <1>12 DEF Extract
  <2>2. FetchTypeOK'
    BY Zenon, <1>1, <2>1 DEF FetchTypeOK, FetchSteps
  <2>3. /\ fetch'.step \in {"error", "done"} /\ fetch'.clock = fetch.clock
        /\ fetch'.timeout = fetch.timeout
    BY Zenon, <1>1, <2>1 DEF FetchTypeOK
  <2>4. ArchiveInv'
    BY Zenon, <1>1, <2>1 DEF FetchTypeOK, FetchInv, ArchiveInv
  <2>5. RoundInv' /\ (BoundedAttempts => TimeInv' /\ FetchOverdueBounded')
    BY Zenon, <2>3 DEF FetchInv, RoundInv, TimeInv, FetchOverdueBounded
  <2> QED
    BY Zenon, <2>2, <2>4, <2>5 DEF FetchInv, BoundedAttempts
<1> QED
  BY Zenon, <1>3, <1>4, <1>8, <1>9, <1>10, <1>11, <1>12 DEF FetchAndExtract

-----------------------------------------------------------------------------
(***************************************************************************)
(* The stream                                                              *)
(***************************************************************************)

(***************************************************************************)
(* Every step of the goroutines of a build or a push keeps the count of    *)
(* updates and the order in which they end.                                *)
(***************************************************************************)
LEMMA StreamSteps == StreamTypeOK /\ StreamInv /\ Stream => StreamTypeOK' /\ StreamInv'
<1> SUFFICES ASSUME StreamTypeOK, StreamInv, Stream PROVE StreamTypeOK' /\ StreamInv'
  BY Zenon
<1>1. CASE SessionRuns
  BY Zenon, <1>1 DEF SessionRuns, StreamTypeOK, StreamInv
<1>2. CASE SessionEnds
  BY Zenon, <1>2 DEF SessionEnds, StreamTypeOK, StreamInv
<1>3. CASE CloseReturns
  BY Zenon, <1>3 DEF CloseReturns, StreamTypeOK, StreamInv
<1>4. CASE CreateController
  <2>1. CASE stream' = [stream EXCEPT !.call = "solving", !.solver = "run", !.status = "wait"]
    BY Zenon, <1>4, <2>1 DEF CreateController, StreamTypeOK, StreamInv
  <2>2. CASE stream' = [stream EXCEPT !.call = "closing", !.failed = TRUE]
    BY Zenon, <1>4, <2>2 DEF CreateController, StreamTypeOK, StreamInv
  <2> QED
    BY Zenon, <1>4, <2>1, <2>2 DEF CreateController
<1>5. CASE SolveReturns
  BY Zenon, <1>5 DEF SolveReturns, SolverEnded, StreamTypeOK, StreamInv
<1>6. CASE SolverRegisters
  BY Zenon, <1>6 DEF SolverRegisters, StreamTypeOK, StreamInv
<1>7. CASE SolverReturns
  BY <1>7 DEF SolverReturns, StreamTypeOK, StreamInv
<1>8. CASE StatusOpens
  BY Zenon, <1>8 DEF StatusOpens, StreamTypeOK, StreamInv
<1>9. CASE StatusUpdates
  <2>1. stream.sent + 1 \in 0..MaxUpdates
    BY <1>9, StreamAssumption DEF StatusUpdates, StreamTypeOK
  <2>2. StreamTypeOK'
    BY Zenon, <1>9, <2>1 DEF StatusUpdates, StreamTypeOK
  <2>3. /\ stream.conv \in {"off", "recv", "hold", "done"} /\ stream'.conv = stream.conv
        /\ stream.status = "open" /\ stream'.status = "sending"
        /\ stream'.sent = stream.sent + 1 /\ stream'.shown = stream.shown
        /\ stream.sent \in Nat /\ stream.shown \in Nat
    BY <1>9 DEF StatusUpdates, StreamTypeOK
  <2>4. stream'.sent = stream'.shown + (IF stream'.status = "sending" THEN 1 ELSE 0)
                                     + (IF stream'.conv = "hold" THEN 1 ELSE 0)
    BY <2>3 DEF StreamInv
  <2>5. stream'.call = stream.call /\ stream'.display = stream.display
    BY Zenon, <1>9 DEF StatusUpdates, StreamTypeOK
  <2> QED
    BY Zenon, <2>2, <2>3, <2>4, <2>5 DEF StreamInv
<1>10. CASE Send
  <2>1. StreamTypeOK'
    BY Zenon, <1>10 DEF Send, StreamTypeOK
  <2>2. /\ stream.conv = "recv" /\ stream'.conv = "hold"
        /\ stream.status = "sending" /\ stream'.status = "open"
        /\ stream'.sent = stream.sent /\ stream'.shown = stream.shown
        /\ stream.sent \in Nat /\ stream.shown \in Nat
        /\ stream'.call = stream.call /\ stream'.display = stream.display
    BY <1>10 DEF Send, StreamTypeOK
  <2>3. stream'.sent = stream'.shown + (IF stream'.status = "sending" THEN 1 ELSE 0)
                                     + (IF stream'.conv = "hold" THEN 1 ELSE 0)
    BY <2>2 DEF StreamInv
  <2> QED
    BY Zenon, <2>1, <2>2, <2>3 DEF StreamInv
<1>11. CASE StatusReturns
  BY Zenon, <1>11 DEF StatusReturns, SolverEnded, StreamTypeOK, StreamInv
<1>12. CASE Convert
  <2>1. /\ stream.conv = "hold" /\ stream'.conv = "recv" /\ stream.display = "recv"
        /\ stream'.status = stream.status
        /\ stream'.sent = stream.sent /\ stream'.shown = stream.shown + 1
        /\ stream.sent \in 0..MaxUpdates /\ stream.shown \in 0..MaxUpdates
        /\ stream'.call = stream.call /\ stream'.display = stream.display
    BY Zenon, <1>12 DEF Convert, StreamTypeOK
  <2>2. stream.shown + 1 <= stream.sent /\ stream.shown + 1 \in 0..MaxUpdates
    BY <2>1, StreamAssumption DEF StreamInv
  <2>3. StreamTypeOK'
    BY Zenon, <1>12, <2>2 DEF Convert, StreamTypeOK
  <2>4. stream'.sent = stream'.shown + (IF stream'.status = "sending" THEN 1 ELSE 0)
                                     + (IF stream'.conv = "hold" THEN 1 ELSE 0)
    BY <2>1 DEF StreamInv
  <2> QED
    BY Zenon, <2>1, <2>3, <2>4 DEF StreamInv
<1>13. CASE ConvertEnds
  BY Zenon, <1>13 DEF ConvertEnds, ChannelClosed, StreamTypeOK, StreamInv
<1>14. CASE DisplayEnds
  BY Zenon, <1>14 DEF DisplayEnds, StreamTypeOK, StreamInv
<1>15. CASE PushReturns
  BY Zenon, <1>15 DEF PushReturns, StreamTypeOK, StreamInv
<1>16. CASE SessionServes
  BY Zenon, <1>16 DEF SessionServes, StreamTypeOK, StreamInv
<1>17. CASE Close
  BY Zenon, <1>17 DEF Close, StreamTypeOK, StreamInv
<1> QED
  BY Zenon, <1>1, <1>2, <1>3, <1>4, <1>5, <1>6, <1>7, <1>8, <1>9, <1>10,
     <1>11, <1>12, <1>13, <1>14, <1>15, <1>16, <1>17 DEF Stream

-----------------------------------------------------------------------------
(***************************************************************************)
(* BuildAndPush                                                            *)
(***************************************************************************)

(***************************************************************************)
(* What does not touch the fetch or the stream keeps their invariants.     *)
(***************************************************************************)
LEMMA FetchKept == FetchInv /\ UNCHANGED fetch => FetchInv'
  BY Zenon DEF FetchInv, FetchTypeOK, ArchiveInv, RoundInv, InRound, TimeInv, FetchOverdueBounded,
     BoundedAttempts

(***************************************************************************)
(* Nor does a step that leaves the stream alone change what holds of it.   *)
(***************************************************************************)
LEMMA StreamKept == StreamTypeOK /\ StreamInv /\ UNCHANGED stream => StreamTypeOK' /\ StreamInv'
  BY Zenon DEF StreamTypeOK, StreamInv

(***************************************************************************)
(* The streams of a build and of a push, and none, are as they should be.  *)
(***************************************************************************)
LEMMA NewStream ==
  stream' \in {NoStream, BuildStream, PushStream} => StreamTypeOK' /\ StreamInv'
<1>1. 0 \in 0..MaxUpdates
  BY StreamAssumption
<1>2. CASE stream' = NoStream
  BY <1>1, <1>2 DEF NoStream, StreamTypeOK, StreamInv
<1>3. CASE stream' = BuildStream
  <2>1. stream' = [sess |-> "starting", call |-> "controller", failed |-> FALSE,
                   solver |-> "off", status |-> "off", conv |-> "recv", display |-> "recv",
                   sent |-> 0, shown |-> 0]
    BY Zenon, <1>3 DEF NoStream, BuildStream
  <2> QED
    BY <1>1, <2>1 DEF StreamTypeOK, StreamInv
<1>4. CASE stream' = PushStream
  <2>1. stream' = [sess |-> "starting", call |-> "pushing", failed |-> FALSE,
                   solver |-> "off", status |-> "off", conv |-> "off", display |-> "off",
                   sent |-> 0, shown |-> 0]
    BY Zenon, <1>4 DEF NoStream, PushStream
  <2> QED
    BY <1>1, <2>1 DEF StreamTypeOK, StreamInv
<1> QED
  BY Zenon, <1>2, <1>3, <1>4

(***************************************************************************)
(* The options of a build.                                                 *)
(***************************************************************************)
LEMMA OptionsType ==
  ASSUME TypeOK
  PROVE  /\ opts.push \in Seq(Names) /\ Len(opts.push) \in Nat
         /\ opts.limit \in Nat /\ opts.plugins \in Nat
         /\ \A i \in 1..Len(opts.push) : opts.push[i] \in Names
         /\ opts.push # <<>> => 1 \in 1..Len(opts.push)
<1>1. opts \in [push : Seq(Names), limit : Nat, plugins : Nat,
                request : [caching : BOOLEAN, disableExport : BOOLEAN,
                           mode : {"", "min", "max", "invalid"}, args : BOOLEAN]]
  BY Zenon, BuilderAssumption DEF TypeOK
<1>2. opts.push \in Seq(Names) /\ opts.limit \in Nat /\ opts.plugins \in Nat
  BY Zenon, <1>1
<1> QED
  BY <1>2

(***************************************************************************)
(* A step that goes on to another line changes nothing else of the job.    *)
(***************************************************************************)
LEMMA GotoFields ==
  ASSUME job \in JobType, NEW s \in JobSteps, Goto(s)
  PROVE  /\ job' \in JobType /\ job'.step = s
         /\ job'.idx = job.idx /\ job'.plugin = job.plugin /\ job'.deferred = job.deferred
         /\ job'.size = job.size /\ job'.err = job.err
  BY Zenon DEF Goto, JobType

(***************************************************************************)
(* Every step of BuildAndPush and of its streams keeps what is known of    *)
(* the stage of the build.                                                 *)
(***************************************************************************)
LEMMA StageSteps ==
  ASSUME TypeOK, FetchInv, job \in JobType, StageInv, Next
  PROVE  job' \in JobType /\ StageInv'
<1> USE OptionsType
<1>1. CASE Start
  <2>1. PICK s \in {"failed", "name"} : Goto(s) /\ (s = "name" => opts.push # <<>>)
    BY Zenon, <1>1 DEF Start
  <2>2. /\ job' \in JobType /\ job'.step = s
        /\ job'.idx = job.idx /\ job'.plugin = job.plugin /\ job'.deferred = job.deferred
        /\ job'.size = job.size /\ job'.err = job.err
    BY Zenon, <2>1, GotoFields DEF JobSteps
  <2> QED
    BY Zenon, <1>1, <2>1, <2>2 DEF Start, StageInv, FirstRound, Building, Serving
<1>2. CASE Name
  <2>1. PICK s \in {"failed", "fetch", "tag"} : Goto(s) /\ (s = "fetch" <=> job.idx = 1 /\ s # "failed")
    BY Zenon, <1>2 DEF Name
  <2>2. /\ job' \in JobType /\ job'.step = s
        /\ job'.idx = job.idx /\ job'.plugin = job.plugin /\ job'.deferred = job.deferred
        /\ job'.size = job.size /\ job'.err = job.err
    BY Zenon, <2>1, GotoFields DEF JobSteps
  <2> QED
    BY Zenon, <1>2, <2>1, <2>2 DEF Name, StageInv, FirstRound, Building, Serving, Registry, HeadImg
<1>3. CASE Fetch
  <2>1. fetch.step # "done"
    BY Zenon, <1>3 DEF Fetch, FetchAndExtract, FetchStarts, CheckDeadline, Get, Copy, Sleep, Sniff, Extract
  <2> QED
    BY Zenon, <1>3, <2>1 DEF Fetch, StageInv, FirstRound, Building, Serving, Registry, HeadImg
<1>4. CASE Fetched
  <2>1. PICK s \in {"prepare", "failed"} : Goto(s) /\ (s = "prepare" => fetch.step = "done")
    BY Zenon, <1>4 DEF Fetched
  <2>2. /\ job' \in JobType /\ job'.step = s
        /\ job'.idx = job.idx /\ job'.plugin = job.plugin /\ job'.deferred = job.deferred
        /\ job'.size = job.size /\ job'.err = job.err
    BY Zenon, <2>1, GotoFields DEF JobSteps
  <2>3. fetch'.step = fetch.step
    BY Zenon, <1>4 DEF Fetched, FetchInv, FetchTypeOK
  <2> QED
    BY Zenon, <1>4, <2>1, <2>2, <2>3 DEF Fetched, StageInv, FirstRound, Building, Serving, Registry, HeadImg
<1>5. CASE Prepare
  <2>1. PICK fails \in BOOLEAN :
          job' = [job EXCEPT !.plugin = @ + 1, !.deferred = @ + 1, !.prepared = @ \cup {job.plugin + 1},
                             !.err = fails, !.step = IF fails THEN "cleanup" ELSE @]
    BY Zenon, <1>5 DEF Prepare
  <2>2. job.plugin \in Nat /\ job.deferred \in Nat
    BY Zenon DEF JobType
  <2>3. /\ job' \in JobType /\ job'.step = (IF fails THEN "cleanup" ELSE "prepare")
        /\ job'.idx = job.idx /\ job'.plugin = job.plugin + 1 /\ job'.deferred = job.deferred + 1
        /\ job'.size = job.size /\ job'.err = fails
    <3>1. job' = [job EXCEPT !.plugin = job.plugin + 1, !.deferred = job.deferred + 1,
                             !.prepared = job.prepared \cup {job.plugin + 1}, !.err = fails,
                             !.step = IF fails THEN "cleanup" ELSE "prepare"]
      BY Zenon, <1>5, <2>1 DEF Prepare
    <3>2. /\ job.plugin + 1 \in Nat /\ job.deferred + 1 \in Nat
          /\ job.prepared \cup {job.plugin + 1} \in SUBSET Nat
          /\ (IF fails THEN "cleanup" ELSE "prepare") \in JobSteps
      BY <2>2 DEF JobType, JobSteps
    <3> QED
      BY Zenon, <3>1, <3>2 DEF JobType
  <2>4. job'.deferred <= job'.plugin /\ job'.plugin <= opts.plugins
    BY <1>5, <2>2, <2>3 DEF Prepare, StageInv
  <2> QED
    BY Zenon, <1>5, <2>3, <2>4 DEF Prepare, StageInv, FirstRound, Building, Serving, Registry, HeadImg
<1>6. CASE Prepared
  <2>1. PICK s \in {"session"} : Goto(s)
    BY Zenon, <1>6 DEF Prepared
  <2>2. /\ job' \in JobType /\ job'.step = s
        /\ job'.idx = job.idx /\ job'.plugin = job.plugin /\ job'.deferred = job.deferred
        /\ job'.size = job.size /\ job'.err = job.err
    BY Zenon, <2>1, GotoFields DEF JobSteps
  <2> QED
    BY Zenon, <1>6, <2>1, <2>2 DEF Prepared, StageInv, FirstRound, Building, Serving, Registry, HeadImg
<1>7. CASE Solve
  <2>1. PICK s \in {"cleanup", "solve"} : /\ job' = [job EXCEPT !.step = s, !.err = job'.err]
                                         /\ job'.err \in BOOLEAN /\ (s = "cleanup" => job'.err)
    BY Zenon, <1>7 DEF Solve, Goto, JobType
  <2>2. /\ job' \in JobType /\ job'.step = s
        /\ job'.idx = job.idx /\ job'.plugin = job.plugin /\ job'.deferred = job.deferred
        /\ job'.size = job.size
    BY Zenon, <2>1 DEF JobType, JobSteps
  <2> QED
    BY Zenon, <1>7, <2>1, <2>2 DEF Solve, StageInv, FirstRound, Building, Serving, Registry, HeadImg
<1>8. CASE RunStream
  BY Zenon, <1>8 DEF RunStream, StageInv, FirstRound, Building, Serving, Registry, HeadImg
<1>9. CASE Solved
  <2>1. job' = [job EXCEPT !.step = "cleanup", !.err = stream.failed] /\ stream.failed \in BOOLEAN
    BY Zenon, <1>9 DEF Solved, TypeOK, StreamTypeOK
  <2>2. /\ job' \in JobType /\ job'.step = "cleanup" /\ job'.err = stream.failed
        /\ job'.idx = job.idx /\ job'.plugin = job.plugin /\ job'.deferred = job.deferred
        /\ job'.size = job.size
    BY Zenon, <2>1 DEF JobType, JobSteps
  <2>3. ~stream.failed => store'[HeadImg] # 0
    <3>1. HeadImg \in Names /\ 0 \notin Sizes
      <4>1. job.idx \in 1..Len(opts.push) /\ job.idx = 1
        BY Zenon, <1>9 DEF Solved, StageInv, Building
      <4> QED
        BY Zenon, <4>1, BuilderAssumption DEF HeadImg
    <3> QED
      BY <1>9, <3>1 DEF Solved, TypeOK
  <2> QED
    BY Zenon, <1>9, <2>2, <2>3 DEF Solved, StageInv, FirstRound, Building, Serving, Registry, HeadImg
<1>10. CASE Cleanup
  <2>1. job.deferred \in Nat /\ job.deferred - 1 \in Nat /\ job.plugin \in Nat /\ job.cleaned \in Seq(Nat)
    BY <1>10 DEF JobType, Cleanup
  <2>2. /\ job' \in JobType /\ job'.step = job.step
        /\ job'.idx = job.idx /\ job'.plugin = job.plugin /\ job'.deferred = job.deferred - 1
        /\ job'.size = job.size /\ job'.err = job.err
    <3>1. Append(job.cleaned, job.plugin) \in Seq(Nat)
      BY <2>1
    <3>2. job' = [job EXCEPT !.deferred = job.deferred - 1, !.cleaned = Append(job.cleaned, job.plugin)]
      BY Zenon, <1>10 DEF Cleanup
    <3> QED
      BY Zenon, <2>1, <3>1, <3>2 DEF JobType
  <2>3. job'.deferred <= job'.plugin
    BY <2>1, <2>2 DEF StageInv
  <2> QED
    BY Zenon, <1>10, <2>2, <2>3 DEF Cleanup, StageInv, FirstRound, Building, Serving, Registry, HeadImg
<1>11. CASE BuildReturns
  <2>1. PICK s \in {"failed", "size"} : Goto(s) /\ (s = "size" => ~job.err)
    BY Zenon, <1>11 DEF BuildReturns
  <2>2. /\ job' \in JobType /\ job'.step = s
        /\ job'.idx = job.idx /\ job'.plugin = job.plugin /\ job'.deferred = job.deferred
        /\ job'.size = job.size /\ job'.err = job.err
    BY Zenon, <2>1, GotoFields DEF JobSteps
  <2> QED
    BY Zenon, <1>11, <2>1, <2>2 DEF BuildReturns, StageInv, FirstRound, Building, Serving, Registry, HeadImg
<1>12. CASE ValidateImageSize
  <2>1. CASE Goto("failed")
    <3>1. /\ job' \in JobType /\ job'.step = "failed" /\ job'.plugin = job.plugin
          /\ job'.deferred = job.deferred /\ job'.idx = job.idx
      BY Zenon, <2>1, GotoFields DEF JobSteps
    <3> QED
      BY Zenon, <1>12, <3>1 DEF ValidateImageSize, StageInv, FirstRound, Building, Serving
  <2>2. CASE job' = [job EXCEPT !.step = "push", !.size = store[HeadImg]]
    <3>1. store[HeadImg] \in Sizes
      BY Zenon, <1>12 DEF ValidateImageSize, StageInv, TypeOK, HeadImg
    <3>2. /\ job' \in JobType /\ job'.step = "push" /\ job'.size = store[HeadImg]
          /\ job'.idx = job.idx /\ job'.plugin = job.plugin /\ job'.deferred = job.deferred
      BY Zenon, <2>2, <3>1 DEF JobType, JobSteps
    <3> QED
      BY Zenon, <1>12, <3>2 DEF ValidateImageSize, StageInv, FirstRound, Building, Serving, Registry, HeadImg
  <2> QED
    BY Zenon, <1>12, <2>1, <2>2 DEF ValidateImageSize
<1>13. CASE Tag
  <2>1. PICK s \in {"push", "failed"} :
          Goto(s) /\ (s = "push" => store' = [store EXCEPT ![Registry] = store[HeadImg]])
    BY Zenon, <1>13 DEF Tag
  <2>2. /\ job' \in JobType /\ job'.step = s
        /\ job'.idx = job.idx /\ job'.plugin = job.plugin /\ job'.deferred = job.deferred
        /\ job'.size = job.size /\ job'.err = job.err
    BY Zenon, <2>1, GotoFields DEF JobSteps
  <2>3. s = "push" => store'[Registry] = store[HeadImg] /\ store'[HeadImg] = store[HeadImg]
    BY <1>13, <2>1 DEF Tag, StageInv, TypeOK, Registry, HeadImg
  <2> QED
    BY <1>13, <2>1, <2>2, <2>3 DEF Tag, StageInv, FirstRound, Building, Serving, Registry, HeadImg
<1>14. CASE Push
  <2>1. PICK s \in {"pushing", "failed"} : Goto(s)
    BY Zenon, <1>14 DEF Push
  <2>2. /\ job' \in JobType /\ job'.step = s
        /\ job'.idx = job.idx /\ job'.plugin = job.plugin /\ job'.deferred = job.deferred
        /\ job'.size = job.size /\ job'.err = job.err
    BY Zenon, <2>1, GotoFields DEF JobSteps
  <2> QED
    BY Zenon, <1>14, <2>1, <2>2 DEF Push, StageInv, FirstRound, Building, Serving, Registry, HeadImg
<1>15. CASE Pushed
  <2>1. CASE stream.failed
    <3>1. /\ job' \in JobType /\ job'.step = "failed" /\ job'.plugin = job.plugin
          /\ job'.deferred = job.deferred /\ job'.idx = job.idx
      BY Zenon, <1>15, <2>1, GotoFields DEF Pushed, JobSteps
    <3> QED
      BY Zenon, <1>15, <3>1 DEF Pushed, StageInv, FirstRound, Building, Serving
  <2>2. CASE ~stream.failed
    <3>1. /\ pushed' = Append(pushed, [name |-> Registry, image |-> store[Registry]])
          /\ job' = IF job.idx = Len(opts.push) THEN [job EXCEPT !.step = "pushed"]
                    ELSE [job EXCEPT !.step = "name", !.idx = @ + 1]
          /\ job.step = "pushing" /\ UNCHANGED <<opts, store, fetch>>
      BY Zenon, <1>15, <2>2 DEF Pushed
    <3>2. job.idx \in 1..Len(opts.push) /\ job.idx \in Nat /\ Len(pushed) = job.idx - 1
      BY Zenon, <3>1 DEF StageInv, JobType
    <3>3. Len(pushed') = job.idx
      BY <3>1, <3>2 DEF TypeOK
    <3>4. CASE job.idx = Len(opts.push)
      <4>1. /\ job' \in JobType /\ job'.step = "pushed" /\ job'.plugin = job.plugin
            /\ job'.deferred = job.deferred /\ job'.idx = job.idx
        BY Zenon, <3>1, <3>4 DEF JobType, JobSteps
      <4> QED
        BY Zenon, <3>1, <4>1 DEF StageInv, FirstRound, Building, Serving
    <3>5. CASE job.idx # Len(opts.push)
      <4>1. /\ job' \in JobType /\ job'.step = "name" /\ job'.plugin = job.plugin
            /\ job'.deferred = job.deferred /\ job'.idx = job.idx + 1 /\ job'.size = job.size
        <5>1. job' = [job EXCEPT !.step = "name", !.idx = job.idx + 1] /\ job.idx + 1 \in Nat
          BY <3>1, <3>2, <3>5
        <5> QED
          BY Zenon, <5>1 DEF JobType, JobSteps
      <4>2. job'.idx \in 1..Len(opts.push) /\ job'.idx # 1 /\ Len(pushed') = job'.idx - 1
        BY <3>2, <3>3, <3>5, <4>1
      <4> QED
        BY Zenon, <3>1, <4>1, <4>2 DEF StageInv, FirstRound, Building, Serving, Registry, HeadImg
    <3> QED
      BY Zenon, <3>4, <3>5
  <2> QED
    BY Zenon, <2>1, <2>2
<1> QED
  BY Zenon, <1>1, <1>2, <1>3, <1>4, <1>5, <1>6, <1>7, <1>8, <1>9, <1>10, <1>11, <1>12, <1>13,
     <1>14, <1>15 DEF Next, BuildAndPush

(***************************************************************************)
(* Appending an element of a set to a sequence over it.                    *)
(***************************************************************************)
LEMMA AppendType ==
  ASSUME NEW S, NEW q \in Seq(S), NEW e \in S
  PROVE  Append(q, e) \in Seq(S)
  OBVIOUS

(***************************************************************************)
(* The types of the image store and of what is pushed.                     *)
(***************************************************************************)
LEMMA TypeSteps ==
  ASSUME TypeOK, StageInv, job \in JobType, StageInv', job' \in JobType,
         FetchTypeOK', StreamTypeOK', Next
  PROVE  TypeOK'
<1>1. opts' = opts
  BY Zenon DEF Next, BuildAndPush, Start, Name, Fetch, Fetched, Prepare, Prepared, Solve, RunStream,
     Solved, Cleanup, BuildReturns, ValidateImageSize, Tag, Push, Pushed
<1>2. opts.plugins \in Nat
  BY Zenon, OptionsType
<1>3. /\ job'.step \in JobSteps /\ job'.size \in Sizes \cup {0}
      /\ job'.idx \in 1..Len(opts.push) \cup {1}
      /\ job'.plugin \in 0..opts.plugins /\ job'.deferred \in 0..opts.plugins
  BY <1>1, <1>2 DEF JobType, StageInv
<1>4. store' \in [Names -> Sizes \cup {0}]
  <2>1. CASE Solved \/ Tag
    <3>1. HeadImg \in Names
      <4>1. job.idx \in 1..Len(opts.push)
        BY Zenon, <2>1 DEF Solved, Tag, StageInv
      <4>2. 1 \in 1..Len(opts.push)
        BY <4>1, OptionsType
      <4> QED
        BY Zenon, <4>2, OptionsType DEF HeadImg
    <3> QED
      BY Zenon, <2>1, <3>1 DEF Solved, Tag, TypeOK
  <2>2. CASE UNCHANGED store
    BY Zenon, <2>2 DEF TypeOK
  <2> QED
    BY Zenon, <2>1, <2>2
    DEF Next, BuildAndPush, Start, Name, Fetch, Fetched, Prepare, Prepared, Solve, RunStream,
        Cleanup, BuildReturns, ValidateImageSize, Push, Pushed
<1>5. pushed' \in Seq([name : Names, image : Sizes])
  <2>1. CASE Pushed
    <3>1. Registry \in Names /\ store[Registry] \in Sizes
      <4>1. /\ job.idx \in 1..Len(opts.push) /\ store[Registry] = job.size /\ job.size # 0
            /\ job.size \in Sizes \cup {0}
        BY Zenon, <2>1 DEF Pushed, StageInv, Serving, JobType
      <4> QED
        BY Zenon, <4>1, OptionsType DEF Registry
    <3>2. \/ UNCHANGED pushed
          \/ pushed' = Append(pushed, [name |-> Registry, image |-> store[Registry]])
      BY Zenon, <2>1 DEF Pushed
    <3>3. [name |-> Registry, image |-> store[Registry]] \in [name : Names, image : Sizes]
      BY Zenon, <3>1
    <3>4. pushed \in Seq([name : Names, image : Sizes])
      BY Zenon DEF TypeOK
    <3>5. Append(pushed, [name |-> Registry, image |-> store[Registry]])
            \in Seq([name : Names, image : Sizes])
      BY Zenon, <3>3, <3>4, AppendType
    <3> QED
      BY Zenon, <3>2, <3>4, <3>5
  <2>2. CASE UNCHANGED pushed
    BY Zenon, <2>2 DEF TypeOK
  <2> QED
    BY Zenon, <2>1, <2>2
    DEF Next, BuildAndPush, Start, Name, Fetch, Fetched, Prepare, Prepared, Solve, RunStream,
        Solved, Cleanup, BuildReturns, ValidateImageSize, Tag, Push
<1> QED
  BY Zenon, <1>1, <1>3, <1>4, <1>5 DEF TypeOK

(***************************************************************************)
(* At first nothing is fetched, streamed, stored or pushed.                *)
(***************************************************************************)
LEMMA InitInv == Init => IInv
<1> SUFFICES ASSUME Init PROVE IInv
  BY Zenon
<1>1. PICK timeout \in Timeouts, source \in Sources : fetch = NoFetch(timeout, source)
  BY Zenon DEF Init
<1>2. FetchTypeOK
  BY <1>1 DEF NoFetch, FetchTypeOK, FetchSteps, Duration, Cap, Steps, Second
<1>3. /\ fetch.step = "off" /\ fetch.clock = 0 /\ fetch.steps = 10 /\ fetch.duration = 10
      /\ fetch.timeout \in Nat
  BY <1>1, FetchAssumption DEF NoFetch, Steps, Duration, Second
<1>4. ArchiveInv /\ InRound(1) /\ RoundInv
  BY <1>3 DEF ArchiveInv, InRound, RoundInv, SleepAfter, Steps
<1>5. ASSUME BoundedAttempts PROVE TimeInv /\ FetchOverdueBounded
  <2>1. Longest \in Nat
    BY Zenon, <1>5, LongestAttempt
  <2>2. \A k \in 1..5 : 0 <= (k - 1) * Longest + SleptBefore[k]
    <3> TAKE k \in 1..5
    <3>1. SleptBefore[k] \in Nat /\ (k - 1) * Longest \in Nat
      BY Zenon, <2>1, RoundTimes
    <3> QED
      BY <3>1
  <2>3. TimeInv
    BY Zenon, <1>3, <2>2 DEF TimeInv
  <2>4. 0 <= 5 * Longest + 341 /\ 0 <= fetch.timeout + Longest + 176
    BY <1>3, <2>1
  <2>5. FetchOverdueBounded
    BY <1>3, <2>4, Overdue DEF FetchOverdueBounded, Longest
  <2> QED
    BY Zenon, <2>3, <2>5
<1>6. StreamTypeOK /\ StreamInv
  BY StreamAssumption DEF Init, NoStream, StreamTypeOK, StreamInv
<1>7. opts \in Options /\ opts.plugins \in Nat
  BY Zenon, BuilderAssumption DEF Init
<1>8. job \in JobType
  BY DEF Init, JobType, JobSteps
<1>9. StageInv
  BY <1>7 DEF Init, StageInv, FirstRound, Building, Serving
<1>10. TypeOK
  BY <1>2, <1>6, <1>7 DEF Init, TypeOK, JobSteps
<1> QED
  BY Zenon, <1>2, <1>4, <1>5, <1>6, <1>8, <1>9, <1>10 DEF IInv, FetchInv

(***************************************************************************)
(* The inductive invariant holds in every reachable state.                 *)
(***************************************************************************)
THEOREM Invariance == Spec => []IInv
<1>1. IInv /\ [Next]_vars => IInv'
  <2> SUFFICES ASSUME IInv, [Next]_vars PROVE IInv'
    BY Zenon
  <2>1. CASE Next
    <3>1. FetchInv'
      <4>1. CASE Fetch
        BY Zenon, <4>1, FetchStep DEF IInv, Fetch
      <4>2. CASE Fetched
        <5>1. fetch' = [fetch EXCEPT !.clock = 0] /\ fetch.step \in {"done", "error"}
          BY Zenon, <4>2 DEF Fetched
        <5>2. /\ fetch'.step = fetch.step /\ fetch'.clock = 0 /\ fetch'.timeout = fetch.timeout
              /\ fetch'.archive = fetch.archive /\ fetch'.contents = fetch.contents
              /\ fetch'.source = fetch.source /\ fetch.timeout \in Nat
          BY Zenon, <5>1, FetchAssumption DEF IInv, FetchInv, FetchTypeOK
        <5>3. FetchTypeOK'
          BY Zenon, <5>1 DEF IInv, FetchInv, FetchTypeOK
        <5>4. ArchiveInv' /\ RoundInv' /\ TimeInv'
          BY Zenon, <5>1, <5>2 DEF IInv, FetchInv, ArchiveInv, RoundInv, TimeInv
        <5>5. ASSUME BoundedAttempts PROVE FetchOverdueBounded'
          <6>1. Longest \in Nat
            BY Zenon, <5>5, LongestAttempt
          <6>2. 0 <= 5 * Longest + 341 /\ 0 <= fetch.timeout + Longest + 176
            BY <5>2, <6>1
          <6> QED
            BY <5>2, <6>2, Overdue DEF FetchOverdueBounded, Longest
        <5> QED
          BY Zenon, <5>3, <5>4, <5>5 DEF FetchInv, BoundedAttempts
      <4>3. CASE UNCHANGED fetch
        BY Zenon, <4>3, FetchKept DEF IInv
      <4> QED
        BY Zenon, <2>1, <4>1, <4>2, <4>3
        DEF Next, BuildAndPush, Start, Name, Prepare, Prepared, Solve, RunStream, Solved,
            Cleanup, BuildReturns, ValidateImageSize, Tag, Push, Pushed
    <3>2. StreamTypeOK' /\ StreamInv'
      <4>1. CASE RunStream
        BY Zenon, <4>1, StreamSteps DEF IInv, TypeOK, RunStream
      <4>2. CASE Solve \/ Solved \/ Push \/ Pushed
        BY Zenon, <4>2, StreamKept, NewStream DEF IInv, TypeOK, Solve, Solved, Push, Pushed
      <4>3. CASE UNCHANGED stream
        BY Zenon, <4>3, StreamKept DEF IInv, TypeOK
      <4> QED
        BY Zenon, <2>1, <4>1, <4>2, <4>3
        DEF Next, BuildAndPush, Start, Name, Fetch, Fetched, Prepare, Prepared, Cleanup,
            BuildReturns, ValidateImageSize, Tag
    <3>3. job' \in JobType /\ StageInv'
      BY Zenon, <2>1, StageSteps DEF IInv
    <3>4. TypeOK'
      BY Zenon, <2>1, <3>1, <3>2, <3>3, TypeSteps DEF IInv, FetchInv
    <3> QED
      BY Zenon, <3>1, <3>2, <3>3, <3>4 DEF IInv
  <2>2. CASE UNCHANGED vars
    <3>1. UNCHANGED <<opts, job, store, pushed>> /\ UNCHANGED fetch /\ UNCHANGED stream
      BY Zenon, <2>2 DEF vars
    <3>2. FetchInv' /\ StreamTypeOK' /\ StreamInv'
      BY Zenon, <3>1, FetchKept, StreamKept DEF IInv, TypeOK
    <3>3. job' \in JobType /\ StageInv'
      BY Zenon, <3>1 DEF IInv, StageInv, FirstRound, Building, Serving, Registry, HeadImg
    <3> QED
      BY Zenon, <3>1, <3>2, <3>3 DEF IInv, TypeOK, FetchInv
  <2> QED
    BY Zenon, <2>1, <2>2
<1> QED
  BY <1>1, InitInv, PTL DEF Spec

(***************************************************************************)
(* BuildAndPush and its goroutines keep their types: the loop stays within *)
(* the registries, and no more clean-ups run than were deferred.           *)
(***************************************************************************)
THEOREM TypeCorrect == Spec => []TypeOK
<1>1. IInv => TypeOK
  BY Zenon DEF IInv
<1> QED
  BY <1>1, Invariance, PTL

(***************************************************************************)
(* No image is built from half a context, except from a bare tar of no     *)
(* announced length.                                                       *)
(***************************************************************************)
THEOREM ContextSafe == Spec => []BuiltFromWholeContext
<1>1. IInv => BuiltFromWholeContext
  <2> SUFFICES ASSUME IInv, job.step \notin {"start", "name", "fetch", "failed"}
               PROVE  fetch.contents = "whole" \/ (fetch.source.kind = "tar" /\ ~fetch.source.sized)
    BY Zenon DEF BuiltFromWholeContext
  <2>1. fetch.step = "done"
    BY Zenon DEF IInv, StageInv, JobType, JobSteps, Building, Serving
  <2> QED
    BY Zenon, <2>1 DEF IInv, FetchInv, ArchiveInv
<1> QED
  BY <1>1, Invariance, PTL

(***************************************************************************)
(* FetchAndExtract ends within its bounds whatever the server does, as     *)
(* long as some attempt to download is the longest.                        *)
(***************************************************************************)
THEOREM FetchInTime ==
  ASSUME BoundedAttempts
  PROVE  Spec => []FetchOverdueBounded
<1>1. IInv => FetchOverdueBounded
  BY Zenon DEF IInv, FetchInv
<1> QED
  BY <1>1, Invariance, PTL

(***************************************************************************)
(* When Wait returns, the display has shown every update of buildkit,      *)
(* however many there were and whatever failed.                            *)
(***************************************************************************)
THEOREM UpdatesShown == Spec => []EveryUpdateShown
<1>1. IInv => EveryUpdateShown
  <2> SUFFICES ASSUME IInv, Waited PROVE stream.shown = stream.sent
    BY Zenon DEF EveryUpdateShown
  <2>1. stream.sent \in Nat /\ stream.shown \in Nat
    BY DEF IInv, TypeOK, StreamTypeOK
  <2>2. stream.status # "sending" /\ stream.conv # "hold"
    BY Zenon DEF IInv, Waited, StreamInv
  <2> QED
    BY <2>1, <2>2 DEF IInv, StreamInv
<1> QED
  BY <1>1, Invariance, PTL

(***************************************************************************)
(* BuildAndPush implements AbstractBuilder.  Validating the size of the    *)
(* image is the abstract build, the end of a push that succeeds is the     *)
(* abstract push, and every other step either fails or is not seen.        *)
(***************************************************************************)
THEOREM Refinement == Spec => ImplementsBuilder
<1>1. Init => Abstract!Init
  BY DEF Init, Abstract!Init
<1>2. IInv /\ [Next]_vars => [Abstract!Next]_(Abstract!vars)
  <2> SUFFICES ASSUME IInv, [Next]_vars PROVE [Abstract!Next]_(Abstract!vars)
    BY Zenon
  <2>1. ASSUME UNCHANGED <<opts, pushed>>, job'.size = job.size,
               \/ job.step \notin {"pushed", "failed"} /\ job'.step \notin {"pushed", "failed"}
               \/ job'.step = job.step
        PROVE  UNCHANGED Abstract!vars
    BY Zenon, <2>1 DEF Abstract!vars
  <2>2. ASSUME UNCHANGED <<opts, pushed>>, job'.size = job.size,
               job.step \notin {"pushed", "failed"}, job'.step = "failed"
        PROVE  Abstract!Fail
    BY Zenon, <2>2 DEF Abstract!Fail
  <2>3. ASSUME NEW s \in JobSteps, Goto(s), s # "pushed",
               UNCHANGED <<opts, pushed>>, job.step \notin {"pushed", "failed"}
        PROVE  [Abstract!Next]_(Abstract!vars)
    <3>1. job'.step = s /\ job'.size = job.size
      BY Zenon, <2>3, GotoFields DEF IInv
    <3> QED
      BY Zenon, <2>1, <2>2, <2>3, <3>1 DEF Abstract!Next
  <2>4. CASE Start \/ Name \/ Fetched \/ Prepared \/ BuildReturns \/ Tag \/ Push
    BY Zenon, <2>3, <2>4
    DEF Start, Name, Fetched, Prepared, BuildReturns, Tag, Push, JobSteps
  <2>5. CASE Fetch \/ RunStream \/ UNCHANGED vars
    BY Zenon, <2>1, <2>5 DEF Fetch, RunStream, vars
  <2>6. CASE Prepare \/ Solve \/ Solved \/ Cleanup
    <3>1. UNCHANGED <<opts, pushed>> /\ job.step \notin {"pushed", "failed"}
      BY Zenon, <2>6 DEF Prepare, Solve, Solved, Cleanup
    <3>2. job'.size = job.size /\ job'.step \notin {"pushed", "failed"}
      BY Zenon, <2>6 DEF IInv, JobType, Prepare, Solve, Solved, Cleanup, Goto
    <3> QED
      BY Zenon, <2>1, <3>1, <3>2
  <2>7. CASE ValidateImageSize
    <3>1. CASE Goto("failed")
      BY Zenon, <2>3, <2>7, <3>1 DEF ValidateImageSize, JobSteps
    <3>2. CASE /\ opts.limit > 0 => store[HeadImg] <= opts.limit
               /\ job' = [job EXCEPT !.step = "push", !.size = store[HeadImg]]
      <4>1. /\ job.step = "size" /\ job.size = 0 /\ store[HeadImg] # 0 /\ job.idx = 1
            /\ job.idx \in 1..Len(opts.push)
        BY Zenon, <2>7 DEF ValidateImageSize, IInv, StageInv
      <4>2. store[HeadImg] \in Nat \ {0}
        <5>1. HeadImg \in Names
          BY Zenon, <4>1, OptionsType DEF IInv, HeadImg
        <5>2. store[HeadImg] \in Sizes
          BY Zenon, <4>1, <5>1 DEF IInv, TypeOK
        <5> QED
          BY Zenon, <5>2, BuilderAssumption
      <4>3. job'.size = store[HeadImg] /\ job'.step = "push"
        BY Zenon, <3>2 DEF IInv, JobType
      <4>4. Abstract!Build
        BY Zenon, <2>7, <3>2, <4>1, <4>2, <4>3 DEF ValidateImageSize, Abstract!Build
      <4> QED
        BY Zenon, <4>4 DEF Abstract!Next
    <3> QED
      BY Zenon, <2>7, <3>1, <3>2 DEF ValidateImageSize
  <2>8. CASE Pushed
    <3>1. CASE stream.failed
      BY Zenon, <2>3, <2>8, <3>1 DEF Pushed, JobSteps
    <3>2. CASE ~stream.failed
      <4>1. /\ job.step = "pushing" /\ UNCHANGED opts
            /\ pushed' = Append(pushed, [name |-> Registry, image |-> store[Registry]])
            /\ job' = IF job.idx = Len(opts.push) THEN [job EXCEPT !.step = "pushed"]
                      ELSE [job EXCEPT !.step = "name", !.idx = @ + 1]
        BY Zenon, <2>8, <3>2 DEF Pushed
      <4>2. /\ job.size # 0 /\ store[Registry] = job.size /\ Len(pushed) = job.idx - 1
            /\ job.idx \in Nat
        BY Zenon, <4>1 DEF IInv, StageInv, Serving, JobType
      <4>3. Len(pushed) + 1 = job.idx /\ Len(pushed') = job.idx
        BY <4>1, <4>2 DEF IInv, TypeOK
      <4>4. job'.size = job.size
            /\ job'.step = IF job.idx = Len(opts.push) THEN "pushed" ELSE "name"
        BY Zenon, <4>1 DEF IInv, JobType
      <4>5. Abstract!Push
        BY <4>1, <4>2, <4>3, <4>4 DEF Abstract!Push, Registry
      <4> QED
        BY Zenon, <4>5 DEF Abstract!Next
    <3> QED
      BY Zenon, <3>1, <3>2
  <2> QED
    BY Zenon, <2>4, <2>5, <2>6, <2>7, <2>8 DEF Next, BuildAndPush
<1> QED
  BY <1>1, <1>2, Invariance, PTL DEF Spec, ImplementsBuilder, Abstract!Spec
=============================================================================
