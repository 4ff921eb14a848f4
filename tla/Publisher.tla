----------------------------- MODULE Publisher -----------------------------
(***************************************************************************)
(* The message publisher (internal/message) inside the process of a build  *)
(* job: the main goroutine makes it, pushes the messages of the build one  *)
(* by one and closes it; a goroutine per connection watches for its loss;  *)
(* and the goroutine that waits for SIGTERM closes it at any time.  They   *)
(* share p.conn, p.channel and the unbuffered channel p.err, without locks.*)
(*                                                                         *)
(* A connection that breaks is written to as before until the library      *)
(* notices (a read error, or missing heartbeats); calls that wait for an   *)
(* answer of the broker wait until then.                                   *)
(***************************************************************************)
EXTENDS Integers, Sequences, FiniteSets

CONSTANTS
  RetryLimit,  \* connectionRetryLimit
  MaxConns,    \* bound: connections ever established
  MaxPushes    \* messages of one build: Building, then its outcome

ASSUME PublisherAssumption ==
  /\ RetryLimit \in Nat \ {0}
  /\ MaxConns \in Nat
  /\ MaxPushes \in Nat

VARIABLES
  process,  \* the process of the build job
  main,     \* the main goroutine
  stopper,  \* the goroutine that waits for SIGTERM
  watcher,  \* watcher[c]: the goroutine started for the c-th connection
  conn,     \* conn[c]: the c-th connection
  pconn,    \* p.conn: a connection, 0 for nil
  channel,  \* p.channel: the connection it is on (0 for nil), and is it open?
  queue,    \* the messages on the queue at the broker, <<>> when it is new
  declared, \* does the queue exist?
  sentOn    \* history, sentOn[m]: the connection message m was written to

vars == <<process, main, stopper, watcher, conn, pconn, channel, queue, declared, sentOn>>

brokerVars == <<conn, queue, declared, sentOn>>

Conns == 1..MaxConns

PushIds == 1..MaxPushes

MainSteps ==
  {"dial", "tick", "channel", "idle", "declare", "publish", "close", "closing", "ended"}

(***************************************************************************)
(* main.new: is connect called by NewPublisher (or by Push)?  main.counter *)
(* is the counter of connect and main.pushed the message Push was called   *)
(* with last.                                                              *)
(***************************************************************************)
TypeOK ==
  /\ process \in {"running", "exited", "panicked"}
  /\ main \in [step : MainSteps, new : BOOLEAN, counter : 0..RetryLimit, pushed : 0..MaxPushes]
  /\ stopper \in {"none", "waiting", "closing", "done"}
  /\ watcher \in [Conns -> [step : {"none", "started", "waiting", "offering", "ended"},
                            on : Conns \cup {0}]]
  /\ conn \in [Conns -> {"none", "open", "broken", "dead", "closed"}]
  /\ pconn \in Conns \cup {0}
  /\ channel \in [on : Conns \cup {0}, open : BOOLEAN]
  /\ queue \in Seq(PushIds)
  /\ declared \in BOOLEAN
  /\ sentOn \in [PushIds -> Conns \cup {0}]

NilChannel == [on |-> 0, open |-> FALSE]

\* NewPublisher has just called connect.  An earlier build may have left the queue.
Init ==
  /\ process = "running"
  /\ main = [step |-> "dial", new |-> TRUE, counter |-> 0, pushed |-> 0]
  /\ stopper = "none"
  /\ watcher = [c \in Conns |-> [step |-> "none", on |-> 0]]
  /\ conn = [c \in Conns |-> "none"]
  /\ pconn = 0
  /\ channel = NilChannel
  /\ queue = <<>>
  /\ declared \in BOOLEAN
  /\ sentOn = [m \in PushIds |-> 0]

At(step) == process = "running" /\ main.step = step

Goto(step) == main' = [main EXCEPT !.step = step]

(***************************************************************************)
(* connect.  A failed dial leaves nil in p.conn.  The ticker is awaited    *)
(* after every failed attempt, the last one included.                      *)
(***************************************************************************)
\* Mutant of DialFails: the counter is not incremented.
DialFailsUncounted ==
  /\ At("dial")
  /\ pconn' = 0
  /\ main' = [main EXCEPT !.step = "tick"]
  /\ UNCHANGED <<process, stopper, watcher, channel, brokerVars>>

DialFails ==
  /\ At("dial")
  /\ pconn' = 0
  /\ main' = [main EXCEPT !.step = "tick", !.counter = @ + 1]
  /\ UNCHANGED <<process, stopper, watcher, channel, brokerVars>>

Dials(c) ==
  /\ At("dial")
  /\ conn[c] = "none"
  /\ \A d \in 1..(c - 1) : conn[d] # "none"
  /\ conn' = [conn EXCEPT ![c] = "open"]
  /\ pconn' = c
  /\ watcher' = [watcher EXCEPT ![c].step = "started"]
  /\ Goto("channel")
  /\ UNCHANGED <<process, stopper, channel, queue, declared, sentOn>>

\* Mutant of ConnectFails: the job goes on without having told anyone.
ConnectFailsUnheeded ==
  /\ Goto("idle")
  /\ UNCHANGED <<process, stopper>>

\* NewPublisher's error ends the process before it can be stopped or cleaned
\* up; Push's ends Run, whose panic runs the deferred Cleanup.
ConnectFails ==
  /\ Goto(IF main.new THEN "ended" ELSE "close")
  /\ process' = IF main.new THEN "panicked" ELSE process
  /\ UNCHANGED stopper

\* Mutant of Tick: one attempt too many.
TickOnceMore ==
  /\ At("tick")
  /\ \/ /\ main.counter <= RetryLimit
        /\ Goto("dial")
        /\ UNCHANGED <<process, stopper>>
     \/ /\ main.counter > RetryLimit
        /\ ConnectFails
  /\ UNCHANGED <<watcher, pconn, channel, brokerVars>>

\* The error "retry limit reached", or another attempt.
Tick ==
  /\ At("tick")
  /\ \/ /\ main.counter < RetryLimit
        /\ Goto("dial")
        /\ UNCHANGED <<process, stopper>>
     \/ /\ main.counter = RetryLimit
        /\ ConnectFails
  /\ UNCHANGED <<watcher, pconn, channel, brokerVars>>

\* New returns and SIGTERM is listened to; or Push goes on.
OpensChannel ==
  /\ At("channel")
  /\ conn[pconn] = "open"
  /\ channel' = [on |-> pconn, open |-> TRUE]
  /\ main' = [main EXCEPT !.step = IF main.new THEN "idle" ELSE "declare", !.new = FALSE]
  /\ stopper' = IF main.new THEN "waiting" ELSE stopper
  /\ UNCHANGED <<process, watcher, pconn, brokerVars>>

\* Mutant of ChannelFails: another connection is tried, this one is forgotten.
ChannelFailsRedials ==
  /\ At("channel")
  /\ conn[pconn] # "broken"
  /\ channel' = NilChannel
  /\ Goto("dial")
  /\ UNCHANGED <<process, stopper, watcher, pconn, brokerVars>>

\* The connection was lost or closed meanwhile, or the broker refuses.
ChannelFails ==
  /\ At("channel")
  /\ conn[pconn] # "broken"
  /\ channel' = NilChannel
  /\ ConnectFails
  /\ UNCHANGED <<watcher, pconn, brokerVars>>

(***************************************************************************)
(* Push: reconnect if a watcher offers the error of a lost connection at   *)
(* this very moment, else use the channel there is.                        *)
(***************************************************************************)
Offering == {c \in Conns : watcher[c].step = "offering"}

\* Mutant of PushReconnects: every Push connects again.
PushAlwaysReconnects ==
  /\ At("idle")
  /\ main.pushed < MaxPushes
  /\ main' = [step |-> "dial", new |-> FALSE, counter |-> 0, pushed |-> main.pushed + 1]
  /\ UNCHANGED <<process, stopper, watcher, pconn, channel, brokerVars>>

PushReconnects ==
  /\ At("idle")
  /\ main.pushed < MaxPushes
  /\ \E c \in Offering : watcher' = [watcher EXCEPT ![c].step = "ended"]
  /\ main' = [step |-> "dial", new |-> FALSE, counter |-> 0, pushed |-> main.pushed + 1]
  /\ UNCHANGED <<process, stopper, pconn, channel, brokerVars>>

\* Mutant of PushUsesChannel: the queue is taken to exist.
PushUndeclared ==
  /\ At("idle")
  /\ main.pushed < MaxPushes
  /\ Offering = {}
  /\ main' = [main EXCEPT !.step = "publish", !.pushed = @ + 1]
  /\ UNCHANGED <<process, stopper, watcher, pconn, channel, brokerVars>>

PushUsesChannel ==
  /\ At("idle")
  /\ main.pushed < MaxPushes
  /\ Offering = {}
  /\ main' = [main EXCEPT !.step = "declare", !.pushed = @ + 1]
  /\ UNCHANGED <<process, stopper, watcher, pconn, channel, brokerVars>>

Usable == channel.on # 0 /\ channel.open /\ conn[channel.on] = "open"

Declare ==
  /\ At("declare")
  /\ Usable
  /\ declared' = TRUE
  /\ Goto("publish")
  /\ UNCHANGED <<process, stopper, watcher, conn, pconn, channel, queue, sentOn>>

\* The channel is closed, or the broker refuses the queue and closes it; the
\* job ends either way.  A nil channel is a nil pointer.
DeclareFails ==
  /\ At("declare")
  /\ channel.on # 0 => conn[channel.on] # "broken"
  /\ channel' = [channel EXCEPT !.open = FALSE]
  /\ Goto(IF channel.on = 0 THEN "ended" ELSE "close")
  /\ process' = IF channel.on = 0 THEN "panicked" ELSE process
  /\ UNCHANGED <<stopper, watcher, pconn, brokerVars>>

\* Nobody waits for the broker here: on a broken connection the message is
\* written and lost, and for a queue that is not there it is dropped.
Publish ==
  /\ At("publish")
  /\ channel.on # 0
  /\ conn[channel.on] \in {"open", "broken"}
  /\ queue' = IF conn[channel.on] = "open" /\ declared THEN Append(queue, main.pushed) ELSE queue
  /\ sentOn' = [sentOn EXCEPT ![main.pushed] = channel.on]
  /\ Goto("idle")
  /\ UNCHANGED <<process, stopper, watcher, conn, pconn, channel, declared>>

\* Mutant of PublishFails: the job goes on although a message is missing.
PublishFailsUnheeded ==
  /\ At("publish")
  /\ conn[channel.on] \in {"dead", "closed"}
  /\ Goto("idle")
  /\ UNCHANGED <<process, stopper, watcher, pconn, channel, brokerVars>>

PublishFails ==
  /\ At("publish")
  /\ conn[channel.on] \in {"dead", "closed"}
  /\ Goto("close")
  /\ UNCHANGED <<process, stopper, watcher, pconn, channel, brokerVars>>

(***************************************************************************)
(* Run returns, after its last message or before, and Cleanup calls Close. *)
(* Close looks at p.conn, then calls it, and waits for the broker.         *)
(***************************************************************************)
RunReturns ==
  /\ At("idle")
  /\ Goto("close")
  /\ UNCHANGED <<process, stopper, watcher, pconn, channel, brokerVars>>

CloseChecks ==
  /\ At("close")
  /\ Goto(IF pconn = 0 THEN "ended" ELSE "closing")
  /\ process' = IF pconn = 0 THEN "exited" ELSE process
  /\ UNCHANGED <<stopper, watcher, pconn, channel, brokerVars>>

\* Conn.Close: of no effect on a connection that is dead or closed.
Closed(c) == [conn EXCEPT ![c] = IF @ = "open" THEN "closed" ELSE @]

CloseEnds ==
  /\ At("closing")
  /\ conn[pconn] # "broken"
  /\ conn' = Closed(pconn)
  /\ Goto("ended")
  /\ process' = "exited"
  /\ UNCHANGED <<stopper, watcher, pconn, channel, queue, declared, sentOn>>

(***************************************************************************)
(* SIGTERM: Close in a goroutine of its own, then os.Exit.  p.conn may     *)
(* have become nil since Close looked at it.                               *)
(***************************************************************************)
Stop ==
  /\ process = "running"
  /\ stopper = "waiting"
  /\ stopper' = IF pconn = 0 THEN "done" ELSE "closing"
  /\ process' = IF pconn = 0 THEN "exited" ELSE process
  /\ UNCHANGED <<main, watcher, pconn, channel, brokerVars>>

StopCloses ==
  /\ process = "running"
  /\ stopper = "closing"
  /\ pconn # 0 => conn[pconn] # "broken"
  /\ conn' = IF pconn = 0 THEN conn ELSE Closed(pconn)
  /\ process' = IF pconn = 0 THEN "panicked" ELSE "exited"
  /\ stopper' = "done"
  /\ UNCHANGED <<main, watcher, pconn, channel, queue, declared, sentOn>>

(***************************************************************************)
(* The watcher of a connection reads p.conn when it first runs.            *)
(* NotifyClose closes the receiver at once when the connection is over; a  *)
(* reason only comes to those who had registered before it was lost, and   *)
(* is then offered to the next Push.                                       *)
(***************************************************************************)
WatcherRegisters(c) ==
  /\ process = "running"
  /\ watcher[c].step = "started"
  /\ process' = IF pconn = 0 THEN "panicked" ELSE process
  /\ watcher' = [watcher EXCEPT ![c] =
       [step |-> IF pconn # 0 /\ conn[pconn] \in {"open", "broken"} THEN "waiting" ELSE "ended",
        on |-> pconn]]
  /\ UNCHANGED <<main, stopper, pconn, channel, brokerVars>>

WatcherNotified(c) ==
  /\ process = "running"
  /\ watcher[c].step = "waiting"
  /\ conn[watcher[c].on] \in {"dead", "closed"}
  /\ watcher' = [watcher EXCEPT ![c].step =
       IF conn[watcher[c].on] = "dead" THEN "offering" ELSE "ended"]
  /\ UNCHANGED <<process, main, stopper, pconn, channel, brokerVars>>

Breaks(c) ==
  /\ process = "running"
  /\ conn[c] = "open"
  /\ conn' = [conn EXCEPT ![c] = "broken"]
  /\ UNCHANGED <<process, main, stopper, watcher, pconn, channel, queue, declared, sentOn>>

LossNoticed(c) ==
  /\ process = "running"
  /\ conn[c] = "broken"
  /\ conn' = [conn EXCEPT ![c] = "dead"]
  /\ UNCHANGED <<process, main, stopper, watcher, pconn, channel, queue, declared, sentOn>>

Connect == DialFails \/ (\E c \in Conns : Dials(c)) \/ Tick \/ OpensChannel \/ ChannelFails

Push == PushReconnects \/ PushUsesChannel \/ Declare \/ DeclareFails \/ Publish \/ PublishFails

Close == CloseChecks \/ CloseEnds

Next ==
  \/ Connect
  \/ Push
  \/ RunReturns
  \/ Close
  \/ Stop
  \/ StopCloses
  \/ \E c \in Conns :
       WatcherRegisters(c) \/ WatcherNotified(c) \/ Breaks(c) \/ LossNoticed(c)

\* Goroutines run, dials end, the broker answers on connections that work, and
\* the loss of a connection is noticed.  SIGTERM may never come.
Fairness ==
  /\ WF_vars(Connect)
  /\ WF_vars(Push \/ RunReturns)
  /\ WF_vars(Close)
  /\ WF_vars(StopCloses)
  /\ \A c \in Conns :
       WF_vars(WatcherRegisters(c) \/ WatcherNotified(c)) /\ WF_vars(LossNoticed(c))

Spec == Init /\ [][Next]_vars /\ Fairness

-----------------------------------------------------------------------------
(***************************************************************************)
(* Properties                                                              *)
(***************************************************************************)

(***************************************************************************)
(* The goroutine that connect starts reads p.conn outside of connect, yet  *)
(* it always registers with the connection it was started for: nothing     *)
(* replaces p.conn before it has run, in particular not by nil.            *)
(***************************************************************************)
WatcherWatchesItsConnection ==
  \A c \in Conns :
    /\ watcher[c].step = "started" => pconn = c
    /\ watcher[c].on \in {0, c}

(***************************************************************************)
(* The publisher never loses hold of a connection that is not over: it is  *)
(* the one in p.conn, which Close will close.                              *)
(***************************************************************************)
NoConnectionLeaks ==
  \A c \in Conns : conn[c] \in {"open", "broken"} => pconn = c

(***************************************************************************)
(* Push never uses the nil channel that a failed connect leaves behind.    *)
(***************************************************************************)
NilChannelNeverUsed ==
  process = "running" /\ main.step \in {"declare", "publish"} => channel.on # 0

(***************************************************************************)
(* A message that Push has written is on the queue unless the connection   *)
(* it was written to broke.                                                *)
(***************************************************************************)
LostOnlyWithItsConnection ==
  \A m \in PushIds :
    sentOn[m] # 0 /\ conn[sentOn[m]] \in {"open", "closed"} =>
      \E i \in DOMAIN queue : queue[i] = m

(***************************************************************************)
(* Across lost and new connections the messages of a build are on the      *)
(* queue in their order and once, and after one that could not be sent     *)
(* there is no other.                                                      *)
(***************************************************************************)
NothingAfterAFailure ==
  /\ \A i, j \in DOMAIN queue : i < j => queue[i] < queue[j]
  /\ \A m \in PushIds : sentOn[m] # 0 => \A k \in 1..m : sentOn[k] # 0

(***************************************************************************)
(* A call of NewPublisher, Push or Close returns, or the process is over:  *)
(* dialling ends after connectionRetryLimit attempts, and nobody waits for *)
(* a broker that is gone.                                                  *)
(***************************************************************************)
CallsReturn == (main.step # "idle") ~> (main.step = "idle" \/ process # "running")
=============================================================================
