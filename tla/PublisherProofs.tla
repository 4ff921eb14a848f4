-------------------------- MODULE PublisherProofs --------------------------
(***************************************************************************)
(* Proofs about the message publisher, for any number of connections, of   *)
(* messages and of attempts to connect.                                    *)
(***************************************************************************)
EXTENDS Publisher, TLAPS

Watching == {"started", "waiting", "offering"}

(***************************************************************************)
(* One connection at a time.  A connection that is not over, and a watcher *)
(* that has not ended, belong to p.conn; and there is neither when connect *)
(* dials, which is the only time that p.conn is written.  connect is       *)
(* called by NewPublisher, when there was none before, and by Push after   *)
(* it has received from the watcher of a dead connection.                  *)
(***************************************************************************)
ConnInv ==
  /\ \A c \in Conns :
       /\ watcher[c].step \in Watching => pconn = c /\ main.step \notin {"dial", "tick"}
       /\ conn[c] \in {"open", "broken"} => pconn = c /\ main.step \notin {"dial", "tick"}
       /\ watcher[c].on \in {0, c}
       /\ watcher[c].step \in {"waiting", "offering"} => watcher[c].on = c
       /\ watcher[c].step = "offering" => conn[c] = "dead"
  /\ main.step = "dial" => main.counter < RetryLimit
  /\ main.step \in {"channel", "closing"} => pconn # 0

(***************************************************************************)
(* Push is in progress, in connect or after it.                            *)
(***************************************************************************)
InPush ==
  \/ main.step \in {"declare", "publish"}
  \/ main.step \in {"dial", "tick", "channel"} /\ ~main.new

(***************************************************************************)
(* The messages written are those of the calls of Push that have returned  *)
(* without an error, and these are all of them until one fails; the queue  *)
(* has no others, exists when something is written, and there is a channel *)
(* to write to.                                                            *)
(***************************************************************************)
MessageInv ==
  /\ main.step \in {"idle", "declare", "publish"} => channel.on # 0 /\ ~main.new
  /\ main.new => main.pushed = 0
  /\ main.step = "publish" => declared
  /\ InPush => main.pushed > 0
  /\ \A m \in PushIds :
       /\ sentOn[m] # 0 => m <= main.pushed /\ conn[sentOn[m]] # "none"
       /\ InPush => (sentOn[m] # 0 <=> m < main.pushed)
       /\ main.step = "idle" => (sentOn[m] # 0 <=> m <= main.pushed)
  /\ \A i \in DOMAIN queue : sentOn[queue[i]] # 0

IInv ==
  /\ TypeOK
  /\ ConnInv
  /\ MessageInv
  /\ LostOnlyWithItsConnection
  /\ NothingAfterAFailure

(***************************************************************************)
(* A message that is appended comes last and leaves the others in place.   *)
(***************************************************************************)
LEMMA AppendFacts ==
  ASSUME NEW S, NEW q \in Seq(S), NEW x \in S
  PROVE  /\ Len(q) \in Nat /\ DOMAIN q = 1..Len(q)
         /\ Append(q, x) \in Seq(S) /\ DOMAIN Append(q, x) = 1..(Len(q) + 1)
         /\ \A i \in 1..Len(q) : Append(q, x)[i] = q[i]
         /\ Append(q, x)[Len(q) + 1] = x
  OBVIOUS

(***************************************************************************)
(* At the start nothing is connected and nothing sent.                     *)
(***************************************************************************)
LEMMA InitInv == Init => IInv
<1> SUFFICES ASSUME Init PROVE IInv
  OBVIOUS
<1>1. TypeOK
  BY PublisherAssumption DEF Init, TypeOK, MainSteps, NilChannel, Conns, PushIds
<1>2. ConnInv
  BY PublisherAssumption DEF Init, ConnInv, Watching
<1>3. MessageInv
  BY DEF Init, MessageInv, InPush
<1>4. LostOnlyWithItsConnection /\ NothingAfterAFailure
  BY DEF Init, LostOnlyWithItsConnection, NothingAfterAFailure
<1> QED
  BY <1>1, <1>2, <1>3, <1>4 DEF IInv

(***************************************************************************)
(* connect keeps the invariant.                                            *)
(***************************************************************************)
LEMMA ConnectInv == IInv /\ Connect => IInv'
<1> SUFFICES ASSUME IInv, Connect PROVE IInv'
  OBVIOUS
<1> USE DEF IInv
<1>1. CASE DialFails
  <2>0. main.counter + 1 \in 0..RetryLimit
    BY <1>1, PublisherAssumption DEF DialFails, At, TypeOK, ConnInv
  <2>1. TypeOK'
    BY Zenon, <1>1, <2>0 DEF DialFails, brokerVars, TypeOK, MainSteps
  <2>2. ConnInv'
    BY <1>1, PublisherAssumption DEF DialFails, At, Goto, ConnectFails, brokerVars, TypeOK, MainSteps, NilChannel, ConnInv, Watching, Conns
  <2>3. MessageInv'
    BY <1>1, PublisherAssumption DEF DialFails, At, Goto, ConnectFails, brokerVars, TypeOK, MainSteps, NilChannel, MessageInv, InPush, ConnInv
  <2>4. LostOnlyWithItsConnection'
    BY <1>1 DEF DialFails, At, Goto, brokerVars, TypeOK, MessageInv, LostOnlyWithItsConnection
  <2>5. NothingAfterAFailure'
    BY <1>1 DEF DialFails, At, Goto, brokerVars, NothingAfterAFailure
  <2> QED
    BY <2>1, <2>2, <2>3, <2>4, <2>5
<1>2. ASSUME NEW c \in Conns, Dials(c) PROVE IInv'
  <2>1. TypeOK'
    <3>1. main' \in [step : MainSteps, new : BOOLEAN, counter : 0..RetryLimit, pushed : 0..MaxPushes]
      BY <1>2 DEF Dials, Goto, TypeOK, MainSteps
    <3>2. watcher' \in [Conns -> [step : {"none", "started", "waiting", "offering", "ended"},
                                  on : Conns \cup {0}]]
      BY <1>2 DEF Dials, TypeOK
    <3> QED
      BY <1>2, <3>1, <3>2 DEF Dials, TypeOK
  <2>2. ConnInv'
    BY <1>2, PublisherAssumption DEF Dials, At, Goto, ConnectFails, brokerVars, TypeOK, MainSteps, NilChannel, ConnInv, Watching, Conns
  <2>3. MessageInv'
    BY <1>2, PublisherAssumption DEF Dials, At, Goto, ConnectFails, brokerVars, TypeOK, MainSteps, NilChannel, MessageInv, InPush, ConnInv
  <2>4. LostOnlyWithItsConnection'
    BY <1>2 DEF Dials, At, Goto, brokerVars, TypeOK, MessageInv, LostOnlyWithItsConnection
  <2>5. NothingAfterAFailure'
    BY <1>2 DEF Dials, At, Goto, brokerVars, NothingAfterAFailure
  <2> QED
    BY <2>1, <2>2, <2>3, <2>4, <2>5
<1>3. CASE Tick
  <2>1. TypeOK'
    BY <1>3, PublisherAssumption DEF Tick, At, Goto, ConnectFails, brokerVars, TypeOK, MainSteps, NilChannel, ConnInv
  <2>2. ConnInv'
    BY Zenon, <1>3, PublisherAssumption DEF Tick, At, Goto, ConnectFails, brokerVars, TypeOK, MainSteps, NilChannel, ConnInv, Watching, Conns
  <2>3. MessageInv'
    BY <1>3, PublisherAssumption DEF Tick, At, Goto, ConnectFails, brokerVars, TypeOK, MainSteps, NilChannel, MessageInv, InPush, ConnInv
  <2>4. LostOnlyWithItsConnection'
    BY <1>3 DEF Tick, At, Goto, brokerVars, TypeOK, MessageInv, LostOnlyWithItsConnection
  <2>5. NothingAfterAFailure'
    BY <1>3 DEF Tick, At, Goto, brokerVars, NothingAfterAFailure
  <2> QED
    BY <2>1, <2>2, <2>3, <2>4, <2>5
<1>4. CASE OpensChannel
  <2>0. pconn # 0 /\ channel'.on = pconn /\ main'.new = FALSE /\ main'.pushed = main.pushed
        /\ main'.step = IF main.new THEN "idle" ELSE "declare"
    BY <1>4 DEF OpensChannel, At, TypeOK, ConnInv
  <2>1. TypeOK'
    BY Zenon, <1>4, PublisherAssumption DEF OpensChannel, At, Goto, ConnectFails, brokerVars, TypeOK, MainSteps, NilChannel, ConnInv
  <2>2. ConnInv'
    BY <1>4, PublisherAssumption DEF OpensChannel, At, Goto, ConnectFails, brokerVars, TypeOK, MainSteps, NilChannel, ConnInv, Watching, Conns
  <2>3. MessageInv'
    <3>1. UNCHANGED <<conn, queue, declared, sentOn>>
      BY <1>4 DEF OpensChannel, brokerVars
    <3>2. CASE main.new
      <4>1. main.pushed = 0 /\ main'.step = "idle" /\ ~InPush'
        BY <2>0, <3>2 DEF MessageInv, InPush
      <4> QED
        BY <2>0, <3>1, <4>1 DEF MessageInv, TypeOK, PushIds
    <3>3. CASE ~main.new
      <4>1. InPush /\ InPush' /\ main'.step = "declare"
        BY <1>4, <2>0, <3>3 DEF OpensChannel, At, InPush
      <4> QED
        BY <2>0, <3>1, <4>1 DEF MessageInv
    <3> QED
      BY <3>2, <3>3
  <2>4. LostOnlyWithItsConnection'
    BY <1>4 DEF OpensChannel, At, Goto, brokerVars, TypeOK, MessageInv, LostOnlyWithItsConnection
  <2>5. NothingAfterAFailure'
    BY <1>4 DEF OpensChannel, At, Goto, brokerVars, NothingAfterAFailure
  <2> QED
    BY <2>1, <2>2, <2>3, <2>4, <2>5
<1>5. CASE ChannelFails
  <2>1. TypeOK'
    BY <1>5, PublisherAssumption DEF ChannelFails, At, Goto, ConnectFails, brokerVars, TypeOK, MainSteps, NilChannel, ConnInv
  <2>2. ConnInv'
    BY <1>5, PublisherAssumption DEF ChannelFails, At, Goto, ConnectFails, brokerVars, TypeOK, MainSteps, NilChannel, ConnInv, Watching, Conns
  <2>3. MessageInv'
    BY <1>5, PublisherAssumption DEF ChannelFails, At, Goto, ConnectFails, brokerVars, TypeOK, MainSteps, NilChannel, MessageInv, InPush, ConnInv
  <2>4. LostOnlyWithItsConnection'
    BY <1>5 DEF ChannelFails, At, Goto, brokerVars, TypeOK, MessageInv, LostOnlyWithItsConnection
  <2>5. NothingAfterAFailure'
    BY <1>5 DEF ChannelFails, At, Goto, brokerVars, NothingAfterAFailure
  <2> QED
    BY <2>1, <2>2, <2>3, <2>4, <2>5
<1> QED
  BY <1>1, <1>2, <1>3, <1>4, <1>5 DEF Connect

(***************************************************************************)
(* So does Push.                                                           *)
(***************************************************************************)
LEMMA PushInv == IInv /\ Push => IInv'
<1> SUFFICES ASSUME IInv, Push PROVE IInv'
  OBVIOUS
<1> USE DEF IInv
<1>1. CASE PushReconnects
  <2>0. main.pushed + 1 \in 0..MaxPushes /\ 0 \in 0..RetryLimit
    BY <1>1, PublisherAssumption DEF PushReconnects, TypeOK
  <2>6. PICK c \in Offering : watcher' = [watcher EXCEPT ![c].step = "ended"]
    BY Zenon, <1>1 DEF PushReconnects
  <2>1. TypeOK'
    <3>1. watcher' \in [Conns -> [step : {"none", "started", "waiting", "offering", "ended"},
                                  on : Conns \cup {0}]]
      BY <2>6 DEF TypeOK, Offering
    <3>2. main' \in [step : MainSteps, new : BOOLEAN, counter : 0..RetryLimit,
                     pushed : 0..MaxPushes]
      BY <1>1, <2>0 DEF PushReconnects, MainSteps
    <3> QED
      BY <1>1, <3>1, <3>2 DEF PushReconnects, brokerVars, TypeOK
  <2>2. ConnInv'
    <3>1. c \in Conns /\ watcher[c].step = "offering" /\ conn[c] = "dead" /\ pconn = c
      BY <2>6 DEF Offering, ConnInv, Watching
    <3>2. \A d \in Conns : watcher[d].step \in Watching => d = c
      BY <3>1 DEF ConnInv
    <3>3. \A d \in Conns : conn[d] \notin {"open", "broken"}
      BY <3>1 DEF ConnInv
    <3>4. \A d \in Conns : watcher'[d].step \notin Watching /\ watcher'[d].on = watcher[d].on
      BY <2>6, <3>1, <3>2 DEF TypeOK, Watching
    <3>5. UNCHANGED <<conn, pconn>> /\ main'.step = "dial" /\ main'.counter = 0
      BY <1>1 DEF PushReconnects, brokerVars
    <3> QED
      BY <3>3, <3>4, <3>5, PublisherAssumption DEF ConnInv, Watching
  <2>3. MessageInv'
    BY <1>1, PublisherAssumption DEF PushReconnects, At, Goto, brokerVars, TypeOK, PushIds, MessageInv, InPush
  <2>4. LostOnlyWithItsConnection'
    BY <1>1, PublisherAssumption DEF PushReconnects, brokerVars, TypeOK, MessageInv, LostOnlyWithItsConnection
  <2>5. NothingAfterAFailure'
    BY <1>1, PublisherAssumption DEF PushReconnects, brokerVars, NothingAfterAFailure
  <2> QED
    BY <2>1, <2>2, <2>3, <2>4, <2>5
<1>2. CASE PushUsesChannel
  <2>0. main.pushed + 1 \in 0..MaxPushes
    BY <1>2, PublisherAssumption DEF PushUsesChannel, TypeOK
  <2>1. TypeOK'
    BY Zenon, <1>2, <2>0 DEF PushUsesChannel, brokerVars, TypeOK, MainSteps
  <2>2. ConnInv'
    BY <1>2, PublisherAssumption DEF PushUsesChannel, At, Goto, brokerVars, TypeOK, ConnInv, Watching
  <2>3. MessageInv'
    BY <1>2, PublisherAssumption DEF PushUsesChannel, At, Goto, brokerVars, TypeOK, PushIds, MessageInv, InPush
  <2>4. LostOnlyWithItsConnection'
    BY <1>2, PublisherAssumption DEF PushUsesChannel, brokerVars, TypeOK, MessageInv, LostOnlyWithItsConnection
  <2>5. NothingAfterAFailure'
    BY <1>2, PublisherAssumption DEF PushUsesChannel, brokerVars, NothingAfterAFailure
  <2> QED
    BY <2>1, <2>2, <2>3, <2>4, <2>5
<1>3. CASE Declare
  <2>1. TypeOK'
    BY <1>3, PublisherAssumption DEF Declare, At, Goto, brokerVars, TypeOK, MainSteps, MessageInv, InPush
  <2>2. ConnInv'
    BY <1>3, PublisherAssumption DEF Declare, At, Goto, brokerVars, TypeOK, ConnInv, Watching
  <2>3. MessageInv'
    BY <1>3, PublisherAssumption DEF Declare, At, Goto, brokerVars, TypeOK, PushIds, MessageInv, InPush
  <2>4. LostOnlyWithItsConnection'
    BY <1>3, PublisherAssumption DEF Declare, brokerVars, TypeOK, MessageInv, LostOnlyWithItsConnection
  <2>5. NothingAfterAFailure'
    BY <1>3, PublisherAssumption DEF Declare, brokerVars, NothingAfterAFailure
  <2> QED
    BY <2>1, <2>2, <2>3, <2>4, <2>5
<1>4. CASE DeclareFails
  <2>1. TypeOK'
    BY Zenon, <1>4, PublisherAssumption DEF DeclareFails, At, Goto, brokerVars, TypeOK, MainSteps, MessageInv, InPush
  <2>2. ConnInv'
    BY <1>4, PublisherAssumption DEF DeclareFails, At, Goto, brokerVars, TypeOK, ConnInv, Watching
  <2>3. MessageInv'
    BY <1>4, PublisherAssumption DEF DeclareFails, At, Goto, brokerVars, TypeOK, PushIds, MessageInv, InPush
  <2>4. LostOnlyWithItsConnection'
    BY <1>4, PublisherAssumption DEF DeclareFails, brokerVars, TypeOK, MessageInv, LostOnlyWithItsConnection
  <2>5. NothingAfterAFailure'
    BY <1>4, PublisherAssumption DEF DeclareFails, brokerVars, NothingAfterAFailure
  <2> QED
    BY <2>1, <2>2, <2>3, <2>4, <2>5
<1>5. CASE Publish
  <2>0. /\ main.pushed \in PushIds /\ declared /\ channel.on \in Conns
        /\ \A i \in DOMAIN queue : queue[i] \in PushIds /\ queue[i] < main.pushed
    BY <1>5, PublisherAssumption DEF Publish, At, TypeOK, MessageInv, InPush, PushIds
  <2>6. /\ queue' = queue \/ queue' = Append(queue, main.pushed)
        /\ conn[channel.on] = "open" => queue' = Append(queue, main.pushed)
        /\ sentOn' = [sentOn EXCEPT ![main.pushed] = channel.on] /\ UNCHANGED conn
    BY <1>5, <2>0 DEF Publish
  <2>1. TypeOK'
    BY <1>5, <2>0, <2>6 DEF Publish, Goto, TypeOK, MainSteps
  <2>2. ConnInv'
    BY <1>5, PublisherAssumption DEF Publish, At, Goto, brokerVars, TypeOK, ConnInv, Watching
  <2>3. MessageInv'
    BY <1>5, PublisherAssumption DEF Publish, At, Goto, brokerVars, TypeOK, PushIds, MessageInv, InPush
  <2>4. LostOnlyWithItsConnection'
    <3>1. \A i \in DOMAIN queue : i \in DOMAIN queue' /\ queue'[i] = queue[i]
      <4>1. CASE queue' = queue
        BY Zenon, <4>1
      <4>2. CASE queue' = Append(queue, main.pushed)
        BY <2>0, <4>2, AppendFacts DEF TypeOK
      <4> QED
        BY Zenon, <2>6, <4>1, <4>2
    <3>2. conn[channel.on] \in {"open", "closed"} =>
            \E i \in DOMAIN queue' : queue'[i] = main.pushed
      <4>1. conn[channel.on] # "closed"
        BY <1>5 DEF Publish
      <4>2. CASE queue' = Append(queue, main.pushed)
        BY <2>0, <4>2 DEF TypeOK
      <4> QED
        BY <2>6, <4>1, <4>2
    <3> QED
      BY <2>0, <2>6, <3>1, <3>2 DEF LostOnlyWithItsConnection, TypeOK
  <2>5. NothingAfterAFailure'
    <3>1. \A i, j \in DOMAIN queue' : i < j => queue'[i] < queue'[j]
      <4>1. CASE queue' = queue
        BY <4>1 DEF NothingAfterAFailure
      <4>2. CASE queue' = Append(queue, main.pushed)
        BY <2>0, <4>2, AppendFacts DEF NothingAfterAFailure, TypeOK
      <4> QED
        BY <2>6, <4>1, <4>2
    <3>2. \A m \in PushIds : sentOn'[m] # 0 => \A k \in 1..m : sentOn'[k] # 0
      <4>1. \A m \in PushIds : sentOn'[m] # 0 <=> m <= main.pushed
        BY <1>5, <2>0, <2>6 DEF Publish, At, MessageInv, InPush, TypeOK, PushIds
      <4> QED
        BY <2>0, <4>1, PublisherAssumption DEF PushIds
    <3> QED
      BY <3>1, <3>2 DEF NothingAfterAFailure
  <2> QED
    BY <2>1, <2>2, <2>3, <2>4, <2>5
<1>6. CASE PublishFails
  <2>1. TypeOK'
    BY <1>6, PublisherAssumption DEF PublishFails, At, Goto, brokerVars, TypeOK, MainSteps, MessageInv, InPush
  <2>2. ConnInv'
    BY <1>6, PublisherAssumption DEF PublishFails, At, Goto, brokerVars, TypeOK, ConnInv, Watching
  <2>3. MessageInv'
    BY <1>6, PublisherAssumption DEF PublishFails, At, Goto, brokerVars, TypeOK, PushIds, MessageInv, InPush
  <2>4. LostOnlyWithItsConnection'
    BY <1>6, PublisherAssumption DEF PublishFails, brokerVars, TypeOK, MessageInv, LostOnlyWithItsConnection
  <2>5. NothingAfterAFailure'
    BY <1>6, PublisherAssumption DEF PublishFails, brokerVars, NothingAfterAFailure
  <2> QED
    BY <2>1, <2>2, <2>3, <2>4, <2>5
<1> QED
  BY <1>1, <1>2, <1>3, <1>4, <1>5, <1>6 DEF Push

(***************************************************************************)
(* So do the ways out: Close, of the main goroutine and of the one that    *)
(* waits for SIGTERM.                                                      *)
(***************************************************************************)
LEMMA CloseInv == IInv /\ (RunReturns \/ Close \/ Stop \/ StopCloses) => IInv'
<1> SUFFICES ASSUME IInv, RunReturns \/ Close \/ Stop \/ StopCloses PROVE IInv'
  OBVIOUS
<1> USE DEF IInv
<1>1. CASE RunReturns
  <2>1. TypeOK'
    BY <1>1 DEF RunReturns, At, Goto, Closed, brokerVars, TypeOK, MainSteps
  <2>2. ConnInv'
    BY <1>1 DEF RunReturns, At, Goto, Closed, brokerVars, TypeOK, ConnInv, Watching
  <2>3. MessageInv'
    BY <1>1 DEF RunReturns, At, Goto, Closed, brokerVars, TypeOK, MessageInv, InPush
  <2>4. LostOnlyWithItsConnection'
    BY <1>1 DEF RunReturns, Closed, brokerVars, TypeOK, MessageInv, LostOnlyWithItsConnection
  <2>5. NothingAfterAFailure'
    BY <1>1 DEF RunReturns, brokerVars, NothingAfterAFailure
  <2> QED
    BY <2>1, <2>2, <2>3, <2>4, <2>5
<1>2. CASE CloseChecks
  <2>1. TypeOK'
    BY <1>2 DEF CloseChecks, At, Goto, Closed, brokerVars, TypeOK, MainSteps
  <2>2. ConnInv'
    BY <1>2 DEF CloseChecks, At, Goto, Closed, brokerVars, TypeOK, ConnInv, Watching
  <2>3. MessageInv'
    BY <1>2 DEF CloseChecks, At, Goto, Closed, brokerVars, TypeOK, MessageInv, InPush
  <2>4. LostOnlyWithItsConnection'
    BY <1>2 DEF CloseChecks, Closed, brokerVars, TypeOK, MessageInv, LostOnlyWithItsConnection
  <2>5. NothingAfterAFailure'
    BY <1>2 DEF CloseChecks, brokerVars, NothingAfterAFailure
  <2> QED
    BY <2>1, <2>2, <2>3, <2>4, <2>5
<1>3. CASE CloseEnds
  <2>1. TypeOK'
    BY Zenon, <1>3 DEF CloseEnds, At, Goto, Closed, brokerVars, TypeOK, MainSteps
  <2>2. ConnInv'
    BY <1>3 DEF CloseEnds, At, Goto, Closed, brokerVars, TypeOK, ConnInv, Watching
  <2>3. MessageInv'
    BY <1>3 DEF CloseEnds, At, Goto, Closed, brokerVars, TypeOK, MessageInv, InPush
  <2>4. LostOnlyWithItsConnection'
    BY <1>3 DEF CloseEnds, Closed, brokerVars, TypeOK, MessageInv, LostOnlyWithItsConnection
  <2>5. NothingAfterAFailure'
    BY <1>3 DEF CloseEnds, brokerVars, NothingAfterAFailure
  <2> QED
    BY <2>1, <2>2, <2>3, <2>4, <2>5
<1>4. CASE Stop
  <2>1. TypeOK'
    BY <1>4 DEF Stop, At, Goto, Closed, brokerVars, TypeOK, MainSteps
  <2>2. ConnInv'
    BY <1>4 DEF Stop, At, Goto, Closed, brokerVars, TypeOK, ConnInv, Watching
  <2>3. MessageInv'
    BY <1>4 DEF Stop, At, Goto, Closed, brokerVars, TypeOK, MessageInv, InPush
  <2>4. LostOnlyWithItsConnection'
    BY <1>4 DEF Stop, Closed, brokerVars, TypeOK, MessageInv, LostOnlyWithItsConnection
  <2>5. NothingAfterAFailure'
    BY <1>4 DEF Stop, brokerVars, NothingAfterAFailure
  <2> QED
    BY <2>1, <2>2, <2>3, <2>4, <2>5
<1>5. CASE StopCloses
  <2>1. TypeOK'
    BY <1>5 DEF StopCloses, At, Goto, Closed, brokerVars, TypeOK, MainSteps
  <2>2. ConnInv'
    BY <1>5 DEF StopCloses, At, Goto, Closed, brokerVars, TypeOK, ConnInv, Watching
  <2>3. MessageInv'
    BY <1>5 DEF StopCloses, At, Goto, Closed, brokerVars, TypeOK, MessageInv, InPush
  <2>4. LostOnlyWithItsConnection'
    BY <1>5 DEF StopCloses, Closed, brokerVars, TypeOK, MessageInv, LostOnlyWithItsConnection
  <2>5. NothingAfterAFailure'
    BY <1>5 DEF StopCloses, brokerVars, NothingAfterAFailure
  <2> QED
    BY <2>1, <2>2, <2>3, <2>4, <2>5
<1> QED
  BY <1>1, <1>2, <1>3, <1>4, <1>5 DEF Close

(***************************************************************************)
(* So do the watchers and the network.                                     *)
(***************************************************************************)
LEMMA WatcherInv ==
  ASSUME IInv, NEW c \in Conns,
         WatcherRegisters(c) \/ WatcherNotified(c) \/ Breaks(c) \/ LossNoticed(c)
  PROVE  IInv'
<1> USE DEF IInv
<1>1. CASE WatcherRegisters(c)
  <2>1. TypeOK'
    BY <1>1 DEF WatcherRegisters, At, Goto, Closed, brokerVars, TypeOK, MainSteps
  <2>2. ConnInv'
    BY <1>1 DEF WatcherRegisters, At, Goto, Closed, brokerVars, TypeOK, ConnInv, Watching
  <2>3. MessageInv'
    BY <1>1 DEF WatcherRegisters, At, Goto, Closed, brokerVars, TypeOK, MessageInv, InPush
  <2>4. LostOnlyWithItsConnection'
    BY <1>1 DEF WatcherRegisters, Closed, brokerVars, TypeOK, MessageInv, LostOnlyWithItsConnection
  <2>5. NothingAfterAFailure'
    BY <1>1 DEF WatcherRegisters, brokerVars, NothingAfterAFailure
  <2> QED
    BY <2>1, <2>2, <2>3, <2>4, <2>5
<1>2. CASE WatcherNotified(c)
  <2>1. TypeOK'
    BY <1>2 DEF WatcherNotified, At, Goto, Closed, brokerVars, TypeOK, MainSteps
  <2>2. ConnInv'
    BY <1>2 DEF WatcherNotified, At, Goto, Closed, brokerVars, TypeOK, ConnInv, Watching
  <2>3. MessageInv'
    BY <1>2 DEF WatcherNotified, At, Goto, Closed, brokerVars, TypeOK, MessageInv, InPush
  <2>4. LostOnlyWithItsConnection'
    BY <1>2 DEF WatcherNotified, Closed, brokerVars, TypeOK, MessageInv, LostOnlyWithItsConnection
  <2>5. NothingAfterAFailure'
    BY <1>2 DEF WatcherNotified, brokerVars, NothingAfterAFailure
  <2> QED
    BY <2>1, <2>2, <2>3, <2>4, <2>5
<1>3. CASE Breaks(c)
  <2>1. TypeOK'
    BY <1>3 DEF Breaks, At, Goto, Closed, brokerVars, TypeOK, MainSteps
  <2>2. ConnInv'
    BY <1>3 DEF Breaks, At, Goto, Closed, brokerVars, TypeOK, ConnInv, Watching
  <2>3. MessageInv'
    BY <1>3 DEF Breaks, At, Goto, Closed, brokerVars, TypeOK, MessageInv, InPush
  <2>4. LostOnlyWithItsConnection'
    BY <1>3 DEF Breaks, Closed, brokerVars, TypeOK, MessageInv, LostOnlyWithItsConnection
  <2>5. NothingAfterAFailure'
    BY <1>3 DEF Breaks, brokerVars, NothingAfterAFailure
  <2> QED
    BY <2>1, <2>2, <2>3, <2>4, <2>5
<1>4. CASE LossNoticed(c)
  <2>1. TypeOK'
    BY <1>4 DEF LossNoticed, At, Goto, Closed, brokerVars, TypeOK, MainSteps
  <2>2. ConnInv'
    BY <1>4 DEF LossNoticed, At, Goto, Closed, brokerVars, TypeOK, ConnInv, Watching
  <2>3. MessageInv'
    BY <1>4 DEF LossNoticed, At, Goto, Closed, brokerVars, TypeOK, MessageInv, InPush
  <2>4. LostOnlyWithItsConnection'
    BY <1>4 DEF LossNoticed, Closed, brokerVars, TypeOK, MessageInv, LostOnlyWithItsConnection
  <2>5. NothingAfterAFailure'
    BY <1>4 DEF LossNoticed, brokerVars, NothingAfterAFailure
  <2> QED
    BY <2>1, <2>2, <2>3, <2>4, <2>5
<1> QED
  BY <1>1, <1>2, <1>3, <1>4

(***************************************************************************)
(* The invariant holds in every reachable state.                           *)
(***************************************************************************)
THEOREM Invariance == Spec => []IInv
<1>1. IInv /\ [Next]_vars => IInv'
  <2> SUFFICES ASSUME IInv, [Next]_vars PROVE IInv'
    OBVIOUS
  <2>1. CASE Next
    BY <2>1, ConnectInv, PushInv, CloseInv, WatcherInv DEF Next
  <2>2. CASE UNCHANGED vars
    BY <2>2 DEF vars, IInv, TypeOK, ConnInv, MessageInv, InPush,
                LostOnlyWithItsConnection, NothingAfterAFailure
  <2> QED
    BY <2>1, <2>2
<1> QED
  BY <1>1, InitInv, PTL DEF Spec

(***************************************************************************)
(* The publisher is type correct: connect never counts past                *)
(* connectionRetryLimit, and what is published is a message of the build.  *)
(***************************************************************************)
THEOREM TypeCorrect == Spec => []TypeOK
<1>1. IInv => TypeOK
  BY DEF IInv
<1> QED
  BY <1>1, Invariance, PTL

(***************************************************************************)
(* The goroutine that connect starts registers with its own connection,    *)
(* however late it runs and however many connections there have been.      *)
(***************************************************************************)
THEOREM WatchersSafe == Spec => []WatcherWatchesItsConnection
<1>1. IInv => WatcherWatchesItsConnection
  BY DEF IInv, ConnInv, WatcherWatchesItsConnection, Watching
<1> QED
  BY <1>1, Invariance, PTL

(***************************************************************************)
(* connect never overwrites p.conn while it holds a connection that is not *)
(* over.                                                                   *)
(***************************************************************************)
THEOREM ConnectionsSafe == Spec => []NoConnectionLeaks
<1>1. IInv => NoConnectionLeaks
  BY DEF IInv, ConnInv, NoConnectionLeaks
<1> QED
  BY <1>1, Invariance, PTL

(***************************************************************************)
(* Push never uses the nil channel of a connect that has failed.           *)
(***************************************************************************)
THEOREM ChannelSafe == Spec => []NilChannelNeverUsed
<1>1. IInv => NilChannelNeverUsed
  BY DEF IInv, MessageInv, NilChannelNeverUsed
<1> QED
  BY <1>1, Invariance, PTL

(***************************************************************************)
(* A message that Push has written is only lost with its connection: on    *)
(* one that works, Publish finds the queue declared and the channel open.  *)
(***************************************************************************)
THEOREM DeliverySafe == Spec => []LostOnlyWithItsConnection
<1>1. IInv => LostOnlyWithItsConnection
  BY DEF IInv
<1> QED
  BY <1>1, Invariance, PTL

(***************************************************************************)
(* The messages of a build are on the queue in their order and once each,  *)
(* and none of them after one that could not be sent.                      *)
(***************************************************************************)
THEOREM OrderSafe == Spec => []NothingAfterAFailure
<1>1. IInv => NothingAfterAFailure
  BY DEF IInv
<1> QED
  BY <1>1, Invariance, PTL
=============================================================================
