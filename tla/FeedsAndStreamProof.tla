-------------------------- MODULE FeedsAndStreamProof --------------------------
(***************************************************************************)
(* Theorems about ArduinoGateway and TwinFeeds, for any requests,          *)
(* connects, twins and generator tasks, and about LiveStream, for any      *)
(* clients and twins.                                                      *)
(*                                                                         *)
(* As long as no two requests have overlapped, the Arduino's connection is *)
(* in one of six situations: off, failed, up, or in one of the three waits *)
(* of a request; and each says what is in the queue of the current         *)
(* transport's thread.  All other transports are at rest.                  *)
(*                                                                         *)
(* Of both feeds it follows that only a connected hardware takes a twin    *)
(* over, and what the mock generator reports of itself is true.            *)
(*                                                                         *)
(* The live stream's two subscription indexes always agree and name        *)
(* registered clients only, and together they implement one relation       *)
(* between clients and twins.                                              *)
(***************************************************************************)
EXTENDS TwinFeeds, LiveStream, SequenceTheorems, FiniteSetTheorems, TLAPS

Queue == jobs[transport]

JobBy(kind, w) == [kind |-> kind, by |-> w]

\* What a request or listener that ended has left executing.
AtMostAbandoned == Queue = <<>> \/ \E kind \in {"open", "read", "close"} : Queue = <<JobBy(kind, Nobody)>>

\* The call the current listener waits for, if it waits for one.
AwaitedByListener ==
  CASE listener[transport] = "opening" -> Queue = <<JobBy("open", transport)>>
    [] listener[transport] = "reading" -> Queue = <<JobBy("read", transport)>>
    [] listener[transport] = "closing" -> Queue = <<JobBy("close", transport)>>
    [] OTHER -> Queue = <<>>

-----------------------------------------------------------------------------
(* The situations.                                                         *)

Off == ~running /\ transport = 0 /\ state = "DISCONNECTED"

Failed ==
  /\ ~running
  /\ transport # 0
  /\ state = "ERROR"
  /\ listener[transport] = "unborn"
  /\ Queue = <<>>

Up ==
  /\ running
  /\ transport # 0
  /\ listenTask = transport
  /\ state \in {"CONNECTED", "RECONNECTING"}
  /\ listener[transport] \notin {"unborn", "cancelled"}
  /\ listener[transport] = "done" => ~auto
  /\ isOpen[transport] \/ listener[transport] = "reading" => state = "CONNECTED"
  /\ listener[transport] = "closing" => ~isOpen[transport]
  /\ AwaitedByListener

Resting == Off \/ Failed \/ Up

\* disconnect() waits for the listener it has cancelled.
Joining(c) ==
  /\ call[c].at = "joining"
  /\ call[c].on = transport
  /\ ~running
  /\ transport # 0
  /\ listenTask = transport
  /\ listener[transport] \in {"cancelled", "done"}
  /\ AtMostAbandoned

\* disconnect() waits for its close, behind what the listener abandoned.
Closing(c) ==
  /\ call[c].at = "closing"
  /\ call[c].on = transport
  /\ ~running
  /\ transport # 0
  /\ listener[transport] \in {"unborn", "done"}
  /\ \/ Queue = <<JobBy("close", c)>>
     \/ \E kind \in {"open", "read", "close"} :
          Queue = <<JobBy(kind, Nobody), JobBy("close", c)>>

\* connect() waits for its open.
Opening(c) ==
  /\ call[c].at = "opening"
  /\ call[c].on = transport
  /\ call[c].what = "connect"
  /\ running
  /\ transport # 0
  /\ state = "CONNECTING"
  /\ listener[transport] = "unborn"
  /\ Queue = <<JobBy("open", c)>>

-----------------------------------------------------------------------------

\* The types that the situations need.
Typed ==
  /\ running \in BOOLEAN
  /\ made \in 0..MaxConnects
  /\ transport \in {0, made}
  /\ listenTask \in 0..made
  /\ isOpen \in [Conn -> BOOLEAN]
  /\ port \in [Conn -> BOOLEAN]
  /\ DOMAIN jobs = Conn
  /\ listener \in [Conn -> ListenerState]
  /\ call \in [Caller -> Call]

\* Transports that are not the manager's, and listeners that are not its
\* transport's.
OthersAtRest ==
  /\ \A k \in Conn : k # transport =>
       /\ jobs[k] = <<>>
       /\ listener[k] \in {"unborn", "done"}
       /\ port[k] => listener[k] = "unborn"
  /\ \A k \in Conn : k > made => listener[k] = "unborn"

\* A request in progress is alone, in one of its waits, and what is left for
\* it to do is within the bound.
OneRequest ==
  \A c \in Caller : call[c] # Idle =>
    /\ Joining(c) \/ Closing(c) \/ Opening(c)
    /\ call[c].what \in {"connect", "disconnect"}
    /\ call[c].what = "connect" /\ call[c].at # "opening" => made < MaxConnects
    /\ \A d \in Caller : call[d] # Idle => d = c

Situation == Typed /\ OthersAtRest /\ OneRequest /\ (NoCall => Resting)

IInv == ~overlapped => Situation

-----------------------------------------------------------------------------
(* The pieces the actions are made of.                                     *)

LEMMA AppendEmpty == ASSUME NEW x PROVE Append(<<>>, x) = <<x>>
  OBVIOUS

LEMMA AppendSingle == ASSUME NEW x, NEW y PROVE Append(<<x>>, y) = <<x, y>>
  <1>1. <<x>> \in Seq({x, y}) /\ Len(<<x>>) = 1 /\ <<x>>[1] = x
    OBVIOUS
  <1>2. /\ Append(<<x>>, y) \in Seq({x, y})
        /\ Len(Append(<<x>>, y)) = 2
        /\ Append(<<x>>, y)[1] = x
        /\ Append(<<x>>, y)[2] = y
    BY <1>1
  <1>3. /\ <<x, y>> \in Seq({x, y}) /\ Len(<<x, y>>) = 2
        /\ \A i \in 1..2 : i = 1 \/ i = 2
        /\ <<x, y>>[1] = x /\ <<x, y>>[2] = y
    OBVIOUS
  <1>4. QED
    BY <1>2, <1>3, SeqEqual

LEMMA HeadTailSingle == ASSUME NEW x PROVE Head(<<x>>) = x /\ Tail(<<x>>) = <<>> /\ <<x>> # <<>>
  OBVIOUS

LEMMA HeadTailPair ==
  ASSUME NEW x, NEW y
  PROVE  Head(<<x, y>>) = x /\ Tail(<<x, y>>) = <<y>> /\ <<x, y>> # <<>>
  <1>1. <<x, y>> \in Seq({x, y}) /\ Len(<<x, y>>) = 2 /\ <<x, y>>[2] = y /\ <<x, y>>[1] = x
    OBVIOUS
  <1>2. /\ Tail(<<x, y>>) \in Seq({x, y})
        /\ Len(Tail(<<x, y>>)) = 1
        /\ Tail(<<x, y>>)[1] = y
    BY <1>1
  <1>3. <<y>> \in Seq({x, y}) /\ Len(<<y>>) = 1 /\ <<y>>[1] = y
    OBVIOUS
  <1>4. Tail(<<x, y>>) = <<y>>
    BY <1>2, <1>3, SeqEqual
  <1>5. QED
    BY <1>1, <1>4

LEMMA IdleCall == Idle \in Call
  BY ArduinoAssumption DEF Idle, Call

LEMMA SituationInit ==
  ASSUME Init
  PROVE  Situation
  <1>1. MaxConnects \in Nat
    BY ArduinoAssumption
  <1>a. call \in [Caller -> Call]
    BY <1>1 DEF Init, Call, Idle
  <1>x. /\ listener \in [Conn -> ListenerState]
        /\ isOpen \in [Conn -> BOOLEAN]
        /\ port \in [Conn -> BOOLEAN]
    BY DEF Init, ListenerState
  <1>y. DOMAIN jobs = Conn
    BY DEF Init
  <1>z. /\ made \in 0..MaxConnects /\ transport \in {0, made} /\ listenTask \in 0..made
    BY <1>1 DEF Init
  <1>b. Typed
    BY <1>a, <1>x, <1>y, <1>z DEF Init, Typed
  <1>c. OthersAtRest
    BY DEF Init, OthersAtRest
  <1>2. OneRequest /\ Resting
    BY DEF Init, OneRequest, Resting, Off
  <1>3. QED
    BY <1>b, <1>c, <1>2 DEF Situation

\* What Finish does when it finds no call left with any thread.
Finished(c, what) ==
  /\ DOMAIN jobs' = Conn
  /\ \/ /\ what = "disconnect"
        /\ running' = FALSE /\ state' = "DISCONNECTED" /\ transport' = 0 /\ made' = made
        /\ call' = [call EXCEPT ![c] = Idle]
        /\ \A k \in Conn : jobs'[k] = <<>>
     \/ /\ what = "connect"
        /\ running' = TRUE /\ state' = "CONNECTING" /\ transport' = made + 1
        /\ made' = made + 1
        /\ call' = [call EXCEPT ![c] = [what |-> what, at |-> "opening", on |-> made + 1]]
        /\ made + 1 \in Conn => jobs'[made + 1] = <<JobBy("open", c)>>
        /\ \A k \in Conn : k # made + 1 => jobs'[k] = <<>>

\* Once every thread and listener is at rest, the end of disconnect() leaves
\* the connection off, and that of the disconnect() in connect() opening.
LEMMA FinishKeeps ==
  ASSUME Typed, NEW c \in Caller, NEW what \in {"connect", "disconnect"},
         what = "connect" => made < MaxConnects,
         Finished(c, what),
         \A d \in Caller : d # c => call[d] = Idle,
         \A k \in Conn : listener[k] \in {"unborn", "done"},
         \A k \in Conn : port'[k] => listener[k] = "unborn",
         \A k \in Conn : k > made => listener[k] = "unborn",
         listener' = listener,
         port' \in [Conn -> BOOLEAN], isOpen' \in [Conn -> BOOLEAN], listenTask' \in 0..made
  PROVE  Situation'
  <1>1. CASE what = "disconnect"
    <2>1. /\ running' = FALSE /\ state' = "DISCONNECTED" /\ transport' = 0
          /\ DOMAIN jobs' = Conn /\ \A k \in Conn : jobs'[k] = <<>>
          /\ call' = [call EXCEPT ![c] = Idle] /\ made' = made
      BY <1>1 DEF Finished
    <2>a. call' \in [Caller -> Call]
      BY <2>1, IdleCall DEF Typed
    <2>2. Typed'
      BY <2>1, <2>a DEF Typed
    <2>3. OthersAtRest'
      BY <2>1, Zenon DEF OthersAtRest
    <2>4. OneRequest'
      BY <2>1 DEF OneRequest, Typed
    <2>5. QED
      BY <2>1, <2>2, <2>3, <2>4 DEF Situation, Resting, Off
  <1>2. CASE what = "connect"
    <2>1. /\ running' = TRUE /\ state' = "CONNECTING" /\ made' = made + 1
          /\ transport' = made + 1
          /\ DOMAIN jobs' = Conn
          /\ made + 1 \in Conn => jobs'[made + 1] = <<JobBy("open", c)>>
          /\ \A k \in Conn : k # made + 1 => jobs'[k] = <<>>
          /\ call' = [call EXCEPT ![c] = [what |-> what, at |-> "opening", on |-> made + 1]]
      BY <1>2 DEF Finished
    <2>2. made \in Nat /\ made + 1 \in Conn /\ made + 1 \in 0..MaxConnects
      BY <1>2, ArduinoAssumption DEF Typed, Conn
    <2>3. Typed'
      BY <1>2, <2>1, <2>2 DEF Typed, Call
    <2>4. OthersAtRest'
      BY <2>1, <2>2 DEF OthersAtRest, Conn
    <2>5. Opening(c)'
      <3>1. listener[made + 1] = "unborn"
        BY <2>2
      <3>2. jobs'[made + 1] = <<JobBy("open", c)>>
        BY <2>1, <2>2
      <3>3. QED
        BY <1>2, <2>1, <2>2, <3>1, <3>2 DEF Opening, Queue, Typed
    <2>6. call'[c] # Idle /\ call'[c].what = "connect" /\ call'[c].at = "opening"
      BY <1>2, <2>1 DEF Typed, Idle
    <2>7. \A d \in Caller : d # c => call'[d] = Idle
      BY <2>1 DEF Typed
    <2>8. OneRequest' /\ ~NoCall'
      BY <2>5, <2>6, <2>7 DEF OneRequest, NoCall
    <2>9. QED
      BY <2>3, <2>4, <2>8 DEF Situation
  <1>3. QED
    BY <1>1, <1>2

\* The close of disconnect() waits behind what the listener abandoned; with
\* no transport there is nothing to close.
LEMMA CloseKeeps ==
  ASSUME Typed, OthersAtRest, NEW c \in Caller, NEW what \in {"connect", "disconnect"},
         what = "connect" => made < MaxConnects,
         CloseTransport(c, what, FALSE),
         \A d \in Caller : d # c => call[d] = Idle,
         transport = 0 \/ (listener[transport] \in {"unborn", "done"} /\ AtMostAbandoned),
         listener' = listener, port' = port, listenTask' \in 0..made
  PROVE  Situation'
  <1>1. CASE transport = 0
    <2>1. Finish(c, what, FALSE, jobs) /\ isOpen' = isOpen
      BY <1>1 DEF CloseTransport
    <2>2. /\ \A k \in Conn : jobs[k] = <<>>
          /\ \A k \in Conn : listener[k] \in {"unborn", "done"}
          /\ \A k \in Conn : port'[k] => listener[k] = "unborn"
          /\ \A k \in Conn : k > made => listener[k] = "unborn"
      BY <1>1 DEF OthersAtRest, Conn
    <2>3. /\ DOMAIN jobs = Conn
          /\ port' \in [Conn -> BOOLEAN]
          /\ isOpen' \in [Conn -> BOOLEAN]
      BY <2>1 DEF Typed
    <2>4. Finished(c, what)
      BY <2>1, <2>2, <2>3, AppendEmpty DEF Finish, Finished, Submit, JobBy
    <2>5. QED
      BY <2>2, <2>3, <2>4, FinishKeeps
  <1>2. CASE transport # 0
    <2>1. /\ running' = FALSE
          /\ isOpen' = [isOpen EXCEPT ![transport] = FALSE]
          /\ jobs' = [jobs EXCEPT ![transport] = Append(@, JobBy("close", c))]
          /\ call' = [call EXCEPT ![c] = [what |-> what, at |-> "closing", on |-> transport]]
          /\ transport' = transport /\ made' = made
      BY <1>2 DEF CloseTransport, Submit, JobBy
    <2>2. transport \in Conn /\ transport \in 0..MaxConnects
      BY <1>2, ArduinoAssumption DEF Typed, Conn
    <2>3. call' \in [Caller -> Call]
      BY <2>1, <2>2 DEF Typed, Call
    <2>4. Typed'
      BY <2>1, <2>3 DEF Typed
    <2>5. OthersAtRest'
      BY <2>1 DEF OthersAtRest, Typed
    <2>6. /\ call'[c].at = "closing" /\ call'[c].on = transport /\ call'[c].what = what
          /\ call'[c] # Idle
      BY <2>1 DEF Typed, Idle
    <2>7. jobs'[transport] = Append(Queue, JobBy("close", c))
      BY <2>1, <2>2 DEF Queue, Typed
    <2>8. \/ Queue' = <<JobBy("close", c)>>
          \/ \E kind \in {"open", "read", "close"} :
               Queue' = <<JobBy(kind, Nobody), JobBy("close", c)>>
      BY <1>2, <2>1, <2>7, AppendEmpty, AppendSingle DEF AtMostAbandoned, Queue
    <2>9. Closing(c)'
      BY <1>2, <2>1, <2>6, <2>8 DEF Closing
    <2>10. \A d \in Caller : d # c => call'[d] = Idle
      BY <2>1 DEF Typed
    <2>11. OneRequest' /\ ~NoCall'
      BY <2>1, <2>6, <2>9, <2>10 DEF OneRequest, NoCall
    <2>12. QED
      BY <2>4, <2>5, <2>11 DEF Situation
  <1>3. QED
    BY <1>1, <1>2

\* A listener that is not being cancelled is the current transport's, and
\* there is no request in progress.
LEMMA LiveIsUp ==
  ASSUME Situation, NEW l \in Conn, Live(l), listener[l] # "cancelled"
  PROVE  l = transport /\ NoCall /\ Up
  <1>1. l = transport
    BY DEF Situation, OthersAtRest, Live
  <1>2. NoCall
    BY <1>1 DEF Situation, OneRequest, NoCall, Live, Joining, Closing, Opening
  <1>3. Resting
    BY <1>2 DEF Situation
  <1>4. QED
    BY <1>1, <1>2, <1>3 DEF Resting, Off, Failed, Live, Conn

\* A step of the current listener and its transport leaves the others alone.
LEMMA UpKeeps ==
  ASSUME Situation, NoCall, transport # 0, Up', listener' \in [Conn -> ListenerState],
         isOpen' \in [Conn -> BOOLEAN], port' \in [Conn -> BOOLEAN], DOMAIN jobs' = Conn,
         transport' = transport, made' = made, call' = call, listenTask' = listenTask,
         \A k \in Conn : k # transport =>
           jobs'[k] = jobs[k] /\ listener'[k] = listener[k] /\ port'[k] = port[k]
  PROVE  Situation'
  <1>1. Typed'
    BY DEF Situation, Typed, Up
  <1>2. OthersAtRest'
    BY DEF Situation, OthersAtRest, Typed
  <1>3. NoCall' /\ OneRequest'
    BY DEF NoCall, OneRequest
  <1>4. QED
    BY <1>1, <1>2, <1>3 DEF Situation, Resting

\* What LoopTop does for the current listener when it finds no call left with
\* any thread.
LoopedTop ==
  /\ DOMAIN jobs' = Conn
  /\ \A k \in Conn : k # transport => jobs'[k] = <<>>
  /\ \/ /\ Usable(isOpen')
        /\ listener' = [listener EXCEPT ![transport] = "reading"]
        /\ jobs'[transport] = <<JobBy("read", transport)>>
        /\ state' = state
     \/ /\ ~Usable(isOpen')
        /\ jobs'[transport] = <<>>
        /\ \/ listener' = [listener EXCEPT ![transport] = "backoff"] /\ state' = "RECONNECTING"
           \/ listener' = [listener EXCEPT ![transport] = "done"] /\ state' = state /\ ~auto

\* The top of the loop, whatever the queues and flags were, as long as no
\* call is left in them and an open transport is reported CONNECTED.
LEMMA LoopTopKeeps ==
  ASSUME Situation, NoCall, running, transport # 0, listenTask = transport,
         isOpen' \in [Conn -> BOOLEAN],
         LoopedTop,
         state \in {"CONNECTED", "RECONNECTING"},
         isOpen'[transport] => state = "CONNECTED",
         port' \in [Conn -> BOOLEAN],
         \A k \in Conn : k # transport => port'[k] = port[k],
         running' = running, transport' = transport, listenTask' = listenTask,
         auto' = auto, made' = made, call' = call
  PROVE  Situation'
  <1>1. transport \in Conn
    BY DEF Situation, Typed, Conn
  <1>2. \A k \in Conn : k # transport => jobs[k] = <<>>
    BY DEF Situation, OthersAtRest
  <1>3. CASE Usable(isOpen')
    <2>1. /\ listener' = [listener EXCEPT ![transport] = "reading"]
          /\ jobs'[transport] = <<JobBy("read", transport)>>
          /\ state' = state
      BY <1>3 DEF LoopedTop
    <2>2. listener'[transport] = "reading" /\ listener' \in [Conn -> ListenerState]
      BY <1>1, <2>1 DEF Situation, Typed, ListenerState
    <2>3. DOMAIN jobs' = Conn /\ \A k \in Conn : k # transport => jobs'[k] = <<>>
      BY DEF LoopedTop
    <2>4. Up'
      BY <1>3, <2>1, <2>2 DEF Up, AwaitedByListener, Queue, Usable
    <2>5. QED
      BY <1>2, <2>1, <2>2, <2>3, <2>4, UpKeeps DEF Situation, Typed
  <1>4. CASE ~Usable(isOpen')
    <2>1. /\ \/ listener' = [listener EXCEPT ![transport] = "backoff"] /\ state' = "RECONNECTING"
             \/ listener' = [listener EXCEPT ![transport] = "done"] /\ state' = state /\ ~auto
          /\ DOMAIN jobs' = Conn /\ \A k \in Conn : jobs'[k] = <<>>
      BY <1>1, <1>4 DEF LoopedTop
    <2>2. listener'[transport] \in {"backoff", "done"} /\ listener' \in [Conn -> ListenerState]
      BY <1>1, <2>1 DEF Situation, Typed, ListenerState
    <2>3. listener'[transport] = "done" => ~auto
      BY <1>1, <2>1 DEF Situation, Typed
    <2>4. ~isOpen'[transport]
      BY <1>4 DEF Usable
    <2>5. Up'
      BY <1>1, <2>1, <2>2, <2>3, <2>4 DEF Up, AwaitedByListener, Queue
    <2>6. QED
      BY <1>2, <2>1, <2>2, <2>5, UpKeeps DEF Situation, Typed
  <1>5. QED
    BY <1>3, <1>4

-----------------------------------------------------------------------------
(* Requests.                                                               *)

\* Cancelling the listener leaves at most the call it had executing.
LEMMA AbandonKeeps ==
  ASSUME Situation, NoCall, Up, Live(transport), jobs' = Abandon(jobs, transport),
         transport' = transport
  PROVE  AtMostAbandoned' /\ DOMAIN jobs' = Conn
         /\ \A k \in Conn : k # transport => jobs'[k] = jobs[k]
  <1>1. transport \in Conn
    BY DEF Live
  <1>2. \A k \in Conn : k # transport => jobs[k] = <<>>
    BY DEF Situation, OthersAtRest
  <1>3. TakeBack(<<>>, transport) = <<>>
    BY DEF TakeBack
  <1>4. DOMAIN jobs' = Conn /\ \A k \in Conn : k # transport => jobs'[k] = <<>>
    BY <1>2, <1>3 DEF Abandon
  <1>5. CASE Queue = <<>>
    BY <1>1, <1>2, <1>3, <1>4, <1>5 DEF Abandon, Queue, AtMostAbandoned
  <1>6. CASE \E kind \in {"open", "read", "close"} : Queue = <<JobBy(kind, transport)>>
    <2>1. PICK kind \in {"open", "read", "close"} : Queue = <<JobBy(kind, transport)>>
      BY <1>6
    <2>2. jobs'[transport] = [<<JobBy(kind, transport)>> EXCEPT ![1].by = Nobody]
      BY <1>1, <2>1, HeadTailSingle DEF Abandon, Queue, JobBy
    <2>3. jobs'[transport] = <<JobBy(kind, Nobody)>>
      BY <2>2 DEF JobBy
    <2>4. QED
      BY <1>2, <1>4, <2>3 DEF AtMostAbandoned, Queue
  <1>7. QED
    BY <1>5, <1>6 DEF Up, AwaitedByListener

LEMMA HaltKeeps ==
  ASSUME Situation, NoCall, NEW c \in Caller, NEW what \in {"connect", "disconnect"},
         what = "connect" => made < MaxConnects,
         Halt(c, what), port' = port, listenTask' = listenTask
  PROVE  Situation'
  <1>1. CASE Live(listenTask)
    <2>1. listener[listenTask] # "cancelled"
      BY <1>1 DEF Situation, OthersAtRest, Live, Resting, Off, Failed, Up, Conn
    <2>2. listenTask = transport /\ Up /\ transport \in Conn /\ transport # 0
      BY <1>1, <2>1, LiveIsUp DEF Live, Conn
    <2>3. /\ running' = FALSE
          /\ listener' = [listener EXCEPT ![transport] = "cancelled"]
          /\ jobs' = Abandon(jobs, transport)
          /\ call' = [call EXCEPT ![c] = [what |-> what, at |-> "joining", on |-> transport]]
          /\ transport' = transport /\ made' = made /\ isOpen' = isOpen
      BY <1>1, <2>2 DEF Halt
    <2>4. /\ AtMostAbandoned' /\ DOMAIN jobs' = Conn
          /\ \A k \in Conn : k # transport => jobs'[k] = jobs[k]
      BY <1>1, <2>2, <2>3, AbandonKeeps
    <2>5. transport \in 0..MaxConnects
      BY ArduinoAssumption DEF Situation, Typed
    <2>6. call' \in [Caller -> Call]
      BY <2>3, <2>5 DEF Situation, Typed, Call
    <2>7. listener' \in [Conn -> ListenerState] /\ listener'[transport] = "cancelled"
      BY <2>2, <2>3 DEF Situation, Typed, ListenerState
    <2>8. Typed'
      BY <2>3, <2>4, <2>6, <2>7 DEF Situation, Typed
    <2>9. OthersAtRest'
      BY <2>2, <2>3, <2>4 DEF Situation, Typed, OthersAtRest
    <2>10. /\ call'[c].at = "joining" /\ call'[c].on = transport /\ call'[c].what = what
           /\ call'[c] # Idle
           /\ \A d \in Caller : d # c => call'[d] = Idle
      BY <2>3 DEF Situation, Typed, Idle, NoCall
    <2>11. Joining(c)'
      BY <2>2, <2>3, <2>4, <2>7, <2>10 DEF Joining
    <2>12. OneRequest' /\ ~NoCall'
      BY <2>3, <2>10, <2>11 DEF OneRequest, NoCall
    <2>13. QED
      BY <2>8, <2>9, <2>12 DEF Situation
  <1>2. CASE ~Live(listenTask)
    <2>1. CloseTransport(c, what, FALSE) /\ listener' = listener
      BY <1>2 DEF Halt
    <2>2. transport = 0 \/ (listener[transport] \in {"unborn", "done"} /\ AtMostAbandoned)
      BY <1>2 DEF Situation, Typed, Resting, Off, Failed, Up, Live, Conn, AtMostAbandoned,
                  AwaitedByListener
    <2>3. \A d \in Caller : d # c => call[d] = Idle
      BY DEF NoCall
    <2>4. QED
      BY <2>1, <2>2, <2>3, CloseKeeps DEF Situation, Typed
  <1>3. QED
    BY <1>1, <1>2

LEMMA BeginsAlone ==
  ASSUME NEW c \in Caller, Begins(c), ~overlapped'
  PROVE  ~overlapped /\ NoCall
  BY DEF Begins, NoCall

LEMMA ConnectKeeps ==
  ASSUME Situation, NEW c \in Caller, Connect(c), ~overlapped'
  PROVE  Situation'
  <1>1. NoCall
    BY BeginsAlone DEF Connect
  <1>2. made < MaxConnects
    <2>1. {d \in Caller : call[d].what = "connect" /\ call[d].at # "opening"} = {}
      BY <1>1 DEF NoCall, Idle
    <2>2. made + Cardinality({d \in Caller : call[d].what = "connect" /\ call[d].at # "opening"})
            < MaxConnects
      BY DEF Connect
    <2>3. made + Cardinality({}) < MaxConnects
      BY <2>1, <2>2
    <2>4. QED
      BY <2>3, FS_EmptySet, ArduinoAssumption DEF Situation, Typed
  <1>3. CASE running
    BY <1>1, <1>2, <1>3, HaltKeeps DEF Connect
  <1>4. CASE ~running
    <2>1. Finish(c, "connect", FALSE, jobs) /\ UNCHANGED <<isOpen, listener, listenTask, port>>
      BY <1>4 DEF Connect
    <2>2. Off \/ Failed
      BY <1>1, <1>4 DEF Situation, Resting, Up
    <2>3. /\ \A k \in Conn : jobs[k] = <<>>
          /\ \A k \in Conn : listener[k] \in {"unborn", "done"}
          /\ \A k \in Conn : port[k] => listener[k] = "unborn"
          /\ \A k \in Conn : k > made => listener[k] = "unborn"
      BY <2>2 DEF Off, Failed, Situation, OthersAtRest, Conn, Queue
    <2>4. Finished(c, "connect")
      BY <2>1, <2>3, AppendEmpty DEF Finish, Finished, Submit, JobBy, Situation, Typed
    <2>5. Typed /\ \A d \in Caller : d # c => call[d] = Idle
      BY <1>1 DEF Situation, NoCall
    <2>6. /\ listener' = listener /\ \A k \in Conn : port'[k] => listener[k] = "unborn"
          /\ port' \in [Conn -> BOOLEAN] /\ isOpen' \in [Conn -> BOOLEAN]
          /\ listenTask' \in 0..made
      BY <2>1, <2>3 DEF Situation, Typed
    <2>7. QED
      BY <1>2, <2>3, <2>4, <2>5, <2>6, FinishKeeps
  <1>5. QED
    BY <1>3, <1>4

LEMMA DisconnectKeeps ==
  ASSUME Situation, NEW c \in Caller, Disconnect(c), ~overlapped'
  PROVE  Situation'
  BY BeginsAlone, HaltKeeps DEF Disconnect

LEMMA ListenerJoinedKeeps ==
  ASSUME Situation, NEW c \in Caller, ListenerJoined(c)
  PROVE  Situation'
  <1>1. call[c] # Idle
    BY DEF ListenerJoined, Idle
  <1>2. Joining(c) /\ call[c].what \in {"connect", "disconnect"}
    BY <1>1 DEF Situation, OneRequest, ListenerJoined, Closing, Opening
  <1>3. call[c].what = "connect" => made < MaxConnects
    BY <1>1 DEF Situation, OneRequest, ListenerJoined
  <1>4. CloseTransport(c, call[c].what, FALSE)
    <2>1. running = FALSE
      BY <1>2 DEF Joining, Situation, Typed
    <2>2. CloseTransport(c, call[c].what, running)
      BY DEF ListenerJoined
    <2>3. QED
      BY <2>1, <2>2 DEF CloseTransport
  <1>5. \A d \in Caller : d # c => call[d] = Idle
    BY <1>1 DEF Situation, OneRequest
  <1>6. listener[transport] = "done" /\ AtMostAbandoned
    BY <1>2 DEF ListenerJoined, Joining
  <1>7. listenTask' \in 0..made /\ listener' = listener /\ port' = port
    BY DEF ListenerJoined, Situation, Typed
  <1>8. QED
    BY <1>2, <1>3, <1>4, <1>5, <1>6, <1>7, CloseKeeps DEF Situation

-----------------------------------------------------------------------------
(* The listener.                                                           *)

LEMMA ListenerWakesKeeps ==
  ASSUME Situation, NEW l \in Conn, ListenerWakes(l)
  PROVE  Situation'
  <1>1. Live(l) /\ listener[l] \in {"created", "idle", "erring"}
    BY DEF ListenerWakes, Live
  <1>2. l = transport /\ NoCall /\ Up /\ transport # 0
    BY <1>1, LiveIsUp DEF Up
  <1>3. \A k \in Conn : jobs[k] = <<>>
    BY <1>1, <1>2 DEF Situation, OthersAtRest, Up, AwaitedByListener, Queue
  <1>4. LoopedTop
    BY <1>2, <1>3, AppendEmpty DEF ListenerWakes, LoopTop, LoopedTop, Submit, JobBy, Situation,
                                   Typed, Up
  <1>5. UNCHANGED <<running, transport, listenTask, auto, isOpen, port, made, call>>
    BY DEF ListenerWakes, callVars
  <1>6. QED
    BY <1>2, <1>4, <1>5, LoopTopKeeps DEF Situation, Typed, Up

LEMMA TryReopenKeeps ==
  ASSUME Situation, NEW l \in Conn, TryReopen(l)
  PROVE  Situation'
  <1>1. Live(l) /\ listener[l] = "backoff"
    BY DEF TryReopen, Live
  <1>2. l = transport /\ NoCall /\ Up /\ transport # 0
    BY <1>1, LiveIsUp DEF Up
  <1>3. jobs[l] = <<>>
    BY <1>1, <1>2 DEF Up, AwaitedByListener, Queue
  <1>4. /\ UNCHANGED <<running, transport, listenTask, auto, isOpen, port, made, call, state>>
        /\ listener' = [listener EXCEPT ![l] = "opening"]
        /\ jobs' = [jobs EXCEPT ![l] = Append(@, JobBy("open", l))]
    BY <1>2 DEF TryReopen, callVars, Submit, JobBy
  <1>5. jobs'[l] = <<JobBy("open", l)>> /\ DOMAIN jobs' = Conn
    BY <1>3, <1>4, AppendEmpty DEF Situation, Typed
  <1>6. listener'[l] = "opening" /\ listener' \in [Conn -> ListenerState]
    BY <1>4 DEF Situation, Typed, ListenerState
  <1>7. Up'
    BY <1>2, <1>4, <1>5, <1>6 DEF Up, AwaitedByListener, Queue
  <1>8. QED
    BY <1>2, <1>4, <1>5, <1>6, <1>7, UpKeeps DEF Situation, Typed

LEMMA ListenerEndsKeeps ==
  ASSUME Situation, NEW l \in Conn, ListenerEnds(l)
  PROVE  Situation'
  <1>1. /\ listener[l] = "cancelled"
        /\ listener' = [listener EXCEPT ![l] = "done"]
        /\ UNCHANGED <<managerVars, deviceVars, callVars>>
    BY DEF ListenerEnds
  <1>2. l = transport /\ transport # 0
    BY <1>1 DEF Situation, OthersAtRest, Conn
  <1>3. ~NoCall
    BY <1>1, <1>2 DEF Situation, Resting, Off, Failed, Up
  <1>4. listener'[l] = "done" /\ listener' \in [Conn -> ListenerState]
    BY <1>1 DEF Situation, Typed, ListenerState
  <1>5. Typed'
    BY <1>1, <1>4 DEF Situation, Typed, managerVars, deviceVars, callVars
  <1>6. OthersAtRest'
    BY <1>1, <1>2 DEF Situation, Typed, OthersAtRest, managerVars, deviceVars, callVars
  <1>7. \A c \in Caller : call[c] # Idle => Joining(c)
    BY <1>1, <1>2 DEF Situation, OneRequest, Closing, Opening
  <1>8. \A c \in Caller : Joining(c) => Joining(c)'
    BY <1>1, <1>2, <1>4 DEF Joining, AtMostAbandoned, Queue, managerVars, deviceVars, callVars
  <1>9. OneRequest' /\ ~NoCall'
    BY <1>1, <1>3, <1>7, <1>8 DEF Situation, OneRequest, NoCall, callVars
  <1>10. QED
    BY <1>5, <1>6, <1>9 DEF Situation

-----------------------------------------------------------------------------
(* The threads.                                                            *)

\* What a thread executes, and for whom.
ForListener(kind) ==
  /\ NoCall /\ Up
  /\ Queue = <<JobBy(kind, transport)>>
  /\ listener[transport] =
       CASE kind = "open" -> "opening" [] kind = "read" -> "reading" [] kind = "close" -> "closing"

ForRequest(c, kind) ==
  /\ call[c] # Idle
  /\ Queue = <<JobBy(kind, c)>>
  /\ \/ kind = "open" /\ Opening(c)
     \/ kind = "close" /\ Closing(c)

ForNobody(c, kind) ==
  /\ call[c] # Idle
  /\ \/ Joining(c) /\ Queue = <<JobBy(kind, Nobody)>>
     \/ Closing(c) /\ Queue = <<JobBy(kind, Nobody), JobBy("close", c)>>

LEMMA HeadCases ==
  ASSUME Situation, NEW t \in Conn, NEW kind \in {"open", "read", "close"}, Executing(t, kind)
  PROVE  /\ t = transport
         /\ \/ ForListener(kind)
            \/ \E c \in Caller : ForRequest(c, kind)
            \/ \E c \in Caller : ForNobody(c, kind)
  <1>1. t = transport /\ Queue # <<>> /\ Head(Queue).kind = kind
    BY DEF Executing, Situation, OthersAtRest, Queue
  <1>2. CASE NoCall
    <2>1. Up
      BY <1>1, <1>2 DEF Situation, Resting, Off, Failed, Conn
    <2>2. \E k \in {"open", "read", "close"} : Queue = <<JobBy(k, transport)>> /\ ForListener(k)
      BY <1>1, <1>2, <2>1 DEF Up, AwaitedByListener, ForListener
    <2>3. QED
      BY <1>1, <2>2, HeadTailSingle DEF JobBy
  <1>3. CASE ~NoCall
    <2>1. PICK c \in Caller : call[c] # Idle
      BY <1>3 DEF NoCall
    <2>2. CASE Joining(c)
      BY <1>1, <2>1, <2>2, HeadTailSingle DEF Joining, AtMostAbandoned, ForNobody, JobBy
    <2>3. CASE Closing(c)
      <3>1. CASE Queue = <<JobBy("close", c)>>
        <4>1. kind = "close"
          BY <1>1, <3>1, HeadTailSingle DEF JobBy
        <4>2. QED
          BY <1>1, <2>1, <2>3, <3>1, <4>1 DEF ForRequest
      <3>2. CASE \E k \in {"open", "read", "close"} :
                   Queue = <<JobBy(k, Nobody), JobBy("close", c)>>
        <4>1. PICK k \in {"open", "read", "close"} :
                Queue = <<JobBy(k, Nobody), JobBy("close", c)>>
          BY <3>2
        <4>2. kind = k
          BY <1>1, <4>1, HeadTailPair DEF JobBy
        <4>3. QED
          BY <1>1, <2>1, <2>3, <4>1, <4>2 DEF ForNobody
      <3>3. QED
        BY <2>3, <3>1, <3>2 DEF Closing
    <2>4. CASE Opening(c)
      <3>1. Queue = <<JobBy("open", c)>>
        BY <2>4 DEF Opening
      <3>2. kind = "open"
        BY <1>1, <3>1, HeadTailSingle DEF JobBy
      <3>3. ForRequest(c, "open")
        BY <2>1, <2>4, <3>1 DEF ForRequest
      <3>4. QED
        BY <1>1, <3>2, <3>3
    <2>5. QED
      BY <2>1, <2>2, <2>3, <2>4 DEF Situation, OneRequest
  <1>4. QED
    BY <1>2, <1>3

\* What nobody waits for any more changes no more than the port.
LEMMA NobodyKeeps ==
  ASSUME Situation, NEW c \in Caller, NEW kind \in {"open", "read", "close"},
         ForNobody(c, kind), transport \in Conn, jobs' = Popped(transport),
         UNCHANGED <<running, transport, listenTask, auto, isOpen, listener, call, made>>,
         port' \in [Conn -> BOOLEAN],
         \A k \in Conn : k # transport => port'[k] = port[k]
  PROVE  Situation'
  <1>1. /\ jobs'[transport] = Tail(Queue) /\ DOMAIN jobs' = Conn
        /\ \A k \in Conn : k # transport => jobs'[k] = jobs[k]
    BY DEF Popped, Queue, Situation, Typed
  <1>2. Typed' /\ OthersAtRest'
    BY <1>1 DEF Situation, Typed, OthersAtRest
  <1>q. Queue' = Tail(Queue)
    BY <1>1 DEF Queue
  <1>3. \/ Joining(c) /\ Queue' = <<>>
        \/ Closing(c) /\ Queue' = <<JobBy("close", c)>>
    BY <1>q, HeadTailSingle, HeadTailPair DEF ForNobody
  <1>4. Joining(c)' \/ Closing(c)'
    BY <1>3 DEF Joining, Closing, AtMostAbandoned
  <1>5. \A d \in Caller : call[d] # Idle => d = c
    BY DEF Situation, OneRequest, ForNobody
  <1>6. OneRequest'
    BY <1>4, <1>5 DEF Situation, OneRequest, ForNobody
  <1>7. ~NoCall'
    BY DEF ForNobody, NoCall
  <1>8. QED
    BY <1>2, <1>6, <1>7 DEF Situation

\* The listener's call has returned: no thread has any left.
LEMMA ListenerServed ==
  ASSUME Situation, NEW kind \in {"open", "read", "close"}, ForListener(kind)
  PROVE  /\ transport \in Conn /\ Waiter(transport) = transport
         /\ transport \notin Caller /\ transport # Nobody
         /\ DOMAIN Popped(transport) = Conn
         /\ \A k \in Conn : Popped(transport)[k] = <<>>
  <1>1. transport \in Conn
    BY ArduinoAssumption DEF ForListener, Up, Situation, Typed, Conn
  <1>2. transport \notin Caller /\ transport # Nobody
    BY <1>1, ArduinoAssumption DEF Conn
  <1>3. Waiter(transport) = transport
    BY HeadTailSingle DEF Waiter, ForListener, Queue, JobBy
  <1>4. Tail(jobs[transport]) = <<>>
    BY HeadTailSingle DEF ForListener, Queue
  <1>5. DOMAIN Popped(transport) = Conn
    BY DEF Popped, Situation, Typed
  <1>6. \A k \in Conn : Popped(transport)[k] = <<>>
    BY <1>1, <1>4 DEF Popped, Situation, Typed, OthersAtRest
  <1>7. QED
    BY <1>1, <1>2, <1>3, <1>5, <1>6

\* And so has the request's.
LEMMA RequestServed ==
  ASSUME Situation, NEW c \in Caller, NEW kind \in {"open", "read", "close"}, ForRequest(c, kind)
  PROVE  /\ transport \in Conn /\ Waiter(transport) = c
         /\ c \notin Conn /\ c # Nobody
         /\ DOMAIN Popped(transport) = Conn
         /\ \A k \in Conn : Popped(transport)[k] = <<>>
  <1>1. transport \in Conn
    BY ArduinoAssumption DEF ForRequest, Opening, Closing, Situation, Typed, Conn
  <1>2. c \notin Conn /\ c # Nobody
    BY ArduinoAssumption DEF Conn
  <1>3. Waiter(transport) = c
    BY HeadTailSingle DEF Waiter, ForRequest, Queue, JobBy
  <1>4. Tail(jobs[transport]) = <<>>
    BY HeadTailSingle DEF ForRequest, Queue
  <1>5. DOMAIN Popped(transport) = Conn
    BY DEF Popped, Situation, Typed
  <1>6. \A k \in Conn : Popped(transport)[k] = <<>>
    BY <1>1, <1>4 DEF Popped, Situation, Typed, OthersAtRest
  <1>7. QED
    BY <1>1, <1>2, <1>3, <1>5, <1>6

LEMMA NobodyWaits ==
  ASSUME NEW c \in Caller, NEW kind \in {"open", "read", "close"}, ForNobody(c, kind)
  PROVE  Waiter(transport) = Nobody /\ Nobody \notin Conn /\ Nobody \notin Caller
  <1>1. Nobody \notin Conn /\ Nobody \notin Caller
    BY ArduinoAssumption DEF Conn
  <1>2. Head(Queue) = JobBy(kind, Nobody)
    BY HeadTailSingle, HeadTailPair DEF ForNobody
  <1>3. QED
    BY <1>1, <1>2 DEF Waiter, Queue, JobBy

LEMMA OpenReturnsKeeps ==
  ASSUME Situation, NEW t \in Conn, NEW result \in {"open", "half", "failed"},
         OpenReturns(t, result)
  PROVE  Situation'
  <1>1. Executing(t, "open")
    BY DEF OpenReturns
  <1>2. /\ t = transport
        /\ \/ ForListener("open")
           \/ \E c \in Caller : ForRequest(c, "open")
           \/ \E c \in Caller : ForNobody(c, "open")
    BY <1>1, HeadCases
  <1>3. /\ port' \in [Conn -> BOOLEAN]
        /\ \A k \in Conn : k # transport => port'[k] = port[k]
        /\ UNCHANGED <<transport, auto, made>>
    BY <1>2 DEF OpenReturns, Situation, Typed
  <1>4. ASSUME NEW c \in Caller, ForNobody(c, "open")
        PROVE  Situation'
    <2>1. Waiter(t) = Nobody /\ Nobody \notin Conn /\ Nobody \notin Caller
      BY <1>2, <1>4, NobodyWaits
    <2>2. jobs' = Popped(t) /\ UNCHANGED <<isOpen, running, state, listenTask, listener, call>>
      BY <2>1 DEF OpenReturns
    <2>3. QED
      BY <1>2, <1>3, <1>4, <2>2, NobodyKeeps
  <1>5. ASSUME NEW c \in Caller, ForRequest(c, "open")
        PROVE  Situation'
    <2>1. /\ transport \in Conn /\ Waiter(t) = c /\ c \notin Conn /\ c # Nobody
          /\ DOMAIN Popped(t) = Conn
          /\ \A k \in Conn : Popped(t)[k] = <<>>
      BY <1>2, <1>5, RequestServed
    <2>2. Opening(c)
      BY <1>5 DEF ForRequest
    <2>3. /\ isOpen' = [isOpen EXCEPT ![t] = result = "open"]
          /\ jobs' = Popped(t)
          /\ call' = [call EXCEPT ![c] = Idle]
          /\ \/ /\ result = "open"
                /\ state' = "CONNECTED" /\ listenTask' = t /\ running' = running
                /\ listener' = [listener EXCEPT ![t] = "created"]
             \/ /\ state' = "ERROR" /\ running' = FALSE
                /\ listenTask' = listenTask /\ listener' = listener
      BY <2>1 DEF OpenReturns
    <2>4. call' \in [Caller -> Call]
      BY <2>3, IdleCall DEF Situation, Typed
    <2>5. listener' \in [Conn -> ListenerState] /\ listener'[t] \in {"created", "unborn"}
      BY <1>2, <2>1, <2>2, <2>3 DEF Situation, Typed, ListenerState, Opening
    <2>6. t = made /\ t > 0
      BY <1>2, <2>1 DEF Situation, Typed, Conn
    <2>a. isOpen' \in [Conn -> BOOLEAN] /\ DOMAIN jobs' = Conn
      BY <2>1, <2>3 DEF Situation, Typed
    <2>b. listenTask' \in 0..made
      <3>1. t \in 0..made /\ listenTask \in 0..made
        BY <2>6 DEF Situation, Typed, Conn
      <3>2. QED
        BY <2>3, <3>1
    <2>c. running' \in BOOLEAN
      BY <2>3 DEF Situation, Typed
    <2>7. Typed'
      BY <1>3, <2>4, <2>5, <2>a, <2>b, <2>c DEF Situation, Typed
    <2>8. OthersAtRest'
      BY <1>2, <1>3, <2>1, <2>3, <2>6 DEF Situation, Typed, OthersAtRest
    <2>9. \A d \in Caller : call'[d] = Idle
      BY <1>5, <2>3 DEF Situation, Typed, OneRequest, ForRequest
    <2>10. Failed' \/ Up'
      <3>1. CASE listener' = listener
        BY <1>2, <1>3, <2>1, <2>2, <2>3, <3>1 DEF Failed, Queue, Opening, Situation, Typed
      <3>2. CASE listener' # listener
        BY <1>2, <1>3, <2>1, <2>2, <2>3, <2>6, <3>2
           DEF Up, AwaitedByListener, Queue, Opening, Situation, Typed
      <3>3. QED
        BY <3>1, <3>2
    <2>11. QED
      BY <2>7, <2>8, <2>9, <2>10 DEF Situation, OneRequest, Resting
  <1>6. ASSUME ForListener("open")
        PROVE  Situation'
    <2>1. /\ transport \in Conn /\ Waiter(t) = t /\ t \notin Caller /\ t # Nobody
          /\ DOMAIN Popped(t) = Conn
          /\ \A k \in Conn : Popped(t)[k] = <<>>
      BY <1>2, <1>6, ListenerServed
    <2>2. NoCall /\ Up /\ transport # 0
      BY <1>6 DEF ForListener, Up
    <2>3. /\ isOpen' = [isOpen EXCEPT ![t] = result = "open"]
          /\ isOpen' \in [Conn -> BOOLEAN]
          /\ isOpen'[t] <=> result = "open"
          /\ UNCHANGED <<running, listenTask, call>>
      BY <2>1 DEF OpenReturns, Situation, Typed
    <2>4. CASE result # "open"
      <3>1. LoopTop(t, Popped(t), isOpen')
        BY <2>1, <2>3, <2>4 DEF OpenReturns
      <3>2. LoopedTop
        BY <1>2, <2>1, <2>2, <2>3, <2>4, <3>1 DEF LoopTop, LoopedTop, Usable, Up
      <3>3. QED
        BY <1>2, <1>3, <2>2, <2>3, <2>4, <3>2, LoopTopKeeps DEF Up
    <2>5. CASE result = "open"
      <3>1. Usable(isOpen')
        BY <1>2, <2>2, <2>3, <2>5 DEF Usable
      <3>2. /\ state' = "CONNECTED"
            /\ listener' = [listener EXCEPT ![t] = "reading"]
            /\ jobs' = [Popped(t) EXCEPT ![t] = Append(@, JobBy("read", t))]
        BY <1>2, <2>1, <2>2, <2>3, <2>5, <3>1 DEF OpenReturns, Submit, JobBy, Usable
      <3>3. /\ DOMAIN jobs' = Conn /\ jobs'[t] = <<JobBy("read", t)>>
            /\ \A k \in Conn : k # t => jobs'[k] = <<>>
        BY <2>1, <3>2, AppendEmpty
      <3>4. listener' \in [Conn -> ListenerState] /\ listener'[t] = "reading"
        BY <3>2 DEF Situation, Typed, ListenerState
      <3>5. Up'
        BY <1>2, <1>3, <2>2, <2>3, <3>2, <3>3, <3>4 DEF Up, AwaitedByListener, Queue
      <3>6. \A k \in Conn : k # transport => jobs'[k] = jobs[k] /\ listener'[k] = listener[k]
        BY <1>2, <3>2, <3>3 DEF Situation, Typed, OthersAtRest
      <3>7. QED
        BY <1>3, <2>2, <2>3, <3>3, <3>4, <3>5, <3>6, UpKeeps
    <2>6. QED
      BY <2>4, <2>5
  <1>7. QED
    BY <1>2, <1>4, <1>5, <1>6

LEMMA ReadReturnsKeeps ==
  ASSUME Situation, NEW t \in Conn, NEW result \in {"line", "timeout", "lost"},
         ReadReturns(t, result)
  PROVE  Situation'
  <1>1. Executing(t, "read")
    BY DEF ReadReturns
  <1>2. /\ t = transport
        /\ \/ ForListener("read")
           \/ \E c \in Caller : ForNobody(c, "read")
    BY <1>1, HeadCases DEF ForRequest
  <1>3. UNCHANGED <<running, transport, listenTask, auto, system, port, made, call>>
    BY DEF ReadReturns, callVars
  <1>4. ASSUME NEW c \in Caller, ForNobody(c, "read")
        PROVE  Situation'
    <2>1. Waiter(t) = Nobody /\ Nobody \notin Conn /\ Nobody \notin Caller
      BY <1>2, <1>4, NobodyWaits
    <2>2. jobs' = Popped(t) /\ UNCHANGED <<isOpen, listener>>
      BY <2>1 DEF ReadReturns
    <2>3. QED
      BY <1>2, <1>3, <1>4, <2>2, NobodyKeeps DEF Situation, Typed
  <1>5. ASSUME ForListener("read")
        PROVE  Situation'
    <2>1. /\ transport \in Conn /\ Waiter(t) = t /\ t \notin Caller /\ t # Nobody
          /\ DOMAIN Popped(t) = Conn
          /\ \A k \in Conn : Popped(t)[k] = <<>>
      BY <1>2, <1>5, ListenerServed
    <2>2. NoCall /\ Up /\ transport # 0 /\ state = "CONNECTED"
      BY <1>5 DEF ForListener, Up
    <2>3. \A k \in Conn : k # transport => jobs[k] = <<>>
      BY DEF Situation, OthersAtRest
    <2>4. CASE result = "line"
      <3>1. LoopTop(t, Popped(t), isOpen) /\ isOpen' = isOpen
        BY <2>1, <2>4 DEF ReadReturns
      <3>2. LoopedTop
        BY <1>2, <2>1, <2>2, <3>1, AppendEmpty
           DEF LoopTop, LoopedTop, Up, Submit, JobBy
      <3>3. QED
        BY <1>3, <2>2, <3>1, <3>2, LoopTopKeeps DEF Up, Situation, Typed
    <2>5. CASE result = "timeout"
      <3>1. /\ listener' = [listener EXCEPT ![t] = "idle"]
            /\ jobs' = Popped(t) /\ state' = state /\ isOpen' = isOpen
        BY <2>1, <2>5 DEF ReadReturns
      <3>2. listener' \in [Conn -> ListenerState] /\ listener'[t] = "idle"
        BY <3>1 DEF Situation, Typed, ListenerState
      <3>3. Up'
        BY <1>2, <1>3, <2>1, <2>2, <3>1, <3>2 DEF Up, AwaitedByListener, Queue
      <3>4. QED
        BY <1>2, <1>3, <2>1, <2>2, <2>3, <3>1, <3>2, <3>3, UpKeeps DEF Situation, Typed
    <2>6. CASE result = "lost"
      <3>1. /\ isOpen' = [isOpen EXCEPT ![t] = FALSE]
            /\ listener' = [listener EXCEPT ![t] = "closing"]
            /\ jobs' = [Popped(t) EXCEPT ![t] = Append(@, JobBy("close", t))]
            /\ state' = state
        BY <1>2, <2>1, <2>2, <2>6 DEF ReadReturns, Submit, JobBy, Situation, Typed
      <3>2. listener' \in [Conn -> ListenerState] /\ listener'[t] = "closing"
        BY <3>1 DEF Situation, Typed, ListenerState
      <3>3. /\ DOMAIN jobs' = Conn /\ jobs'[t] = <<JobBy("close", t)>>
            /\ \A k \in Conn : k # t => jobs'[k] = <<>>
        BY <2>1, <3>1, AppendEmpty
      <3>4. isOpen' \in [Conn -> BOOLEAN] /\ ~isOpen'[t]
        BY <3>1 DEF Situation, Typed
      <3>5. Up'
        BY <1>2, <1>3, <2>2, <3>1, <3>2, <3>3, <3>4 DEF Up, AwaitedByListener, Queue
      <3>6. QED
        BY <1>2, <1>3, <2>2, <2>3, <3>1, <3>2, <3>3, <3>4, <3>5, UpKeeps DEF Situation, Typed
    <2>7. QED
      BY <2>4, <2>5, <2>6
  <1>6. QED
    BY <1>2, <1>4, <1>5

LEMMA CloseReturnsKeeps ==
  ASSUME Situation, NEW t \in Conn, CloseReturns(t)
  PROVE  Situation'
  <1>1. Executing(t, "close")
    BY DEF CloseReturns
  <1>2. /\ t = transport
        /\ \/ ForListener("close")
           \/ \E c \in Caller : ForRequest(c, "close")
           \/ \E c \in Caller : ForNobody(c, "close")
    BY <1>1, HeadCases
  <1>3. /\ port' = [port EXCEPT ![t] = FALSE]
        /\ port' \in [Conn -> BOOLEAN]
        /\ \A k \in Conn : k # transport => port'[k] = port[k]
        /\ UNCHANGED <<listenTask, isOpen>>
    BY <1>2 DEF CloseReturns, Situation, Typed
  <1>4. ASSUME NEW c \in Caller, ForNobody(c, "close")
        PROVE  Situation'
    <2>1. Waiter(t) = Nobody /\ Nobody \notin Conn /\ Nobody \notin Caller
      BY <1>2, <1>4, NobodyWaits
    <2>2. jobs' = Popped(t) /\ UNCHANGED <<running, state, transport, auto, listener, call, made>>
      BY <2>1 DEF CloseReturns
    <2>3. QED
      BY <1>2, <1>3, <1>4, <2>2, NobodyKeeps
  <1>5. ASSUME NEW c \in Caller, ForRequest(c, "close")
        PROVE  Situation'
    <2>1. /\ transport \in Conn /\ Waiter(t) = c /\ c \notin Conn /\ c # Nobody
          /\ DOMAIN Popped(t) = Conn
          /\ \A k \in Conn : Popped(t)[k] = <<>>
      BY <1>2, <1>5, RequestServed
    <2>2. Closing(c) /\ call[c] # Idle
      BY <1>5 DEF ForRequest
    <2>3. /\ call[c].what \in {"connect", "disconnect"}
          /\ call[c].what = "connect" => made < MaxConnects
          /\ \A d \in Caller : d # c => call[d] = Idle
      BY <2>2 DEF Situation, OneRequest, Closing
    <2>4. Finish(c, call[c].what, running, Popped(t)) /\ listener' = listener
      BY <2>1 DEF CloseReturns
    <2>5. Finished(c, call[c].what)
      BY <2>1, <2>2, <2>3, <2>4, AppendEmpty DEF Finish, Finished, Submit, JobBy, Closing,
                                                 Situation, Typed
    <2>6. /\ \A k \in Conn : listener[k] \in {"unborn", "done"}
          /\ \A k \in Conn : port'[k] => listener[k] = "unborn"
          /\ \A k \in Conn : k > made => listener[k] = "unborn"
      BY <1>2, <1>3, <2>2 DEF Situation, Typed, OthersAtRest, Closing
    <2>7. isOpen' \in [Conn -> BOOLEAN] /\ listenTask' \in 0..made
      BY <1>3 DEF Situation, Typed
    <2>8. QED
      BY <1>3, <2>3, <2>4, <2>5, <2>6, <2>7, FinishKeeps DEF Situation
  <1>6. ASSUME ForListener("close")
        PROVE  Situation'
    <2>1. /\ transport \in Conn /\ Waiter(t) = t /\ t \notin Caller /\ t # Nobody
          /\ DOMAIN Popped(t) = Conn
          /\ \A k \in Conn : Popped(t)[k] = <<>>
      BY <1>2, <1>6, ListenerServed
    <2>2. NoCall /\ Up /\ transport # 0 /\ ~isOpen[t]
      BY <1>2, <1>6 DEF ForListener, Up
    <2>3. /\ LoopTop(t, Popped(t), isOpen)
          /\ UNCHANGED <<running, transport, auto, system, call, made>>
      BY <2>1 DEF CloseReturns
    <2>4. LoopedTop
      BY <1>2, <1>3, <2>1, <2>2, <2>3 DEF LoopTop, LoopedTop, Up, Usable
    <2>5. QED
      BY <1>2, <1>3, <2>2, <2>3, <2>4, LoopTopKeeps DEF Up, Situation, Typed
  <1>7. QED
    BY <1>2, <1>4, <1>5, <1>6

-----------------------------------------------------------------------------
(* The theorems.                                                           *)

\* Once two requests have overlapped, they have for good.
LEMMA OverlapStays ==
  ASSUME Next \/ UNCHANGED arduinoVars, ~overlapped'
  PROVE  ~overlapped
  BY DEF Next, CallerStep, ListenerStep, ThreadStep, Connect, Disconnect, Begins, ListenerJoined,
         ListenerWakes, TryReopen, ListenerEnds, OpenReturns, ReadReturns, CloseReturns,
         callVars, arduinoVars

LEMMA SituationUnchanged ==
  ASSUME Situation, UNCHANGED <<managerVars, deviceVars, listener, callVars>>
  PROVE  Situation'
  BY DEF managerVars, deviceVars, callVars, Situation, Typed, OthersAtRest, OneRequest, NoCall,
         Resting, Off, Failed, Up, Joining, Closing, Opening, AtMostAbandoned, AwaitedByListener,
         Queue

LEMMA SituationKept ==
  ASSUME Situation, Next \/ UNCHANGED arduinoVars, ~overlapped'
  PROVE  Situation'
  <1>1. ASSUME NEW c \in Caller, CallerStep(c)
        PROVE  Situation'
    BY <1>1, ConnectKeeps, DisconnectKeeps, ListenerJoinedKeeps DEF CallerStep
  <1>2. ASSUME NEW l \in Conn, ListenerStep(l)
        PROVE  Situation'
    BY <1>2, ListenerWakesKeeps, TryReopenKeeps, ListenerEndsKeeps DEF ListenerStep
  <1>3. ASSUME NEW t \in Conn, ThreadStep(t)
        PROVE  Situation'
    BY <1>3, OpenReturnsKeeps, ReadReturnsKeeps, CloseReturnsKeeps DEF ThreadStep
  <1>4. CASE UNCHANGED arduinoVars
    BY <1>4, SituationUnchanged DEF arduinoVars
  <1>5. QED
    BY <1>1, <1>2, <1>3, <1>4 DEF Next

\* As long as requests do not overlap, the connection is off, failed, up, or
\* in a wait of connect() or disconnect(), and the current thread's queue is
\* the one that goes with it.
THEOREM SituationInvariant == Spec => []IInv
  <1>1. Init => IInv
    BY SituationInit DEF IInv
  <1>2. IInv /\ [Next]_arduinoVars => IInv'
    BY OverlapStays, SituationKept DEF IInv
  <1>3. QED
    BY <1>1, <1>2, PTL DEF Spec

LEMMA SituationHasOneReader ==
  ASSUME Situation
  PROVE  /\ \A k, l \in Conn : Live(k) /\ Live(l) => k = l
         /\ \A t \in Conn : \A i \in 1..Len(jobs[t]) :
              jobs[t][i].by \in Conn => Live(jobs[t][i].by) /\ t = transport
  <1>1. \A k \in Conn : Live(k) => k = transport
    BY DEF Situation, OthersAtRest, Live
  <1>2. ASSUME NEW t \in Conn, NEW i \in 1..Len(jobs[t]), jobs[t][i].by \in Conn
        PROVE  Live(jobs[t][i].by) /\ t = transport
    <2>1. t = transport /\ jobs[t] = Queue /\ i \in 1..Len(Queue) /\ transport # 0
      BY <1>2 DEF Situation, OthersAtRest, Queue, Conn
    <2>2. \A c \in Caller \union {Nobody} : c \notin Conn
      BY ArduinoAssumption DEF Conn
    <2>3. Queue[i].by \in Conn
      BY <1>2, <2>1
    <2>4. CASE \E kind, w : Queue = <<JobBy(kind, w)>>
      <3>1. PICK kind, w : Queue = <<JobBy(kind, w)>>
        BY <2>4
      <3>2. i = 1
        BY <2>1, <3>1
      <3>3. w \in Conn /\ Queue[i].by = w
        BY <2>3, <3>1, <3>2 DEF JobBy
      <3>4. \A c \in Caller : call[c] = Idle
        <4>1. \A k, v : Queue = <<JobBy(k, v)>> => v = w
          BY <3>1, <3>2, <3>3 DEF JobBy
        <4>2. \A c \in Caller : ~Joining(c) /\ ~Closing(c) /\ ~Opening(c)
          BY <2>2, <3>1, <3>3, <4>1 DEF Joining, Closing, Opening, AtMostAbandoned
        <4>3. QED
          BY <4>2 DEF Situation, OneRequest
      <3>5. Up
        BY <2>1, <3>1, <3>4 DEF Situation, NoCall, Resting, Off, Failed
      <3>6. w = transport /\ listener[transport] \in {"opening", "reading", "closing"}
        BY <3>1, <3>2, <3>3, <3>5 DEF Up, AwaitedByListener, JobBy
      <3>7. QED
        BY <1>2, <2>1, <3>3, <3>6 DEF Live
    <2>5. CASE \E kind \in {"open", "read", "close"} : \E c \in Caller :
                 Queue = <<JobBy(kind, Nobody), JobBy("close", c)>>
      <3>1. PICK kind \in {"open", "read", "close"}, c \in Caller :
              Queue = <<JobBy(kind, Nobody), JobBy("close", c)>>
        BY <2>5
      <3>2. i = 1 \/ i = 2
        BY <2>1, <3>1
      <3>3. Queue[i].by \in Caller \union {Nobody}
        BY <3>1, <3>2 DEF JobBy
      <3>4. QED
        BY <2>2, <2>3, <3>3
    <2>6. CASE Queue = <<>>
      BY <2>1, <2>6
    <2>7. NoCall \/ \E c \in Caller : Joining(c) \/ Closing(c) \/ Opening(c)
      BY DEF NoCall, Situation, OneRequest
    <2>8. QED
      BY <2>1, <2>4, <2>5, <2>6, <2>7
         DEF Situation, Resting, Off, Failed, Up, AwaitedByListener, Joining, Closing, Opening,
             AtMostAbandoned
  <1>3. QED
    BY <1>1, <1>2

\* As long as no two requests have overlapped, at most one listener task reads
\* or reopens the port, and it does so on the transport of the last connect().
THEOREM OneReaderOnly == Spec => []OneReader
  <1>1. IInv => OneReader
    BY SituationHasOneReader DEF IInv, OneReader
  <1>2. QED
    BY <1>1, SituationInvariant, PTL

\* As long as no two requests have overlapped: when disconnect() has reported
\* DISCONNECTED, no port that was ever connected is open, no call is queued, and
\* no listener lives.
THEOREM DisconnectLeavesNothing == Spec => []NoPortLeaked
  <1>1. IInv => NoPortLeaked
    <2>1. SUFFICES ASSUME Situation, state = "DISCONNECTED", NoCall
                   PROVE  Quiet /\ \A t \in Conn :
                            jobs[t] = <<>> /\ (port[t] => listener[t] = "unborn")
      BY DEF IInv, NoPortLeaked
    <2>2. Off
      BY <2>1 DEF Situation, Resting, Failed, Up
    <2>3. QED
      BY <2>1, <2>2 DEF Situation, Off, Quiet, OthersAtRest, Live, Conn
  <1>2. QED
    BY <1>1, SituationInvariant, PTL

\* As long as no two requests have overlapped, a link that is reported CONNECTED
\* has the listener that will notice its loss, unless auto_reconnect is off, when
\* a loss may have ended it.
THEOREM ConnectedHasListener == Spec => []ConnectedIsServed
  <1>1. IInv => ConnectedIsServed
    <2>1. SUFFICES ASSUME Situation, state = "CONNECTED", NoCall
                   PROVE  transport # 0 /\ running /\ (auto => Live(listenTask))
      BY DEF IInv, ConnectedIsServed
    <2>2. Up
      BY <2>1 DEF Situation, Resting, Off, Failed
    <2>3. transport \in Conn
      BY <2>1, <2>2, ArduinoAssumption DEF Up, Situation, Typed, Conn
    <2>4. QED
      BY <2>2, <2>3 DEF Up, Live
  <1>2. QED
    BY <1>1, SituationInvariant, PTL

-----------------------------------------------------------------------------
(* Both feeds.                                                             *)

\* While the service is said to run, the last task that start() made is in its
\* loop: only a stop(), which clears the flag, ends it.
LastGenerates ==
  /\ generator \in [Generator -> {"unborn", "created", "sleeping", "cancelled", "done"}]
  /\ born \in 0..MaxStarts
  /\ isRunning => born \in Generator /\ generator[born] \in {"created", "sleeping"}

\* Every twin has been fed by something, if only by nothing.
FedKnown == DOMAIN fed = System

FeedsInv == IInv /\ LastGenerates /\ FedKnown

LEMMA FedByHardware ==
  ASSUME Next
  PROVE  \/ fed' = fed
         \/ /\ fed' = [fed EXCEPT ![system] = "LIVE_HARDWARE"]
            /\ \E t \in Conn : ReadReturns(t, "line") /\ Waiter(t) # Nobody
  <1>1. ASSUME NEW t \in Conn, NEW result \in {"line", "timeout", "lost"}, ReadReturns(t, result)
        PROVE  \/ fed' = fed
               \/ /\ fed' = [fed EXCEPT ![system] = "LIVE_HARDWARE"]
                  /\ ReadReturns(t, "line") /\ Waiter(t) # Nobody
    BY <1>1, ArduinoAssumption DEF ReadReturns, Conn
  <1>2. QED
    BY <1>1
       DEF Next, CallerStep, ListenerStep, ThreadStep, Connect, Disconnect, ListenerJoined,
           ListenerWakes, TryReopen, ListenerEnds, OpenReturns, CloseReturns

LEMMA FedByMock ==
  ASSUME MockNext
  PROVE  fed' = fed \/ fed' = [fed EXCEPT ![target] = "MOCK"]
  BY DEF MockNext, Configure, StartMock, StopMock, StopReturns, Sample, GeneratorEnds

LEMMA LastGeneratesKept ==
  ASSUME LastGenerates, MockNext
  PROVE  LastGenerates'
  <1>1. ASSUME NEW y \in System, Configure(y)
        PROVE  LastGenerates'
    BY <1>1 DEF Configure, LastGenerates
  <1>2. ASSUME NEW r \in Request, StartMock(r)
        PROVE  LastGenerates'
    <2>1. /\ born' = born + 1 /\ born' \in Generator /\ isRunning'
          /\ generator' = [generator EXCEPT ![born'] = "created"]
      BY <1>2, FeedsAssumption DEF StartMock, LastGenerates, Generator
    <2>2. QED
      BY <2>1 DEF LastGenerates, Generator
  <1>3. ASSUME NEW r \in Request, StopMock(r)
        PROVE  LastGenerates'
    BY <1>3 DEF StopMock, LastGenerates
  <1>4. ASSUME NEW r \in Request, StopReturns(r)
        PROVE  LastGenerates'
    BY <1>4 DEF StopReturns, LastGenerates
  <1>5. ASSUME NEW g \in Generator, Sample(g)
        PROVE  LastGenerates'
    BY <1>5 DEF Sample, LastGenerates
  <1>6. ASSUME NEW g \in Generator, GeneratorEnds(g)
        PROVE  LastGenerates'
    BY <1>6 DEF GeneratorEnds, LastGenerates
  <1>7. QED
    BY <1>1, <1>2, <1>3, <1>4, <1>5, <1>6 DEF MockNext

\* The Arduino's situation, the generator tasks and what fed each twin go together.
THEOREM FeedsInvariant == FeedsSpec => []FeedsInv
  <1>1. FeedsInit => FeedsInv
    <2>1. FeedsInit => LastGenerates
      BY FeedsAssumption DEF FeedsInit, MockInit, LastGenerates
    <2>2. FeedsInit => FedKnown
      BY DEF FeedsInit, Init, FedKnown
    <2>3. QED
      BY <2>1, <2>2, SituationInit DEF FeedsInit, FeedsInv, IInv
  <1>2. FeedsInv /\ [FeedsNext]_feedVars => FeedsInv'
    <2>1. SUFFICES ASSUME FeedsInv, FeedsNext \/ UNCHANGED feedVars
                   PROVE  FeedsInv'
      OBVIOUS
    <2>2. CASE Next /\ UNCHANGED mockOwn
      <3>1. LastGenerates'
        BY <2>1, <2>2 DEF FeedsInv, LastGenerates, mockOwn
      <3>2. IInv'
        BY <2>1, <2>2, OverlapStays, SituationKept DEF FeedsInv, IInv
      <3>3. FedKnown'
        BY <2>1, <2>2, FedByHardware DEF FeedsInv, FedKnown
      <3>4. QED
        BY <3>1, <3>2, <3>3 DEF FeedsInv
    <2>3. CASE MockNext /\ UNCHANGED <<managerVars, deviceVars, listener, callVars>>
      <3>1. IInv'
        BY <2>1, <2>3, SituationUnchanged DEF FeedsInv, IInv, callVars
      <3>2. FedKnown'
        BY <2>1, <2>3, FedByMock DEF FeedsInv, FedKnown
      <3>3. QED
        BY <2>1, <2>3, <3>1, <3>2, LastGeneratesKept DEF FeedsInv
    <2>4. CASE UNCHANGED feedVars
      BY <2>1, <2>4, OverlapStays, SituationKept
         DEF FeedsInv, feedVars, mockOwn, LastGenerates, IInv, arduinoVars, FedKnown
    <2>5. QED
      BY <2>1, <2>2, <2>3, <2>4 DEF FeedsNext
  <1>3. QED
    BY <1>1, <1>2, PTL DEF FeedsSpec

\* is_running of the mock service always means a task that does generate,
\* however start() and stop() overlap.
THEOREM GeneratorRuns == FeedsSpec => []RunningMeansGenerating
  <1>1. FeedsInv => RunningMeansGenerating
    BY DEF FeedsInv, LastGenerates, RunningMeansGenerating, Alive
  <1>2. QED
    BY <1>1, FeedsInvariant, PTL

\* A twin goes from mock to hardware data only while the link is CONNECTED and
\* its configuration names that twin, unless requests have overlapped.
THEOREM HardwareIsConnected == FeedsSpec => HardwareFeedsWhileConnected
  <1> DEFINE Taken(y) == fed[y] = "MOCK" /\ fed'[y] = "LIVE_HARDWARE"
  <1>1. ASSUME FeedsInv, FeedsNext \/ UNCHANGED feedVars, NEW y \in System, Taken(y), ~overlapped
        PROVE  running /\ state = "CONNECTED" /\ system = y
    <2>1. CASE MockNext
      BY <1>1, <2>1, FedByMock DEF FeedsInv, FedKnown
    <2>2. CASE Next
      <3>1. PICK t \in Conn : /\ fed' = [fed EXCEPT ![system] = "LIVE_HARDWARE"]
                             /\ ReadReturns(t, "line") /\ Waiter(t) # Nobody
        BY <1>1, <2>2, FedByHardware
      <3>2. Situation /\ Executing(t, "read")
        BY <1>1, <3>1 DEF FeedsInv, IInv, ReadReturns
      <3>3. t = transport /\ ~\E c \in Caller : ForNobody(c, "read")
        BY <3>1, <3>2, HeadCases, NobodyWaits
      <3>4. ForListener("read")
        BY <3>2, <3>3, HeadCases DEF ForRequest
      <3>5. running /\ state = "CONNECTED"
        BY <3>4 DEF ForListener, Up
      <3>6. system = y
        BY <1>1, <3>1 DEF FeedsInv, FedKnown
      <3>7. QED
        BY <3>5, <3>6
    <2>3. CASE UNCHANGED feedVars
      BY <1>1, <2>3 DEF feedVars, arduinoVars
    <2>4. QED
      BY <1>1, <2>1, <2>2, <2>3 DEF FeedsNext
  <1>2. FeedsInv /\ [FeedsNext]_feedVars =>
          [\A y \in System : Taken(y) =>
             overlapped \/ (running /\ state = "CONNECTED" /\ system = y)]_feedVars
    BY <1>1
  <1>3. QED
    BY <1>2, FeedsInvariant, PTL DEF FeedsSpec, HardwareFeedsWhileConnected

-----------------------------------------------------------------------------
(* The live stream: the manager's subscription indexes.                   *)

\* The registry and its indexes are of their types.
HubTypeOK ==
  /\ connections \in SUBSET Client
  /\ subscriptions \in [Twin -> SUBSET Client]
  /\ clientSubs \in [Client -> SUBSET Twin]

\* What a step of the stream needs to know of the sessions: a client that has
\* not been accepted is registered nowhere.
FreshClients ==
  /\ DOMAIN session = Client
  /\ \A c \in Client : session[c].at = "none" => c \notin connections

HubInv == HubTypeOK /\ IndexesAgree /\ FreshClients

\* The relation that the indexes implement.
Follows == {p \in Client \X Twin : p[1] \in subscriptions[p[2]]}

-----------------------------------------------------------------------------
(* The four operations on the indexes keep them consistent, and each is an *)
(* operation of the relation.                                              *)

LEMMA SubscribeKeeps ==
  ASSUME HubTypeOK, IndexesAgree, NEW c \in Client, NEW y \in Twin,
         Subscribe(c, y), UNCHANGED connections
  PROVE  /\ HubTypeOK' /\ IndexesAgree'
         /\ [Hub!HubNext]_<<connections, Follows>>
  <1>1. CASE c \in connections
    <2>1. /\ subscriptions' = [subscriptions EXCEPT ![y] = @ \union {c}]
          /\ clientSubs' = [clientSubs EXCEPT ![c] = @ \union {y}]
      BY <1>1 DEF Subscribe
    <2>2. HubTypeOK'
      BY <2>1 DEF HubTypeOK
    <2>3. IndexesAgree'
      BY <1>1, <2>1 DEF IndexesAgree, HubTypeOK
    <2>4. Follows' = Follows \union {<<c, y>>}
      BY <2>1 DEF Follows, HubTypeOK
    <2>5. Hub!Follow(c, y)
      BY <1>1, <2>4 DEF Hub!Follow, Follows
    <2>6. QED
      BY <2>2, <2>3, <2>5 DEF Hub!HubNext, Hub!HubInit
  <1>2. CASE c \notin connections
    BY <1>2 DEF Subscribe, HubTypeOK, IndexesAgree, Follows
  <1>3. QED
    BY <1>1, <1>2

LEMMA UnsubscribeKeeps ==
  ASSUME HubTypeOK, IndexesAgree, NEW c \in Client, NEW y \in Twin,
         Unsubscribe(c, y), UNCHANGED connections
  PROVE  /\ HubTypeOK' /\ IndexesAgree'
         /\ [Hub!HubNext]_<<connections, Follows>>
  <1>1. /\ subscriptions' = [subscriptions EXCEPT ![y] = @ \ {c}]
        /\ clientSubs' = [clientSubs EXCEPT ![c] = @ \ {y}]
    BY DEF Unsubscribe
  <1>2. HubTypeOK'
    BY <1>1 DEF HubTypeOK
  <1>3. IndexesAgree'
    BY <1>1 DEF IndexesAgree, HubTypeOK
  <1>4. Follows' = Follows \ {<<c, y>>}
    BY <1>1 DEF Follows, HubTypeOK
  <1>5. Hub!Unfollow(c, y)
    BY <1>4 DEF Hub!Unfollow, Follows
  <1>6. QED
    BY <1>2, <1>3, <1>5 DEF Hub!HubNext

\* Because the indexes agree, taking a client out of the twins its own index
\* names takes it out of all.
LEMMA UnregisterKeeps ==
  ASSUME HubTypeOK, IndexesAgree, NEW gone, Unregister(gone)
  PROVE  /\ HubTypeOK' /\ IndexesAgree'
         /\ [Hub!HubNext]_<<connections, Follows>>
         /\ connections' = connections \ gone
  <1>1. /\ connections' = connections \ gone
        /\ clientSubs' = [c \in Client |-> IF c \in gone THEN {} ELSE clientSubs[c]]
        /\ subscriptions' =
             [y \in Twin |-> {c \in subscriptions[y] : c \in gone => y \notin clientSubs[c]}]
    BY DEF Unregister
  <1>2. HubTypeOK'
    BY <1>1 DEF HubTypeOK
  <1>3. \A y \in Twin : subscriptions'[y] = subscriptions[y] \ gone
    BY <1>1 DEF IndexesAgree, HubTypeOK
  <1>4. IndexesAgree'
    BY <1>1, <1>3 DEF IndexesAgree, HubTypeOK
  <1>5. Follows' = {p \in Follows : p[1] \notin gone \intersect Client}
    BY <1>3 DEF Follows, HubTypeOK
  <1>6. Hub!Forget(gone \intersect Client)
    BY <1>1, <1>5 DEF Hub!Forget, Follows, HubTypeOK
  <1>7. QED
    BY <1>1, <1>2, <1>4, <1>6 DEF Hub!HubNext

LEMMA PersonalKeeps ==
  ASSUME HubTypeOK, IndexesAgree, NEW c \in Client, PersonalSent(c)
  PROVE  /\ HubTypeOK' /\ IndexesAgree'
         /\ [Hub!HubNext]_<<connections, Follows>>
         /\ connections' \subseteq connections
  <1>1. CASE link[c] = "up"
    BY <1>1 DEF PersonalSent, hubVars, HubTypeOK, IndexesAgree, Follows
  <1>2. CASE link[c] # "up"
    BY <1>2, UnregisterKeeps DEF PersonalSent
  <1>3. QED
    BY <1>1, <1>2

LEMMA ProceedKeeps ==
  ASSUME HubTypeOK, IndexesAgree, NEW id, NEW b, Proceed(id, b)
  PROVE  /\ HubTypeOK' /\ IndexesAgree'
         /\ [Hub!HubNext]_<<connections, Follows>>
         /\ connections' \subseteq connections
  <1>1. CASE b.todo \intersect connections # {}
    BY <1>1 DEF Proceed, hubVars, HubTypeOK, IndexesAgree, Follows
  <1>2. CASE b.todo \intersect connections = {}
    BY <1>2, UnregisterKeeps DEF Proceed
  <1>3. QED
    BY <1>1, <1>2

LEMMA AcceptKeeps ==
  ASSUME HubInv, NEW c \in Client, NEW y \in Twin \union {NoTwin}, Accept(c, y)
  PROVE  /\ HubTypeOK' /\ IndexesAgree'
         /\ [Hub!HubNext]_<<connections, Follows>>
         /\ connections' = connections \union {c}
  <1>1. /\ c \notin connections
        /\ connections' = connections \union {c}
        /\ clientSubs[c] = {}
        /\ \A x \in Twin : c \notin subscriptions[x]
    BY DEF HubInv, HubTypeOK, FreshClients, IndexesAgree, Accept
  <1>2. CASE y = NoTwin
    <2>1. subscriptions' = subscriptions /\ clientSubs' = [clientSubs EXCEPT ![c] = {}]
      BY <1>2 DEF Accept
    <2>2. HubTypeOK' /\ IndexesAgree'
      BY <1>1, <2>1 DEF HubInv, HubTypeOK, IndexesAgree
    <2>3. Follows' = Follows
      BY <2>1 DEF Follows
    <2>4. Hub!Register(c)
      BY <1>1, <2>3 DEF Hub!Register, Follows
    <2>5. QED
      BY <1>1, <2>2, <2>4 DEF Hub!HubNext
  <1>3. CASE y # NoTwin
    <2>1. /\ subscriptions' = [subscriptions EXCEPT ![y] = @ \union {c}]
          /\ clientSubs' = [clientSubs EXCEPT ![c] = {y}]
          /\ y \in Twin
      BY <1>3 DEF Accept
    <2>2. HubTypeOK' /\ IndexesAgree'
      BY <1>1, <2>1 DEF HubInv, HubTypeOK, IndexesAgree
    <2>3. Follows' = Follows \union {<<c, y>>}
      BY <2>1 DEF Follows, HubInv, HubTypeOK
    <2>4. Hub!Register(c)
      BY <1>1, <2>1, <2>3 DEF Hub!Register, Follows
    <2>5. QED
      BY <1>1, <2>2, <2>4 DEF Hub!HubNext
  <1>4. QED
    BY <1>2, <1>3

-----------------------------------------------------------------------------
(* The inductive step.                                                     *)

\* A step that moves one session on, or none, and registers nobody.
LEMMA FreshKept ==
  ASSUME FreshClients, connections' \subseteq connections,
         \/ UNCHANGED session
         \/ \E c \in Client, at \in SessionAt \ {"none"} : \E y, n : At(c, at, y, n)
  PROVE  FreshClients'
  <1>1. CASE UNCHANGED session
    BY <1>1 DEF FreshClients
  <1>2. ASSUME NEW c \in Client, NEW at \in SessionAt \ {"none"}, NEW y, NEW n,
               At(c, at, y, n)
        PROVE  FreshClients'
    <2>1. session' = [session EXCEPT ![c] = [at |-> at, twin |-> y, step |-> n]]
      BY <1>2 DEF At
    <2>2. session'[c].at # "none"
      BY <2>1 DEF FreshClients
    <2>3. QED
      BY <2>1, <2>2 DEF FreshClients
  <1>3. QED
    BY <1>1, <1>2

\* What HubInv and the refinement need of a step.
Kept ==
  /\ HubTypeOK' /\ IndexesAgree' /\ FreshClients'
  /\ [Hub!HubNext]_<<connections, Follows>>

LEMMA UntouchedKeeps ==
  ASSUME HubInv, UNCHANGED hubVars
  PROVE  /\ HubTypeOK' /\ IndexesAgree'
         /\ [Hub!HubNext]_<<connections, Follows>>
         /\ connections' \subseteq connections
  BY DEF HubInv, hubVars, HubTypeOK, IndexesAgree, Follows

\* A session about to receive, or to send the latest state, has been accepted.
LEMMA MovesOn ==
  ASSUME NEW c \in Client
  PROVE  /\ Receiving(c) =>
              \E at \in SessionAt \ {"none"} : \E y, n : At(c, at, y, n)
         /\ \A y, at : at \in {"initial", "latest"} /\ SendLatest(c, y, at) =>
              \E a \in SessionAt \ {"none"} : \E z, n : At(c, a, z, n)
  <1>1. "receiving" \in SessionAt \ {"none"} /\ {"initial", "latest"} \subseteq SessionAt \ {"none"}
    BY DEF SessionAt
  <1>2. Receiving(c) => \E at \in SessionAt \ {"none"} : \E y, n : At(c, at, y, n)
    BY <1>1 DEF Receiving
  <1>3. QED
    BY <1>1, <1>2 DEF SendLatest

LEMMA SessionKeeps ==
  ASSUME HubInv, NEW c \in Client, SessionGoesOn(c) \/ PeerLost(c)
  PROVE  Kept
  <1> USE DEF HubInv
  <1>0. {"broadcasting", "ended"} \subseteq SessionAt \ {"none"}
    BY DEF SessionAt
  <1>1. CASE Welcomed(c)
    BY <1>1, PersonalKeeps, MovesOn, FreshKept DEF Welcomed, Kept
  <1>2. CASE SubscribedSent(c)
    BY <1>2, PersonalKeeps, MovesOn, FreshKept DEF SubscribedSent, Kept
  <1>3. CASE StateSent(c)
    BY <1>3, PersonalKeeps, MovesOn, FreshKept DEF StateSent, Kept
  <1>4. CASE AckSent(c)
    <2>1. PersonalSent(c) /\ (Receiving(c) \/ At(c, "broadcasting", NoTwin, 0))
      BY <1>4 DEF AckSent
    <2>2. QED
      BY <1>0, <2>1, PersonalKeeps, MovesOn, FreshKept DEF Kept
  <1>5. CASE SessionSends(c)
    <2>1. /\ \E b : Proceed(c, b)
          /\ Receiving(c) \/ UNCHANGED session
      BY <1>5 DEF SessionSends, Sent
    <2>2. QED
      BY <2>1, ProceedKeeps, MovesOn, FreshKept DEF Kept
  <1>6. CASE SessionEnds(c)
    <2>1. Unregister({c}) /\ At(c, "ended", NoTwin, 0)
      BY <1>6 DEF SessionEnds
    <2>2. QED
      BY <1>0, <2>1, UnregisterKeeps, FreshKept DEF Kept
  <1>7. CASE PeerLost(c)
    BY <1>7, UntouchedKeeps, FreshKept DEF PeerLost, Kept
  <1>8. QED
    BY <1>1, <1>2, <1>3, <1>4, <1>5, <1>6, <1>7 DEF SessionGoesOn

LEMMA RequestKeeps ==
  ASSUME HubInv, NEW c \in Client, NEW y \in Twin,
         SubscribeReceived(c, y) \/ UnsubscribeReceived(c, y) \/ IngestReceived(c, y)
  PROVE  Kept
  <1> USE DEF HubInv
  <1>0. {"subscribed", "ack"} \subseteq SessionAt \ {"none"}
    BY DEF SessionAt
  <1>1. CASE SubscribeReceived(c, y)
    <2>1. CASE Subscribe(c, y) /\ At(c, "subscribed", y, 0) /\ UNCHANGED connections
      BY <1>0, <2>1, SubscribeKeeps, FreshKept DEF Kept
    <2>2. CASE PersonalSent(c) /\ UNCHANGED session
      BY <2>2, PersonalKeeps, FreshKept DEF Kept
    <2>3. QED
      BY <1>1, <2>1, <2>2 DEF SubscribeReceived
  <1>2. CASE UnsubscribeReceived(c, y)
    <2>1. CASE Unsubscribe(c, y) /\ UNCHANGED <<connections, session>>
      BY <2>1, UnsubscribeKeeps, FreshKept DEF Kept
    <2>2. CASE Unregister({c}) /\ UNCHANGED session
      BY <2>2, UnregisterKeeps, FreshKept DEF Kept
    <2>3. QED
      BY <1>2, <2>1, <2>2 DEF UnsubscribeReceived
  <1>3. CASE IngestReceived(c, y)
    <2>1. CASE At(c, "ack", y, steps') /\ UNCHANGED hubVars
      BY <1>0, <2>1, UntouchedKeeps, FreshKept DEF Kept
    <2>2. CASE PersonalSent(c) /\ UNCHANGED session
      BY <2>2, PersonalKeeps, FreshKept DEF Kept
    <2>3. QED
      BY <1>3, <2>1, <2>2 DEF IngestReceived
  <1>4. QED
    BY <1>1, <1>2, <1>3

LEMMA NextKeeps == HubInv /\ [StreamNext]_streamVars => Kept
  <1> SUFFICES ASSUME HubInv, [StreamNext]_streamVars PROVE Kept
    OBVIOUS
  <1>1. ASSUME NEW c \in Client, NEW y \in Twin \union {NoTwin}, Accept(c, y)
        PROVE  Kept
    <2>1. /\ HubTypeOK' /\ IndexesAgree' /\ [Hub!HubNext]_<<connections, Follows>>
          /\ connections' = connections \union {c}
      BY <1>1, AcceptKeeps
    <2>2. session' = [session EXCEPT ![c] = [at |-> "welcome", twin |-> y, step |-> 0]]
      BY <1>1 DEF Accept, At
    <2>3. FreshClients'
      BY <2>1, <2>2 DEF FreshClients, HubInv
    <2>4. QED
      BY <2>1, <2>3 DEF Kept
  <1>2. ASSUME NEW k \in Bridged, BroadcastStarts(k) \/ BridgeSends(k)
        PROVE  Kept
    <2>1. /\ \E b : Proceed(k, b)
          /\ UNCHANGED session
      BY <1>2 DEF BroadcastStarts, BridgeSends, Sent
    <2>2. QED
      BY <2>1, ProceedKeeps, FreshKept DEF Kept, HubInv
  <1>3. ASSUME NEW y \in Twin, RestStep(y) \/ DeleteTwin(y)
        PROVE  Kept
    <2>1. UNCHANGED <<hubVars, session>>
      BY <1>3 DEF RestStep, DeleteTwin
    <2>2. QED
      BY <2>1, UntouchedKeeps, FreshKept DEF Kept, HubInv
  <1>4. CASE UNCHANGED streamVars
    BY <1>4, UntouchedKeeps, FreshKept DEF streamVars, Kept, HubInv
  <1>5. QED
    BY <1>1, <1>2, <1>3, <1>4, SessionKeeps, RequestKeeps DEF StreamNext

LEMMA InitKeeps == StreamInit => HubInv /\ Hub!HubInit
  BY DEF StreamInit, HubInv, HubTypeOK, IndexesAgree, FreshClients, Hub!HubInit

-----------------------------------------------------------------------------
\* The two subscription indexes of the manager agree and name registered
\* clients only: IndexesAgree is an invariant.
THEOREM IndexesConsistent == StreamSpec => []IndexesAgree
  <1>1. HubInv /\ [StreamNext]_streamVars => HubInv'
    BY NextKeeps DEF Kept, HubInv
  <1>2. HubInv => IndexesAgree
    BY DEF HubInv
  <1>3. QED
    BY InitKeeps, <1>1, <1>2, PTL DEF StreamSpec

\* The manager implements the abstract hub: registering, following and
\* forgetting act on one relation, whatever broadcasts clean up meanwhile.
THEOREM HubImplemented == StreamSpec => ImplementsHub
  <1>1. HubInv /\ [StreamNext]_streamVars => HubInv'
    BY NextKeeps DEF Kept, HubInv
  <1>2. HubInv /\ [StreamNext]_streamVars => [Hub!HubNext]_(Hub!hubVars)
    BY NextKeeps DEF Kept, Follows, Hub!hubVars
  <1>3. QED
    BY InitKeeps, <1>1, <1>2, PTL DEF StreamSpec, ImplementsHub, Hub!HubSpec
===============================================================================
