---------------------------- MODULE GatewayDaemon ----------------------------
(***************************************************************************)
(* The edge telemetry gateway: GatewayDaemonManager and the sources it     *)
(* owns (TCP, UDP, serial, CAN).  One listener task per source reads       *)
(* frames and puts them on a bounded queue under an overflow policy;       *)
(* worker tasks take them off and step the twins.                          *)
(*                                                                         *)
(* Everything runs on one asyncio event loop, so an action is the code     *)
(* between two suspension points.  A listener's control state names the    *)
(* await it is suspended in; a worker only ever suspends in queue.get(),   *)
(* because ingest_raw is synchronous.                                      *)
(***************************************************************************)
EXTENDS Integers, Sequences, FiniteSets

CONSTANTS
  Source,         \* the sources the host program may register
  AutoReconnect,  \* those configured with auto_reconnect (never UDP)
  Raising,        \* those whose start() or read_frame() may raise: transports
                  \* the host supplies; the four built-in ones catch everything
  Worker,         \* the ingestion workers (worker_concurrency of them)
  MaxQueue,       \* GatewayConfig.max_queue_size
  MaxFrames,      \* bound: frames read, over all sources
  MaxStarts,      \* bound: successful calls of start()
  NoSource        \* "no source is being awaited"

ASSUME GatewayAssumption ==
  /\ IsFiniteSet(Source)
  /\ AutoReconnect \subseteq Source
  /\ Raising \subseteq Source
  /\ NoSource \notin Source
  /\ MaxQueue \in Nat \ {0}
  /\ MaxFrames \in Nat
  /\ MaxStarts \in Nat

Policy == {"DROP_OLDEST", "DROP_NEWEST", "BLOCK"}

SourceState ==
  {"INITIALIZING", "CONNECTED", "DISCONNECTED", "RECONNECTING", "ERROR", "STOPPED"}

\* none: no task.  created: scheduled, not run yet.  reading: in the
\* transport's read.  reconnecting: in _reconnect's sleep or connect.
\* idle: in sleep(0.01) after a None.  putting: in queue.put on a full queue.
\* erring: in sleep(0.5) after an exception.
ListenerState ==
  {"none", "created", "reading", "reconnecting", "idle", "putting", "erring"}

\* idle: no call in progress.  starting: start() awaits a source.  joining,
\* closing, cancelling: stop() awaits the listeners, the sources, the workers.
Phase == {"idle", "starting", "joining", "closing", "cancelling"}

Frame == [src: Source, seq: Nat]

VARIABLES
  policy,      \* config.overflow_policy, fixed at construction
  registered,  \* _sources
  running,     \* _running
  phase, todo, awaited,   \* the start()/stop() call in progress
  srcState,    \* source._state
  listener,    \* control state of the listener task of each source
  prevState,   \* the listener's local prev_state
  announced,   \* the last link event the source's current listener published
  seq,         \* source._seq
  queue,       \* _queue
  workers,     \* the live worker tasks
  enqueued, dropped, processed,   \* _total_frames_*
  errors,      \* ingest_error events published
  received,    \* history: frames the listeners have read
  lost,        \* history: frames dropped by cancelling a blocked put
  dispatched,  \* history: the last sequence number dispatched, per source
  starts       \* bound: calls of start() so far

callVars == <<running, phase, todo, awaited, starts>>
listenerVars == <<srcState, listener, prevState, announced>>
counterVars == <<received, enqueued, dropped, lost>>
workVars == <<processed, errors, dispatched>>
vars == <<policy, registered, callVars, listenerVars, seq, queue, workers,
          counterVars, workVars>>

TypeOK ==
  /\ policy \in Policy
  /\ registered \in SUBSET Source
  /\ running \in BOOLEAN
  /\ phase \in Phase
  /\ todo \in SUBSET Source
  /\ awaited \in Source \union {NoSource}
  /\ srcState \in [Source -> SourceState]
  /\ listener \in [Source -> ListenerState]
  /\ prevState \in [Source -> SourceState]
  /\ announced \in [Source -> {"none", "connected", "disconnected"}]
  /\ seq \in [Source -> Nat]
  /\ queue \in Seq(Frame) /\ Len(queue) <= MaxQueue
  /\ workers \in SUBSET Worker
  /\ received \in Nat
  /\ enqueued \in Nat
  /\ dropped \in Nat
  /\ processed \in Nat
  /\ errors \in Nat
  /\ lost \in Nat
  /\ dispatched \in [Source -> Nat]
  /\ starts \in Nat

Init ==
  /\ policy \in Policy
  /\ registered \in SUBSET Source
  /\ running = FALSE
  /\ phase = "idle"
  /\ todo = {}
  /\ awaited = NoSource
  /\ srcState = [s \in Source |-> "INITIALIZING"]
  /\ listener = [s \in Source |-> "none"]
  /\ prevState = [s \in Source |-> "INITIALIZING"]
  /\ announced = [s \in Source |-> "none"]
  /\ seq = [s \in Source |-> 0]
  /\ queue = <<>>
  /\ workers = {}
  /\ received = 0
  /\ enqueued = 0
  /\ dropped = 0
  /\ processed = 0
  /\ errors = 0
  /\ lost = 0
  /\ dispatched = [s \in Source |-> 0]
  /\ starts = 0

-----------------------------------------------------------------------------
(* The registry.  The host registers and unregisters between calls of      *)
(* start() and stop(): both iterate over the same dictionary.              *)

RegisterSource(s) ==
  /\ phase = "idle"
  /\ s \notin registered
  /\ registered' = registered \union {s}
  /\ UNCHANGED <<policy, callVars, listenerVars, seq, queue, workers,
                 counterVars, workVars>>

\* Only the dictionary entry goes: a listener of s keeps running.
UnregisterSource(s) ==
  /\ phase = "idle"
  /\ s \in registered
  /\ registered' = registered \ {s}
  /\ UNCHANGED <<policy, callVars, listenerVars, seq, queue, workers,
                 counterVars, workVars>>

-----------------------------------------------------------------------------
(* start(): source by source, each followed by its listener task; the      *)
(* workers only once every source has been started.                        *)

\* start() goes on to source s, or, when rest is empty, creates the workers
\* and returns.
ContinueStart(states, rest) ==
  IF rest = {}
  THEN /\ phase' = "idle"
       /\ todo' = {}
       /\ awaited' = NoSource
       /\ workers' = Worker
       /\ srcState' = states
  ELSE \E s \in rest :
       /\ phase' = "starting"
       /\ todo' = rest \ {s}
       /\ awaited' = s
       /\ srcState' = [states EXCEPT ![s] = "INITIALIZING"]
       /\ UNCHANGED workers

\* Faulty variant: start() makes a new queue.
StartWithNewQueue ==
  /\ phase = "idle"
  /\ ~running
  /\ starts < MaxStarts
  /\ starts' = starts + 1
  /\ running' = TRUE
  /\ queue' = <<>>
  /\ ContinueStart(srcState, registered)
  /\ UNCHANGED <<policy, registered, listener, prevState, announced, seq,
                 counterVars, workVars>>

Start ==
  /\ phase = "idle"
  /\ ~running
  /\ starts < MaxStarts
  /\ starts' = starts + 1
  /\ running' = TRUE
  /\ ContinueStart(srcState, registered)
  /\ UNCHANGED <<policy, registered, listener, prevState, announced, seq, queue,
                 counterVars, workVars>>

\* source.start() returned: a failed connect is recorded, not raised.
SourceStarted(connected) ==
  /\ phase = "starting"
  /\ LET outcome == IF connected THEN "CONNECTED" ELSE "ERROR"
     IN ContinueStart([srcState EXCEPT ![awaited] = outcome], todo)
  /\ listener' = [listener EXCEPT ![awaited] = "created"]
  /\ UNCHANGED <<policy, registered, running, starts, prevState, announced, seq,
                 queue, counterVars, workVars>>

\* source.start() raised: the exception leaves start(), with _running set,
\* the later sources untouched and no worker created.
SourceStartRaises ==
  /\ phase = "starting"
  /\ awaited \in Raising
  /\ phase' = "idle"
  /\ todo' = {}
  /\ awaited' = NoSource
  /\ UNCHANGED <<policy, registered, running, starts, listenerVars, seq, queue,
                 workers, counterVars, workVars>>

-----------------------------------------------------------------------------
(* The listener task.                                                      *)

\* Where read_frame() leaves the source and suspends the listener, entered
\* with the source in state st.
AfterRead(s, st) ==
  IF st = "CONNECTED" THEN [state |-> st, at |-> "reading"]
  ELSE IF s \in AutoReconnect THEN [state |-> "RECONNECTING", at |-> "reconnecting"]
  ELSE [state |-> st, at |-> "idle"]

\* Faulty variant: only an ERROR is announced.
LinkEventErrorOnly(prev, st, last) ==
  IF st # prev /\ st = "CONNECTED" THEN "connected"
  ELSE IF st # prev /\ st = "ERROR" THEN "disconnected"
  ELSE last

\* The link event, if any, that a change from prev to st makes the listener
\* publish; last is the previous one.
LinkEvent(prev, st, last) ==
  IF st # prev /\ st = "CONNECTED" THEN "connected"
  ELSE IF st # prev /\ st \in {"DISCONNECTED", "ERROR"} THEN "disconnected"
  ELSE last

\* One turn of the loop from its top: compare states, then read_frame().
LoopTop(s, prev) ==
  LET next == AfterRead(s, srcState[s])
  IN /\ announced' = [announced EXCEPT
                        ![s] = LinkEvent(prev, srcState[s], announced[s])]
     /\ prevState' = [prevState EXCEPT ![s] = srcState[s]]
     /\ srcState' = [srcState EXCEPT ![s] = next.state]
     /\ listener' = [listener EXCEPT ![s] = next.at]

ListenerRuns(s) ==
  /\ running
  /\ \/ listener[s] = "created" /\ LoopTop(s, srcState[s])
     \/ listener[s] \in {"idle", "erring"} /\ LoopTop(s, prevState[s])
  /\ UNCHANGED <<policy, registered, callVars, seq, queue, workers,
                 counterVars, workVars>>

\* enqueue_frame(): the overflow policy, in one step with the read that
\* produced the frame unless the put has to wait.
Enqueue(s, f) ==
  IF Len(queue) < MaxQueue
  THEN /\ queue' = Append(queue, f)
       /\ enqueued' = enqueued + 1
       /\ UNCHANGED dropped
       /\ LoopTop(s, prevState[s])
  ELSE \/ /\ policy = "DROP_OLDEST"
          /\ queue' = Append(Tail(queue), f)
          /\ enqueued' = enqueued + 1
          /\ dropped' = dropped + 1
          /\ LoopTop(s, prevState[s])
       \/ /\ policy = "DROP_NEWEST"
          /\ dropped' = dropped + 1
          /\ UNCHANGED <<queue, enqueued>>
          /\ LoopTop(s, prevState[s])
       \/ /\ policy = "BLOCK"
          /\ listener' = [listener EXCEPT ![s] = "putting"]
          /\ UNCHANGED <<queue, enqueued, dropped, srcState, prevState, announced>>

FrameArrives(s) ==
  /\ running
  /\ listener[s] = "reading"
  /\ received < MaxFrames
  /\ seq' = [seq EXCEPT ![s] = @ + 1]
  /\ received' = received + 1
  /\ Enqueue(s, [src |-> s, seq |-> seq[s] + 1])
  /\ UNCHANGED <<policy, registered, callVars, workers, lost, workVars>>

\* The frame a listener blocked in put holds: the last one its source read.
Held(s) == [src |-> s, seq |-> seq[s]]

\* A blocked put finds room.  Which of several blocked listeners gets it is
\* left open: a listener woken too late goes to the back of the waiters.
PutResumes(s) ==
  /\ running
  /\ listener[s] = "putting"
  /\ Len(queue) < MaxQueue
  /\ queue' = Append(queue, Held(s))
  /\ enqueued' = enqueued + 1
  /\ LoopTop(s, prevState[s])
  /\ UNCHANGED <<policy, registered, callVars, seq, workers, received, dropped, lost,
                 workVars>>

\* The transport fails under a read.  read_frame() goes straight on: it
\* reconnects, or returns None.
LinkLost(s) ==
  /\ running
  /\ listener[s] = "reading"
  /\ LET next == AfterRead(s, "DISCONNECTED")
     IN /\ srcState' = [srcState EXCEPT ![s] = next.state]
        /\ listener' = [listener EXCEPT ![s] = next.at]
  /\ UNCHANGED <<policy, registered, callVars, prevState, announced, seq, queue,
                 workers, counterVars, workVars>>

\* _reconnect() is over, still inside read_frame(): a failure is retried
\* there, so the listener's loop sees neither the loss nor the retries.
Reconnected(s, connected) ==
  /\ running
  /\ listener[s] = "reconnecting"
  /\ LET next == AfterRead(s, IF connected THEN "CONNECTED" ELSE "ERROR")
     IN /\ srcState' = [srcState EXCEPT ![s] = next.state]
        /\ listener' = [listener EXCEPT ![s] = next.at]
  /\ UNCHANGED <<policy, registered, callVars, prevState, announced, seq, queue,
                 workers, counterVars, workVars>>

ReadRaises(s) ==
  /\ running
  /\ s \in Raising
  /\ listener[s] = "reading"
  /\ listener' = [listener EXCEPT ![s] = "erring"]
  /\ UNCHANGED <<policy, registered, callVars, srcState, prevState, announced, seq,
                 queue, workers, counterVars, workVars>>

-----------------------------------------------------------------------------
(* A worker takes one frame and hands it to ingest_raw, which succeeds or  *)
(* raises.  It tests _running only after that: a worker already woken when *)
(* stop() clears the flag still dispatches one frame, then returns.        *)

\* Faulty variant: failed frames are counted as processed too.
DispatchCountsAll(w, ok) ==
  /\ w \in workers
  /\ queue # <<>>
  /\ LET f == Head(queue)
     IN dispatched' = [dispatched EXCEPT ![f.src] = f.seq]
  /\ queue' = Tail(queue)
  /\ processed' = processed + 1
  /\ errors' = IF ok THEN errors ELSE errors + 1
  /\ workers' = IF running THEN workers ELSE workers \ {w}
  /\ UNCHANGED <<policy, registered, callVars, listenerVars, seq, counterVars>>

\* Faulty variant: the newest frame first.
DispatchNewest(w, ok) ==
  /\ w \in workers
  /\ queue # <<>>
  /\ LET f == queue[Len(queue)]
     IN dispatched' = [dispatched EXCEPT ![f.src] = f.seq]
  /\ queue' = SubSeq(queue, 1, Len(queue) - 1)
  /\ processed' = IF ok THEN processed + 1 ELSE processed
  /\ errors' = IF ok THEN errors ELSE errors + 1
  /\ workers' = IF running THEN workers ELSE workers \ {w}
  /\ UNCHANGED <<policy, registered, callVars, listenerVars, seq, counterVars>>

Dispatch(w, ok) ==
  /\ w \in workers
  /\ queue # <<>>
  /\ LET f == Head(queue)
     IN dispatched' = [dispatched EXCEPT ![f.src] = f.seq]
  /\ queue' = Tail(queue)
  /\ processed' = IF ok THEN processed + 1 ELSE processed
  /\ errors' = IF ok THEN errors ELSE errors + 1
  /\ workers' = IF running THEN workers ELSE workers \ {w}
  /\ UNCHANGED <<policy, registered, callVars, listenerVars, seq, counterVars>>

-----------------------------------------------------------------------------
(* stop(): cancel and join the listeners, stop the registered sources,     *)
(* cancel and join the workers.  The queue is not emptied.                 *)

Stop ==
  /\ phase = "idle"
  /\ running
  /\ running' = FALSE
  /\ phase' = "joining"
  /\ UNCHANGED <<policy, registered, todo, awaited, starts, listenerVars, seq, queue,
                 workers, counterVars, workVars>>

\* Faulty variant: a listener waiting in put swallows the cancellation.
CancelNotPutting(s) ==
  /\ phase = "joining"
  /\ listener[s] \notin {"none", "putting"}
  /\ UNCHANGED lost
  /\ listener' = [listener EXCEPT ![s] = "none"]
  /\ prevState' = [prevState EXCEPT ![s] = "INITIALIZING"]
  /\ announced' = [announced EXCEPT ![s] = "none"]
  /\ UNCHANGED <<policy, registered, callVars, srcState, seq, queue,
                 workers, received, enqueued, dropped, workVars>>

\* CancelledError reaches the listener wherever it waits; a frame it was
\* still putting is gone, and no counter records it.  The task ends, and its
\* locals with it.
ListenerCancelled(s) ==
  /\ phase = "joining"
  /\ listener[s] # "none"
  /\ lost' = IF listener[s] = "putting" THEN lost + 1 ELSE lost
  /\ listener' = [listener EXCEPT ![s] = "none"]
  /\ prevState' = [prevState EXCEPT ![s] = "INITIALIZING"]
  /\ announced' = [announced EXCEPT ![s] = "none"]
  /\ UNCHANGED <<policy, registered, callVars, srcState, seq, queue,
                 workers, received, enqueued, dropped, workVars>>

\* Faulty variant: the cancelled listeners are not awaited.
ListenersNotAwaited ==
  /\ phase = "joining"
  /\ phase' = "closing"
  /\ todo' = registered
  /\ UNCHANGED <<policy, registered, running, awaited, starts, listenerVars, seq,
                 queue, workers, counterVars, workVars>>

ListenersJoined ==
  /\ phase = "joining"
  /\ \A s \in Source : listener[s] = "none"
  /\ phase' = "closing"
  /\ todo' = registered
  /\ UNCHANGED <<policy, registered, running, awaited, starts, listenerVars, seq,
                 queue, workers, counterVars, workVars>>

SourceStopped(s) ==
  /\ phase = "closing"
  /\ s \in todo
  /\ todo' = todo \ {s}
  /\ srcState' = [srcState EXCEPT ![s] = "STOPPED"]
  /\ UNCHANGED <<policy, registered, running, phase, awaited, starts, listener,
                 prevState, announced, seq, queue, workers, counterVars, workVars>>

SourcesStopped ==
  /\ phase = "closing"
  /\ todo = {}
  /\ phase' = "cancelling"
  /\ UNCHANGED <<policy, registered, running, todo, awaited, starts, listenerVars, seq,
                 queue, workers, counterVars, workVars>>

\* Every worker is cancelled in the same step, so none of them takes another
\* frame: a cancelled get() leaves the frame on the queue.
WorkersCancelled ==
  /\ phase = "cancelling"
  /\ workers' = {}
  /\ phase' = "idle"
  /\ UNCHANGED <<policy, registered, running, todo, awaited, starts, listenerVars, seq,
                 queue, counterVars, workVars>>

-----------------------------------------------------------------------------
ListenerStep(s) ==
  \/ ListenerRuns(s)
  \/ FrameArrives(s)
  \/ PutResumes(s)
  \/ LinkLost(s)
  \/ \E connected \in BOOLEAN : Reconnected(s, connected)
  \/ ReadRaises(s)

StopStep ==
  \/ \E s \in Source : ListenerCancelled(s)
  \/ ListenersJoined
  \/ \E s \in Source : SourceStopped(s)
  \/ SourcesStopped
  \/ WorkersCancelled

Next ==
  \/ \E s \in Source : RegisterSource(s) \/ UnregisterSource(s)
  \/ Start
  \/ \E connected \in BOOLEAN : SourceStarted(connected)
  \/ SourceStartRaises
  \/ \E s \in Source : ListenerStep(s)
  \/ \E w \in Worker, ok \in BOOLEAN : Dispatch(w, ok)
  \/ Stop
  \/ StopStep

Spec == Init /\ [][Next]_vars

\* The event loop runs every ready task, and a call of start() or stop()
\* whose awaits return goes on.  Nothing obliges the host to start, stop or
\* register, a device to send a frame, a link to fail or to come back.
Fairness ==
  /\ WF_vars(StopStep)
  /\ WF_vars(\E connected \in BOOLEAN : SourceStarted(connected))
  /\ WF_vars(\E w \in Worker, ok \in BOOLEAN : Dispatch(w, ok))
  /\ \A s \in Source : WF_vars(ListenerRuns(s)) /\ WF_vars(PutResumes(s))

FairSpec == Spec /\ Fairness

-----------------------------------------------------------------------------
(* Properties.                                                             *)

\* Waiting in a blocked put, at most one frame per listener.
Blocked == {s \in Source : listener[s] = "putting"}

\* A frame read is enqueued, refused by DROP_NEWEST, blocked, or lost when
\* stop() cancelled its put.
ReadAccounting ==
  received = enqueued + Cardinality(Blocked) + lost
               + (IF policy = "DROP_NEWEST" THEN dropped ELSE 0)

\* A frame enqueued is processed, reported as an ingest error, dropped as the
\* oldest, or still queued.
QueueAccounting ==
  enqueued = processed + errors + Len(queue)
               + (IF policy = "DROP_OLDEST" THEN dropped ELSE 0)

PolicyKept ==
  /\ policy = "BLOCK" => dropped = 0
  /\ policy # "BLOCK" => Blocked = {} /\ lost = 0

\* The counters of get_status() agree with the queue whatever listeners,
\* workers and stop() do, across restarts too, and BLOCK drops nothing.
Accounting == ReadAccounting /\ QueueAccounting /\ PolicyKept

\* Once stop() has returned, no listener and no worker of that session lives.
Quiescent ==
  ~running /\ phase = "idle" => workers = {} /\ \A s \in Source : listener[s] = "none"

\* The oldest frame gives way only under DROP_OLDEST and only to a frame that
\* finds the queue full; every other frame stays until it is dispatched, even
\* over a stop and a restart.
OnlyEvictionLosesQueued ==
  [][\A i \in 1..Len(queue) :
       LET f == queue[i]
       IN \/ \E j \in 1..Len(queue') : queue'[j] = f
          \/ dispatched'[f.src] = f.seq /\ dispatched[f.src] < f.seq
          \/ policy = "DROP_OLDEST" /\ i = 1 /\ Len(queue) = MaxQueue]_vars

\* The daemon implements the lossy, ordered, at-most-once channel.
Transit ==
  {queue[i] : i \in 1..Len(queue)} \union {Held(s) : s \in {r \in Source : listener[r] = "putting"}}

Channel == INSTANCE FrameChannel WITH sent <- seq, transit <- Transit, got <- dispatched

ImplementsChannel == Channel!ChannelSpec

\* stop() returns, even when sources fail to start and queues are full.
StopReturns == ~running /\ phase # "idle" ~> phase = "idle"

\* The listener of a source without auto_reconnect announces that the link is
\* down, unless the gateway stops it first.
LossAnnounced ==
  \A s \in Source \ AutoReconnect :
    listener[s] # "none" /\ srcState[s] = "DISCONNECTED"
      ~> announced[s] = "disconnected" \/ listener[s] = "none"
=============================================================================
