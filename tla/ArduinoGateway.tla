---------------------------- MODULE ArduinoGateway ----------------------------
(***************************************************************************)
(* The Arduino connection: ArduinoConnectionManager, its listener task and *)
(* the ArduinoSerialTransport objects it opens.                            *)
(*                                                                         *)
(* connect() and disconnect() are called by HTTP requests that run on one  *)
(* event loop, so an action is the code between two awaits.  A transport   *)
(* does its blocking calls on a single worker thread: jobs[t] is that      *)
(* thread's queue, its head the call being executed.  A cancelled await    *)
(* takes a queued call back, but a call already executing goes on without  *)
(* anybody waiting for it.                                                 *)
(*                                                                         *)
(* The k-th connect() makes transport k and, if it succeeds, listener k.   *)
(***************************************************************************)
EXTENDS Integers, Sequences, FiniteSets, SequencesExt

CONSTANTS
  Caller,       \* the requests that may be in progress at once
  MaxConnects,  \* bound: calls of connect() that get as far as a transport
  System,       \* the twins a configuration may name
  Nobody        \* the waiter of a call whose await was cancelled

ASSUME ArduinoAssumption ==
  /\ MaxConnects \in Nat
  /\ Caller \intersect 0..MaxConnects = {}
  /\ Nobody \notin Caller \union 0..MaxConnects

Conn == 1..MaxConnects

HardwareConnectionState ==
  {"DISCONNECTED", "CONNECTING", "CONNECTED", "RECONNECTING", "ERROR"}

\* backoff: in sleep(reconnect_delay).  opening, reading, closing: awaiting
\* the thread.  idle: in sleep(0.01).  erring: in sleep(0.1).  cancelled: the
\* CancelledError is on its way; done: the task has ended.
ListenerState ==
  {"unborn", "created", "backoff", "opening", "reading", "closing", "idle",
   "erring", "cancelled", "done"}

Job == [kind: {"open", "read", "close"}, by: Caller \union Conn \union {Nobody}]

\* A request in progress, and none.
Call == [what: {"connect", "disconnect", "none"},
         at: {"idle", "joining", "closing", "opening"},
         on: 0..MaxConnects]

Idle == [what |-> "none", at |-> "idle", on |-> 0]

VARIABLES
  running, state, transport, listenTask,  \* _running, _state, _transport, _listen_task
  auto, system,  \* config.auto_reconnect, config.system_id
  isOpen,        \* transport._is_open
  port,          \* the serial port object of the transport is open
  jobs,          \* the calls of the transport's thread
  listener,      \* control state of the listener tasks
  call,          \* the request of each caller: what, suspended where, on which
                 \* task or transport
  made,          \* connects so far
  overlapped,    \* history: two requests have been in progress at once
  fed            \* history: source_mode of the record that last stepped a twin

managerVars == <<running, state, transport, listenTask, auto, system>>
deviceVars == <<isOpen, port, jobs>>
callVars == <<call, made, overlapped>>
arduinoVars == <<managerVars, deviceVars, listener, callVars, fed>>

TypeOK ==
  /\ running \in BOOLEAN
  /\ state \in HardwareConnectionState
  /\ transport \in 0..MaxConnects
  /\ listenTask \in 0..MaxConnects
  /\ auto \in BOOLEAN
  /\ system \in System
  /\ isOpen \in [Conn -> BOOLEAN]
  /\ port \in [Conn -> BOOLEAN]
  /\ jobs \in [Conn -> Seq(Job)]
  /\ listener \in [Conn -> ListenerState]
  /\ call \in [Caller -> Call]
  /\ made \in 0..MaxConnects
  /\ overlapped \in BOOLEAN
  /\ fed \in [System -> {"none", "LIVE_HARDWARE", "MOCK"}]

Init ==
  /\ running = FALSE
  /\ state = "DISCONNECTED"
  /\ transport = 0
  /\ listenTask = 0
  /\ auto \in BOOLEAN
  /\ system \in System
  /\ isOpen = [t \in Conn |-> FALSE]
  /\ port = [t \in Conn |-> FALSE]
  /\ jobs = [t \in Conn |-> <<>>]
  /\ listener = [l \in Conn |-> "unborn"]
  /\ call = [c \in Caller |-> Idle]
  /\ made = 0
  /\ overlapped = FALSE
  /\ fed = [y \in System |-> "none"]

Live(l) == l \in Conn /\ listener[l] \notin {"unborn", "done"}

\* run_in_executor on transport t, awaited by w.
Submit(queue, t, kind, w) == [queue EXCEPT ![t] = Append(@, [kind |-> kind, by |-> w])]

\* The call that w waits for, if it is still queued, is taken back.
TakeBack(q, w) ==
  LET queued == {i \in 2..Len(q) : q[i].by = w}
  IN IF queued = {} THEN q ELSE RemoveAt(q, CHOOSE i \in queued : TRUE)

\* Faulty variant: a call that executes still resumes w when it returns.
AbandonQueued(queue, w) == [t \in Conn |-> TakeBack(queue[t], w)]

\* The await of w is cancelled: a queued call goes, an executing one stays.
Abandon(queue, w) ==
  [t \in Conn |->
    IF queue[t] # <<>> /\ Head(queue[t]).by = w THEN [queue[t] EXCEPT ![1].by = Nobody]
    ELSE TakeBack(queue[t], w)]

-----------------------------------------------------------------------------
(* connect() and disconnect().  connect() calls disconnect() first when    *)
(* _running is set; what says which of the two the request asked for.      *)

\* The end of disconnect(); connect() goes on to the await of open().  run
\* is the value of _running.
Finish(c, what, run, queue) ==
  \/ /\ what = "disconnect"
     /\ running' = run
     /\ state' = "DISCONNECTED"
     /\ transport' = 0
     /\ jobs' = queue
     /\ call' = [call EXCEPT ![c] = Idle]
     /\ UNCHANGED <<auto, system, made>>
  \/ /\ what = "connect"
     /\ running' = TRUE
     /\ state' = "CONNECTING"
     /\ made' = made + 1
     /\ transport' = made'
     /\ jobs' = Submit(queue, made', "open", c)
     /\ auto' \in BOOLEAN
     /\ system' \in System
     /\ call' = [call EXCEPT ![c] = [what |-> what, at |-> "opening", on |-> made']]

\* Faulty variant: only a transport that says it is open is closed.
CloseIfOpen(c, what, run) ==
  IF transport = 0 \/ ~isOpen[transport] THEN Finish(c, what, run, jobs) /\ UNCHANGED isOpen
  ELSE /\ running' = run
       /\ isOpen' = [isOpen EXCEPT ![transport] = FALSE]
       /\ jobs' = Submit(jobs, transport, "close", c)
       /\ call' = [call EXCEPT ![c] = [what |-> what, at |-> "closing", on |-> transport]]
       /\ UNCHANGED <<state, transport, auto, system, made>>

\* disconnect() once no listener is left to wait for.
CloseTransport(c, what, run) ==
  IF transport = 0 THEN Finish(c, what, run, jobs) /\ UNCHANGED isOpen
  ELSE /\ running' = run
       /\ isOpen' = [isOpen EXCEPT ![transport] = FALSE]
       /\ jobs' = Submit(jobs, transport, "close", c)
       /\ call' = [call EXCEPT ![c] = [what |-> what, at |-> "closing", on |-> transport]]
       /\ UNCHANGED <<state, transport, auto, system, made>>

\* disconnect() from its start.
Halt(c, what) ==
  IF Live(listenTask)
  THEN /\ running' = FALSE
       /\ listener' = [listener EXCEPT ![listenTask] = "cancelled"]
       /\ jobs' = Abandon(jobs, listenTask)
       /\ call' = [call EXCEPT ![c] = [what |-> what, at |-> "joining", on |-> listenTask]]
       /\ UNCHANGED <<state, transport, auto, system, isOpen, made>>
  ELSE CloseTransport(c, what, FALSE) /\ UNCHANGED listener

Begins(c) ==
  /\ call[c] = Idle
  /\ overlapped' = (overlapped \/ \E d \in Caller : call[d] # Idle)

\* Faulty variant: connect() does not disconnect first.
ConnectAnyway(c) ==
  /\ Begins(c)
  /\ made < MaxConnects
  /\ Finish(c, "connect", FALSE, jobs)
  /\ UNCHANGED <<isOpen, listener, listenTask, port, fed>>

Connect(c) ==
  /\ Begins(c)
  /\ made + Cardinality({d \in Caller : call[d].what = "connect" /\ call[d].at # "opening"})
       < MaxConnects
  /\ IF running THEN Halt(c, "connect")
     ELSE Finish(c, "connect", FALSE, jobs) /\ UNCHANGED <<isOpen, listener>>
  /\ UNCHANGED <<listenTask, port, fed>>

Disconnect(c) ==
  /\ Begins(c)
  /\ Halt(c, "disconnect")
  /\ UNCHANGED <<listenTask, port, fed>>

\* The cancelled listener has ended: disconnect() forgets it, and whatever
\* task took its place meanwhile.
ListenerJoined(c) ==
  /\ call[c].at = "joining"
  /\ listener[call[c].on] = "done"
  /\ listenTask' = 0
  /\ CloseTransport(c, call[c].what, running)
  /\ UNCHANGED <<listener, port, overlapped, fed>>

-----------------------------------------------------------------------------
(* The listener task.                                                      *)

Usable(flags) == transport # 0 /\ flags[transport]

\* Faulty variant: a closed transport ends the loop, auto_reconnect or not.
LoopTopNoRetry(l, queue, flags) ==
  IF running /\ Usable(flags)
  THEN /\ listener' = [listener EXCEPT ![l] = "reading"]
       /\ jobs' = Submit(queue, transport, "read", l)
       /\ UNCHANGED state
  ELSE /\ listener' = [listener EXCEPT ![l] = "done"]
       /\ jobs' = queue
       /\ UNCHANGED state

\* Faulty variant: the loop does not look at _running.
LoopTopForever(l, queue, flags) ==
  IF Usable(flags)
  THEN /\ listener' = [listener EXCEPT ![l] = "reading"]
       /\ jobs' = Submit(queue, transport, "read", l)
       /\ UNCHANGED state
  ELSE /\ listener' = [listener EXCEPT ![l] = IF auto THEN "backoff" ELSE "done"]
       /\ state' = IF auto THEN "RECONNECTING" ELSE state
       /\ jobs' = queue

\* The top of the loop, with the thread queues and flags as given.
LoopTop(l, queue, flags) ==
  \/ /\ ~running
     /\ listener' = [listener EXCEPT ![l] = "done"]
     /\ jobs' = queue
     /\ UNCHANGED state
  \/ /\ running
     /\ Usable(flags)
     /\ listener' = [listener EXCEPT ![l] = "reading"]
     /\ jobs' = Submit(queue, transport, "read", l)
     /\ UNCHANGED state
  \/ /\ running
     /\ ~Usable(flags)
     /\ jobs' = queue
     /\ IF auto
        THEN /\ listener' = [listener EXCEPT ![l] = "backoff"]
             /\ state' = "RECONNECTING"
        ELSE /\ listener' = [listener EXCEPT ![l] = "done"]
             /\ UNCHANGED state

\* The first run of the task, or the end of a sleep.
ListenerWakes(l) ==
  /\ listener[l] \in {"created", "idle", "erring"}
  /\ LoopTop(l, jobs, isOpen)
  /\ UNCHANGED <<running, transport, listenTask, auto, system, isOpen, port, callVars, fed>>

\* Faulty variant: only a transport that says it is open is reopened.
ReopenIfOpen(l) ==
  /\ listener[l] = "backoff"
  /\ IF transport # 0 /\ isOpen[transport]
     THEN /\ listener' = [listener EXCEPT ![l] = "opening"]
          /\ jobs' = Submit(jobs, transport, "open", l)
          /\ UNCHANGED state
     ELSE /\ listener' = [listener EXCEPT ![l] = "idle"]
          /\ state' = "CONNECTED"
          /\ UNCHANGED jobs
  /\ UNCHANGED <<running, transport, listenTask, auto, system, isOpen, port, callVars, fed>>

\* The reconnect delay is over.  With no transport the attempt "succeeds" and
\* the read that follows raises.
TryReopen(l) ==
  /\ listener[l] = "backoff"
  /\ IF transport # 0
     THEN /\ listener' = [listener EXCEPT ![l] = "opening"]
          /\ jobs' = Submit(jobs, transport, "open", l)
          /\ UNCHANGED state
     ELSE /\ listener' = [listener EXCEPT ![l] = "erring"]
          /\ state' = "CONNECTED"
          /\ UNCHANGED jobs
  /\ UNCHANGED <<running, transport, listenTask, auto, system, isOpen, port, callVars, fed>>

\* Faulty variant: the loop goes on after a CancelledError.
ListenerGoesOn(l) ==
  /\ listener[l] = "cancelled"
  /\ listener' = [listener EXCEPT ![l] = "idle"]
  /\ UNCHANGED <<managerVars, deviceVars, callVars, fed>>

\* CancelledError leaves the loop wherever it waits.
ListenerEnds(l) ==
  /\ listener[l] = "cancelled"
  /\ listener' = [listener EXCEPT ![l] = "done"]
  /\ UNCHANGED <<managerVars, deviceVars, callVars, fed>>

-----------------------------------------------------------------------------
(* The thread of transport t finishes the call at the head of its queue,   *)
(* and whoever waits for it goes on.                                       *)

Executing(t, kind) == jobs[t] # <<>> /\ Head(jobs[t]).kind = kind

Waiter(t) == Head(jobs[t]).by

Popped(t) == [jobs EXCEPT ![t] = Tail(@)]

\* _sync_open: "half" when the port opened but flushing its input failed.
OpenReturns(t, result) ==
  /\ Executing(t, "open")
  /\ port' = [port EXCEPT ![t] = result # "failed"]
  /\ LET w == Waiter(t)
         flags == [isOpen EXCEPT ![t] = result = "open"]
     IN \/ /\ w = Nobody
           /\ jobs' = Popped(t)
           /\ UNCHANGED <<isOpen, running, state, listenTask, listener, call>>
        \/ /\ w \in Caller
           /\ isOpen' = flags
           /\ jobs' = Popped(t)
           /\ call' = [call EXCEPT ![w] = Idle]
           /\ IF result = "open"
              THEN /\ state' = "CONNECTED"
                   /\ listenTask' = t
                   /\ listener' = [listener EXCEPT ![t] = "created"]
                   /\ UNCHANGED running
              ELSE /\ state' = "ERROR"
                   /\ running' = FALSE
                   /\ UNCHANGED <<listenTask, listener>>
        \/ /\ w \in Conn
           /\ isOpen' = flags
           /\ \/ /\ result # "open"
                 /\ LoopTop(w, Popped(t), flags)
              \/ /\ result = "open"
                 /\ state' = "CONNECTED"
                 /\ \/ /\ Usable(flags)
                       /\ listener' = [listener EXCEPT ![w] = "reading"]
                       /\ jobs' = Submit(Popped(t), transport, "read", w)
                    \/ /\ transport # 0 /\ ~Usable(flags)
                       /\ listener' = [listener EXCEPT ![w] = "idle"]
                       /\ jobs' = Popped(t)
                    \/ /\ transport = 0
                       /\ listener' = [listener EXCEPT ![w] = "erring"]
                       /\ jobs' = Popped(t)
           /\ UNCHANGED <<running, listenTask, call>>
  /\ UNCHANGED <<transport, auto, system, made, overlapped, fed>>

\* _sync_readline: a line, which is parsed and stepped into the twin in the
\* same step; nothing before the timeout; or the port is gone, and the
\* listener closes the manager's current transport.
ReadReturns(t, result) ==
  /\ Executing(t, "read")
  /\ port[t] \/ result = "lost"
  /\ LET w == Waiter(t)
         flags == [isOpen EXCEPT ![t] = FALSE]
         down == IF transport = 0 THEN flags ELSE [flags EXCEPT ![transport] = FALSE]
     IN \/ /\ w = Nobody
           /\ jobs' = Popped(t)
           /\ UNCHANGED <<state, isOpen, listener, fed>>
        \/ /\ w \in Conn /\ result = "line"
           /\ \/ fed' = [fed EXCEPT ![system] = "LIVE_HARDWARE"]
              \/ UNCHANGED fed  \* an invalid record, or the twin refuses it
           /\ LoopTop(w, Popped(t), isOpen)
           /\ UNCHANGED isOpen
        \/ /\ w \in Conn /\ result = "timeout"
           /\ listener' = [listener EXCEPT ![w] = "idle"]
           /\ jobs' = Popped(t)
           /\ UNCHANGED <<state, isOpen, fed>>
        \/ /\ w \in Conn /\ result = "lost"
           /\ isOpen' = down
           /\ IF transport = 0 THEN LoopTop(w, Popped(t), down)
              ELSE /\ listener' = [listener EXCEPT ![w] = "closing"]
                   /\ jobs' = Submit(Popped(t), transport, "close", w)
                   /\ UNCHANGED state
           /\ UNCHANGED fed
  /\ UNCHANGED <<running, transport, listenTask, auto, system, port, callVars>>

\* _sync_close.
CloseReturns(t) ==
  /\ Executing(t, "close")
  /\ port' = [port EXCEPT ![t] = FALSE]
  /\ LET w == Waiter(t)
     IN \/ /\ w = Nobody
           /\ jobs' = Popped(t)
           /\ UNCHANGED <<running, state, transport, auto, system, listener, call, made>>
        \/ /\ w \in Caller
           /\ Finish(w, call[w].what, running, Popped(t))
           /\ UNCHANGED listener
        \/ /\ w \in Conn
           /\ LoopTop(w, Popped(t), isOpen)
           /\ UNCHANGED <<running, transport, auto, system, call, made>>
  /\ UNCHANGED <<listenTask, isOpen, overlapped, fed>>

-----------------------------------------------------------------------------
CallerStep(c) == Connect(c) \/ Disconnect(c) \/ ListenerJoined(c)

ListenerStep(l) == ListenerWakes(l) \/ TryReopen(l) \/ ListenerEnds(l)

ThreadStep(t) ==
  \/ \E result \in {"open", "half", "failed"} : OpenReturns(t, result)
  \/ \E result \in {"line", "timeout", "lost"} : ReadReturns(t, result)
  \/ CloseReturns(t)

Next ==
  \/ \E c \in Caller : CallerStep(c)
  \/ \E k \in Conn : ListenerStep(k) \/ ThreadStep(k)

Spec == Init /\ [][Next]_arduinoVars

\* The loop runs ready tasks and timers; every blocking serial call returns,
\* reads by their timeout.
Fairness ==
  /\ \A c \in Caller : WF_arduinoVars(ListenerJoined(c))
  /\ \A k \in Conn : WF_arduinoVars(ListenerStep(k)) /\ WF_arduinoVars(ThreadStep(k))

FairSpec == Spec /\ Fairness

-----------------------------------------------------------------------------
(* Properties.                                                             *)

NoCall == \A c \in Caller : call[c] = Idle

Quiet == ~running /\ transport = 0 /\ \A l \in Conn : ~Live(l)

\* Requests that never overlap ...

\* ... leave the connection quiet when they report it DISCONNECTED, with no
\* port that was once connected still open: the close of disconnect() follows
\* an open() the cancelled listener abandoned.  (A port half opened by a
\* failed connect() goes with its transport object.)
NoPortLeaked ==
  ~overlapped /\ state = "DISCONNECTED" /\ NoCall =>
    Quiet /\ \A t \in Conn : jobs[t] = <<>> /\ (port[t] => listener[t] = "unborn")

\* ... never have two listeners read or reopen at once, and the one there is
\* uses the manager's transport, not one that a later connect() replaced.
OneReader ==
  ~overlapped =>
    /\ \A k, l \in Conn : Live(k) /\ Live(l) => k = l
    /\ \A t \in Conn : \A i \in 1..Len(jobs[t]) :
         jobs[t][i].by \in Conn => Live(jobs[t][i].by) /\ t = transport

\* ... and leave a link reported CONNECTED with the listener that will notice
\* its loss, unless a loss without auto_reconnect has ended it.
ConnectedIsServed ==
  ~overlapped /\ state = "CONNECTED" /\ NoCall =>
    transport # 0 /\ running /\ (auto => Live(listenTask))

\* A lost link is answered by a new attempt to open the port, unless a call
\* of connect() or disconnect() takes over or reconnecting is off.  (After
\* overlapping requests the listener may have no transport to open.)
LossAnswered ==
  \A l \in Conn :
    listener[l] = "closing" /\ auto ~>
      overlapped \/ listener[l] \in {"opening", "cancelled", "done"}

\* disconnect(), which waits for a listener and for a thread that may be
\* blocked in a read, returns, and so does connect().
CallsReturn == \A c \in Caller : call[c] # Idle ~> call[c] = Idle

\* Every listener, also one that overlapping requests left behind, ends once
\* _running is down for good.
ListenersEnd == \A l \in Conn : Live(l) /\ ~running ~> ~Live(l) \/ running
=============================================================================
