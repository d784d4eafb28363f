-------------------------- MODULE GatewayDaemonProof --------------------------
(***************************************************************************)
(* Theorems about GatewayDaemon, for any sources, workers and queue bound: *)
(* types and the queue bound, the accounting of frames, that nothing       *)
(* outlives stop(), the order of frames, and the channel it implements.    *)
(***************************************************************************)
EXTENDS GatewayDaemon, FiniteSetTheorems, TLAPS

\* What start() and stop() know of the tasks at each await.  start() only
\* awaits sources that have no listener yet; the flag is down throughout
\* stop(); the listeners are gone before the sources are closed.
Lifecycle ==
  /\ phase = "starting" =>
       /\ running
       /\ awaited \in Source \ todo
       /\ \A s \in todo \union {awaited} : listener[s] = "none"
  /\ phase \in {"joining", "closing", "cancelling"} => ~running
  /\ phase \in {"closing", "cancelling"} => \A s \in Source : listener[s] = "none"
  /\ Quiescent

\* The inductive invariant.
IInv == TypeOK /\ Accounting /\ Lifecycle

-----------------------------------------------------------------------------
(* Facts about the helpers.                                                *)

\* The listener only ever suspends in read_frame() after a turn of its loop,
\* and read_frame() leaves the source in a legal state.
LEMMA AfterReadType ==
  ASSUME NEW s \in Source, NEW st \in SourceState
  PROVE  /\ AfterRead(s, st).state \in SourceState
         /\ AfterRead(s, st).at \in {"reading", "reconnecting", "idle"}
  BY DEF AfterRead, SourceState

LEMMA LoopTopType ==
  ASSUME TypeOK, NEW s \in Source, NEW prev \in SourceState, LoopTop(s, prev)
  PROVE  /\ srcState' \in [Source -> SourceState]
         /\ prevState' \in [Source -> SourceState]
         /\ announced' \in [Source -> {"none", "connected", "disconnected"}]
         /\ \E at \in {"reading", "reconnecting", "idle"} :
              listener' = [listener EXCEPT ![s] = at]
  <1> DEFINE next == AfterRead(s, srcState[s])
  <1>1. srcState[s] \in SourceState
    BY DEF TypeOK
  <1>2. next.state \in SourceState /\ next.at \in {"reading", "reconnecting", "idle"}
    BY <1>1, AfterReadType
  <1>3. LinkEvent(prev, srcState[s], announced[s]) \in {"none", "connected", "disconnected"}
    BY DEF TypeOK, LinkEvent
  <1>4. /\ announced' = [announced EXCEPT ![s] = LinkEvent(prev, srcState[s], announced[s])]
        /\ prevState' = [prevState EXCEPT ![s] = srcState[s]]
        /\ srcState' = [srcState EXCEPT ![s] = next.state]
        /\ listener' = [listener EXCEPT ![s] = next.at]
    BY DEF LoopTop
  <1> HIDE DEF next
  <1>5. QED
    BY <1>1, <1>2, <1>3, <1>4 DEF TypeOK

\* Appending a frame lengthens the queue by one, dispatching shortens it.
LEMMA QueueOps ==
  ASSUME NEW q \in Seq(Frame), NEW f \in Frame
  PROVE  /\ Append(q, f) \in Seq(Frame) /\ Len(Append(q, f)) = Len(q) + 1
         /\ q # <<>> => /\ Head(q) \in Frame
                        /\ Tail(q) \in Seq(Frame)
                        /\ Len(Tail(q)) = Len(q) - 1
  OBVIOUS

\* When one listener changes state, the set of blocked ones changes by it alone.
LEMMA BlockedChange ==
  ASSUME TypeOK, NEW s \in Source, NEW at \in ListenerState,
         listener' = [listener EXCEPT ![s] = at]
  PROVE  /\ Cardinality(Blocked) \in Nat
         /\ Blocked' = IF at = "putting" THEN Blocked \union {s} ELSE Blocked \ {s}
         /\ at # "putting" /\ listener[s] # "putting" =>
              Blocked' = Blocked /\ Cardinality(Blocked') = Cardinality(Blocked)
         /\ at # "putting" /\ listener[s] = "putting" =>
              Cardinality(Blocked') = Cardinality(Blocked) - 1
         /\ at = "putting" /\ listener[s] # "putting" =>
              Cardinality(Blocked') = Cardinality(Blocked) + 1
  <1>1. IsFiniteSet(Blocked)
    <2>1. Blocked \subseteq Source
      BY DEF Blocked
    <2>2. QED
      BY <2>1, FS_Subset, GatewayAssumption
  <1>2. Cardinality(Blocked) \in Nat
    BY <1>1, FS_CardinalityType
  <1>3. Blocked' = IF at = "putting" THEN Blocked \union {s} ELSE Blocked \ {s}
    BY DEF Blocked, TypeOK
  <1>4. s \in Blocked <=> listener[s] = "putting"
    BY DEF Blocked
  <1>5. ASSUME at # "putting", listener[s] # "putting"
        PROVE  Blocked' = Blocked
    BY <1>3, <1>4, <1>5
  <1>6. ASSUME at # "putting", listener[s] = "putting"
        PROVE  Cardinality(Blocked') = Cardinality(Blocked) - 1
    <2>1. Cardinality(Blocked \ {s}) = Cardinality(Blocked) - 1
      BY <1>1, <1>4, <1>6, FS_RemoveElement
    <2>2. QED
      BY <2>1, <1>3, <1>6
  <1>7. ASSUME at = "putting", listener[s] # "putting"
        PROVE  Cardinality(Blocked') = Cardinality(Blocked) + 1
    <2>1. Cardinality(Blocked \union {s}) = Cardinality(Blocked) + 1
      BY <1>1, <1>4, <1>7, FS_AddElement
    <2>2. QED
      BY <2>1, <1>3, <1>7
  <1>8. QED
    BY <1>2, <1>3, <1>5, <1>6, <1>7

\* The listener's control state after a turn of its loop.
LEMMA LoopTopListener ==
  ASSUME TypeOK, NEW s \in Source, NEW prev \in SourceState, LoopTop(s, prev)
  PROVE  \E at \in ListenerState \ {"none", "created", "putting"} :
           listener' = [listener EXCEPT ![s] = at]
  BY LoopTopType DEF ListenerState

\* What continuing start() does to the call's variables and the source states.
LEMMA ContinueStartType ==
  ASSUME TypeOK, NEW states \in [Source -> SourceState], NEW rest \in SUBSET Source,
         ContinueStart(states, rest)
  PROVE  /\ phase' \in Phase
         /\ todo' \in SUBSET Source
         /\ awaited' \in Source \union {NoSource}
         /\ srcState' \in [Source -> SourceState]
         /\ workers' \in SUBSET Worker
         /\ phase' = "idle" \/ phase' = "starting"
         /\ phase' = "starting" => awaited' \in rest \ todo' /\ todo' \subseteq rest
  <1>1. CASE rest = {}
    BY <1>1 DEF ContinueStart, Phase, TypeOK
  <1>2. CASE rest # {}
    BY <1>2 DEF ContinueStart, Phase, TypeOK, SourceState
  <1>3. QED
    BY <1>1, <1>2

-----------------------------------------------------------------------------
(* Types and the bound on the queue.                                       *)

\* enqueue_frame() keeps the queue within its bound under each policy.
LEMMA EnqueueType ==
  ASSUME TypeOK, NEW s \in Source, NEW f \in Frame, Enqueue(s, f)
  PROVE  /\ queue' \in Seq(Frame) /\ Len(queue') <= MaxQueue
         /\ enqueued' \in Nat /\ dropped' \in Nat
         /\ srcState' \in [Source -> SourceState]
         /\ prevState' \in [Source -> SourceState]
         /\ announced' \in [Source -> {"none", "connected", "disconnected"}]
         /\ listener' \in [Source -> ListenerState]
  <1> USE GatewayAssumption
  <1>1. prevState[s] \in SourceState
    BY DEF TypeOK
  <1>2. LoopTop(s, prevState[s]) =>
          /\ srcState' \in [Source -> SourceState]
          /\ prevState' \in [Source -> SourceState]
          /\ announced' \in [Source -> {"none", "connected", "disconnected"}]
          /\ listener' \in [Source -> ListenerState]
    BY <1>1, LoopTopType DEF TypeOK, ListenerState
  <1>3. CASE Len(queue) < MaxQueue
    <2>1. /\ queue' = Append(queue, f) /\ enqueued' = enqueued + 1 /\ dropped' = dropped
          /\ LoopTop(s, prevState[s])
      BY <1>3 DEF Enqueue
    <2>2. queue' \in Seq(Frame) /\ Len(queue') = Len(queue) + 1
      BY <2>1, QueueOps DEF TypeOK
    <2>3. Len(queue') <= MaxQueue
      BY <1>3, <2>2 DEF TypeOK
    <2>4. QED
      BY <1>2, <2>1, <2>2, <2>3 DEF TypeOK
  <1>4. CASE ~(Len(queue) < MaxQueue) /\ policy = "DROP_OLDEST"
    <2>1. Len(queue) = MaxQueue /\ queue # <<>>
      BY <1>4 DEF TypeOK
    <2>2. /\ queue' = Append(Tail(queue), f)
          /\ enqueued' = enqueued + 1 /\ dropped' = dropped + 1
          /\ LoopTop(s, prevState[s])
      BY <1>4 DEF Enqueue, Policy
    <2>3. Tail(queue) \in Seq(Frame) /\ Len(Tail(queue)) = Len(queue) - 1
      BY <2>1, QueueOps DEF TypeOK
    <2>4. Append(Tail(queue), f) \in Seq(Frame) /\ Len(Append(Tail(queue), f)) = MaxQueue
      BY <2>1, <2>3, QueueOps
    <2>5. QED
      BY <1>2, <2>2, <2>4 DEF TypeOK
  <1>5. CASE ~(Len(queue) < MaxQueue) /\ policy = "DROP_NEWEST"
    BY <1>2, <1>5 DEF Enqueue, TypeOK
  <1>6. CASE ~(Len(queue) < MaxQueue) /\ policy = "BLOCK"
    BY <1>6 DEF Enqueue, TypeOK, ListenerState
  <1>7. QED
    BY <1>3, <1>4, <1>5, <1>6 DEF TypeOK, Policy

LEMMA TypeStep == TypeOK /\ [Next]_vars => TypeOK'
  <1> SUFFICES ASSUME TypeOK, [Next]_vars
               PROVE  TypeOK'
    OBVIOUS
  <1> USE GatewayAssumption
  <1>1. ASSUME NEW s \in Source, RegisterSource(s) \/ UnregisterSource(s)
        PROVE  TypeOK'
    BY <1>1 DEF TypeOK, RegisterSource, UnregisterSource, callVars, listenerVars,
                counterVars, workVars
  <1>2. CASE Start
    <2>1. ContinueStart(srcState, registered)
      BY <1>2 DEF Start
    <2>2. /\ phase' \in Phase /\ todo' \in SUBSET Source
          /\ awaited' \in Source \union {NoSource}
          /\ srcState' \in [Source -> SourceState] /\ workers' \in SUBSET Worker
      BY <2>1, ContinueStartType DEF TypeOK
    <2>3. QED
      BY <1>2, <2>2 DEF TypeOK, Start, counterVars, workVars
  <1>3. ASSUME NEW connected \in BOOLEAN, SourceStarted(connected)
        PROVE  TypeOK'
    <2> DEFINE outcome == IF connected THEN "CONNECTED" ELSE "ERROR"
               states == [srcState EXCEPT ![awaited] = outcome]
    <2>1. states \in [Source -> SourceState]
      BY DEF TypeOK, SourceState
    <2>2. ContinueStart(states, todo)
      BY <1>3 DEF SourceStarted
    <2> HIDE DEF states
    <2>3. /\ phase' \in Phase /\ todo' \in SUBSET Source
          /\ awaited' \in Source \union {NoSource}
          /\ srcState' \in [Source -> SourceState] /\ workers' \in SUBSET Worker
      BY <2>1, <2>2, ContinueStartType DEF TypeOK
    <2>4. listener' \in [Source -> ListenerState]
      BY <1>3 DEF TypeOK, SourceStarted, ListenerState
    <2>5. QED
      BY <1>3, <2>3, <2>4 DEF TypeOK, SourceStarted, counterVars, workVars
  <1>4. CASE SourceStartRaises
    BY <1>4 DEF TypeOK, SourceStartRaises, Phase, listenerVars, counterVars, workVars
  <1>5. ASSUME NEW s \in Source, ListenerRuns(s)
        PROVE  TypeOK'
    <2>1. PICK prev \in SourceState : LoopTop(s, prev)
      BY <1>5 DEF ListenerRuns, TypeOK
    <2>2. /\ srcState' \in [Source -> SourceState] /\ prevState' \in [Source -> SourceState]
          /\ announced' \in [Source -> {"none", "connected", "disconnected"}]
          /\ listener' \in [Source -> ListenerState]
      BY <2>1, LoopTopType DEF TypeOK, ListenerState
    <2>3. QED
      BY <1>5, <2>2 DEF TypeOK, ListenerRuns, callVars, counterVars, workVars
  <1>6. ASSUME NEW s \in Source, FrameArrives(s)
        PROVE  TypeOK'
    <2>1. [src |-> s, seq |-> seq[s] + 1] \in Frame
      BY DEF Frame, TypeOK
    <2>2. /\ queue' \in Seq(Frame) /\ Len(queue') <= MaxQueue
          /\ enqueued' \in Nat /\ dropped' \in Nat
          /\ srcState' \in [Source -> SourceState] /\ prevState' \in [Source -> SourceState]
          /\ announced' \in [Source -> {"none", "connected", "disconnected"}]
          /\ listener' \in [Source -> ListenerState]
      BY <1>6, <2>1, EnqueueType DEF FrameArrives
    <2>3. seq' \in [Source -> Nat] /\ received' \in Nat
      BY <1>6 DEF TypeOK, FrameArrives
    <2>4. UNCHANGED <<policy, registered, callVars, workers, lost, workVars>>
      BY <1>6 DEF FrameArrives
    <2>5. QED
      BY <2>2, <2>3, <2>4 DEF TypeOK, callVars, workVars
  <1>7. ASSUME NEW s \in Source, PutResumes(s)
        PROVE  TypeOK'
    <2>1. Held(s) \in Frame
      BY DEF Held, Frame, TypeOK
    <2>2. queue' \in Seq(Frame) /\ Len(queue') <= MaxQueue
      BY <1>7, <2>1, QueueOps DEF TypeOK, PutResumes
    <2>3. LoopTop(s, prevState[s]) /\ prevState[s] \in SourceState
      BY <1>7 DEF PutResumes, TypeOK
    <2>4. /\ srcState' \in [Source -> SourceState] /\ prevState' \in [Source -> SourceState]
          /\ announced' \in [Source -> {"none", "connected", "disconnected"}]
          /\ listener' \in [Source -> ListenerState]
      BY <2>3, LoopTopType DEF TypeOK, ListenerState
    <2>5. QED
      BY <1>7, <2>2, <2>4 DEF TypeOK, PutResumes, callVars, workVars
  <1>8. ASSUME NEW s \in Source, LinkLost(s) \/ \E connected \in BOOLEAN : Reconnected(s, connected)
        PROVE  TypeOK'
    <2>1. PICK st \in SourceState :
             /\ srcState' = [srcState EXCEPT ![s] = AfterRead(s, st).state]
             /\ listener' = [listener EXCEPT ![s] = AfterRead(s, st).at]
      BY <1>8 DEF LinkLost, Reconnected, SourceState
    <2>2. srcState' \in [Source -> SourceState] /\ listener' \in [Source -> ListenerState]
      BY <2>1, AfterReadType DEF TypeOK, ListenerState
    <2>3. QED
      BY <1>8, <2>2 DEF TypeOK, LinkLost, Reconnected, callVars, counterVars, workVars
  <1>9. ASSUME NEW s \in Source, ReadRaises(s)
        PROVE  TypeOK'
    BY <1>9 DEF TypeOK, ReadRaises, ListenerState, callVars, counterVars, workVars
  <1>10. ASSUME NEW w \in Worker, NEW ok \in BOOLEAN, Dispatch(w, ok)
         PROVE  TypeOK'
    <2>1. queue \in Seq(Frame) /\ queue # <<>>
      BY <1>10 DEF Dispatch, TypeOK
    <2>2. /\ Head(queue) \in Frame /\ Tail(queue) \in Seq(Frame)
          /\ Len(Tail(queue)) = Len(queue) - 1
      BY <2>1, QueueOps
    <2>3. dispatched' \in [Source -> Nat]
      BY <1>10, <2>2 DEF Dispatch, TypeOK, Frame
    <2>4. QED
      BY <1>10, <2>2, <2>3 DEF TypeOK, Dispatch, callVars, listenerVars, counterVars
  <1>11. CASE Stop
    BY <1>11 DEF TypeOK, Stop, Phase, listenerVars, counterVars, workVars
  <1>12. CASE StopStep
    <2>1. ASSUME NEW s \in Source, ListenerCancelled(s)
          PROVE  TypeOK'
      BY <2>1 DEF TypeOK, ListenerCancelled, ListenerState, SourceState, callVars, workVars
    <2>2. ASSUME NEW s \in Source, SourceStopped(s)
          PROVE  TypeOK'
      BY <2>2 DEF TypeOK, SourceStopped, SourceState, counterVars, workVars
    <2>3. CASE ListenersJoined \/ SourcesStopped \/ WorkersCancelled
      BY <2>3 DEF TypeOK, ListenersJoined, SourcesStopped, WorkersCancelled, Phase,
                  listenerVars, counterVars, workVars
    <2>4. QED
      BY <1>12, <2>1, <2>2, <2>3 DEF StopStep
  <1>13. CASE UNCHANGED vars
    BY <1>13 DEF TypeOK, vars, callVars, listenerVars, counterVars, workVars
  <1>14. ASSUME NEW s \in Source, ListenerStep(s)
         PROVE  TypeOK'
    BY <1>5, <1>6, <1>7, <1>8, <1>9, <1>14 DEF ListenerStep
  <1>15. QED
    BY <1>1, <1>2, <1>3, <1>4, <1>10, <1>11, <1>12, <1>13, <1>14 DEF Next

LEMMA InitType == Init => TypeOK
  <1> SUFFICES ASSUME Init
               PROVE  TypeOK
    OBVIOUS
  <1>1. queue \in Seq(Frame) /\ Len(queue) <= MaxQueue
    BY GatewayAssumption DEF Init
  <1>2. /\ srcState \in [Source -> SourceState] /\ prevState \in [Source -> SourceState]
        /\ announced \in [Source -> {"none", "connected", "disconnected"}]
        /\ listener \in [Source -> ListenerState]
        /\ seq \in [Source -> Nat] /\ dispatched \in [Source -> Nat]
    BY DEF Init, SourceState, ListenerState
  <1>3. QED
    BY <1>1, <1>2 DEF Init, TypeOK, Phase

\* The variables keep their types and the queue never exceeds max_queue_size.
THEOREM TypeCorrect == Spec => []TypeOK
  BY InitType, TypeStep, PTL DEF Spec

-----------------------------------------------------------------------------
(* Nothing of a session outlives stop().                                   *)

\* A step that moves one listener, while the gateway runs and no call changes
\* what it awaits, keeps the lifecycle.
LEMMA ListenerKeepsLifecycle ==
  ASSUME TypeOK, Lifecycle, running, NEW s \in Source, listener[s] # "none",
         NEW at \in ListenerState, listener' = [listener EXCEPT ![s] = at],
         UNCHANGED <<running, phase, todo, awaited, workers>>
  PROVE  Lifecycle'
  <1>1. phase \in {"idle", "starting"}
    BY DEF Lifecycle, TypeOK, Phase
  <1>2. phase = "starting" => s \notin todo \union {awaited}
    BY DEF Lifecycle
  <1>3. QED
    BY <1>1, <1>2 DEF Lifecycle, Quiescent, TypeOK

LEMMA LifecycleStep == TypeOK /\ Lifecycle /\ [Next]_vars => Lifecycle'
  <1> SUFFICES ASSUME TypeOK, Lifecycle, [Next]_vars
               PROVE  Lifecycle'
    OBVIOUS
  <1> USE GatewayAssumption
  <1>1. ASSUME NEW s \in Source, RegisterSource(s) \/ UnregisterSource(s)
        PROVE  Lifecycle'
    BY <1>1 DEF Lifecycle, Quiescent, RegisterSource, UnregisterSource, callVars, listenerVars
  <1>2. CASE Start
    <2>1. ContinueStart(srcState, registered)
      BY <1>2 DEF Start
    <2>2. /\ phase' = "idle" \/ phase' = "starting"
          /\ phase' = "starting" => awaited' \in registered \ todo' /\ todo' \subseteq registered
      BY <2>1, ContinueStartType DEF TypeOK
    <2>3. \A s \in Source : listener[s] = "none"
      BY <1>2 DEF Start, Lifecycle, Quiescent
    <2>4. running' /\ listener' = listener
      BY <1>2 DEF Start
    <2>5. QED
      BY <2>2, <2>3, <2>4 DEF Lifecycle, Quiescent, TypeOK
  <1>3. ASSUME NEW connected \in BOOLEAN, SourceStarted(connected)
        PROVE  Lifecycle'
    <2> DEFINE outcome == IF connected THEN "CONNECTED" ELSE "ERROR"
               states == [srcState EXCEPT ![awaited] = outcome]
    <2>1. states \in [Source -> SourceState]
      BY DEF TypeOK, SourceState
    <2>2. ContinueStart(states, todo)
      BY <1>3 DEF SourceStarted
    <2> HIDE DEF states
    <2>3. /\ phase' = "idle" \/ phase' = "starting"
          /\ phase' = "starting" => awaited' \in todo \ todo' /\ todo' \subseteq todo
      BY <2>1, <2>2, ContinueStartType DEF TypeOK
    <2>4. /\ running /\ awaited \in Source \ todo /\ todo \subseteq Source
          /\ \A s \in todo : listener[s] = "none"
      BY <1>3 DEF SourceStarted, Lifecycle, TypeOK
    <2>5. /\ running' = running
          /\ listener' = [listener EXCEPT ![awaited] = "created"]
      BY <1>3 DEF SourceStarted
    <2>6. \A s \in todo : listener'[s] = "none"
      BY <2>4, <2>5 DEF TypeOK
    <2>7. QED
      BY <2>3, <2>4, <2>5, <2>6 DEF Lifecycle, Quiescent
  <1>4. CASE SourceStartRaises
    BY <1>4 DEF SourceStartRaises, Lifecycle, Quiescent
  <1>5. ASSUME NEW s \in Source, ListenerStep(s)
        PROVE  Lifecycle'
    <2>1. running /\ listener[s] # "none" /\ UNCHANGED <<running, phase, todo, awaited, workers>>
      BY <1>5 DEF ListenerStep, ListenerRuns, FrameArrives, PutResumes, LinkLost,
                  Reconnected, ReadRaises, callVars
    <2>2. \E at \in ListenerState : listener' = [listener EXCEPT ![s] = at]
      <3>1. prevState[s] \in SourceState /\ srcState[s] \in SourceState
        BY DEF TypeOK
      <3>2. ASSUME NEW prev \in SourceState, LoopTop(s, prev)
            PROVE  \E at \in ListenerState : listener' = [listener EXCEPT ![s] = at]
        BY <3>2, LoopTopListener
      <3>3. CASE ListenerRuns(s) \/ PutResumes(s)
        BY <3>1, <3>2, <3>3 DEF ListenerRuns, PutResumes
      <3>4. CASE FrameArrives(s)
        BY <3>1, <3>2, <3>4 DEF FrameArrives, Enqueue, ListenerState
      <3>5. CASE LinkLost(s) \/ \E connected \in BOOLEAN : Reconnected(s, connected)
        BY <3>5, AfterReadType DEF LinkLost, Reconnected, ListenerState, SourceState
      <3>6. CASE ReadRaises(s)
        BY <3>6 DEF ReadRaises, ListenerState
      <3>7. QED
        BY <1>5, <3>3, <3>4, <3>5, <3>6 DEF ListenerStep
    <2>3. QED
      BY <2>1, <2>2, ListenerKeepsLifecycle
  <1>6. ASSUME NEW w \in Worker, NEW ok \in BOOLEAN, Dispatch(w, ok)
        PROVE  Lifecycle'
    BY <1>6 DEF Dispatch, Lifecycle, Quiescent, callVars, listenerVars
  <1>7. CASE Stop
    BY <1>7 DEF Stop, Lifecycle, Quiescent
  <1>8. CASE StopStep
    <2>1. ASSUME NEW s \in Source, ListenerCancelled(s)
          PROVE  Lifecycle'
      BY <2>1 DEF ListenerCancelled, Lifecycle, Quiescent, TypeOK, callVars
    <2>2. ASSUME NEW s \in Source, SourceStopped(s)
          PROVE  Lifecycle'
      BY <2>2 DEF SourceStopped, Lifecycle, Quiescent
    <2>3. CASE ListenersJoined \/ SourcesStopped \/ WorkersCancelled
      BY <2>3 DEF ListenersJoined, SourcesStopped, WorkersCancelled, Lifecycle, Quiescent,
                  listenerVars
    <2>4. QED
      BY <1>8, <2>1, <2>2, <2>3 DEF StopStep
  <1>9. CASE UNCHANGED vars
    BY <1>9 DEF vars, Lifecycle, Quiescent, callVars, listenerVars
  <1>10. QED
    BY <1>1, <1>2, <1>3, <1>4, <1>5, <1>6, <1>7, <1>8, <1>9 DEF Next

\* Once stop() has returned, no listener or worker of the session is alive,
\* whatever failed or was blocked while it ran.
THEOREM StopLeavesNothing == Spec => []Quiescent
  <1>1. Init => Lifecycle
    BY DEF Init, Lifecycle, Quiescent
  <1>2. Lifecycle => Quiescent
    BY DEF Lifecycle
  <1>3. QED
    BY <1>1, <1>2, InitType, TypeStep, LifecycleStep, PTL DEF Spec

-----------------------------------------------------------------------------
(* The accounting of frames.                                               *)

LEMMA CountersAreNat ==
  ASSUME TypeOK
  PROVE  /\ received \in Nat /\ enqueued \in Nat /\ dropped \in Nat /\ lost \in Nat
         /\ processed \in Nat /\ errors \in Nat /\ Len(queue) \in Nat
         /\ Cardinality(Blocked) \in Nat
  <1>1. IsFiniteSet(Blocked)
    BY FS_Subset, GatewayAssumption DEF Blocked
  <1>2. QED
    BY <1>1, FS_CardinalityType DEF TypeOK

\* A step that moves one listener, neither from nor into a blocked put, and
\* touches no counter and no frame.
LEMMA ListenerKeepsAccounting ==
  ASSUME TypeOK, Accounting, NEW s \in Source, listener[s] # "putting",
         NEW at \in ListenerState \ {"putting"}, listener' = [listener EXCEPT ![s] = at],
         UNCHANGED <<policy, queue, received, enqueued, dropped, lost, processed, errors>>
  PROVE  Accounting'
  <1>nat. /\ received \in Nat /\ enqueued \in Nat /\ dropped \in Nat /\ lost \in Nat
          /\ processed \in Nat /\ errors \in Nat /\ Len(queue) \in Nat
          /\ Cardinality(Blocked) \in Nat
    BY CountersAreNat
  <1>1. Blocked' = Blocked /\ Cardinality(Blocked') = Cardinality(Blocked)
    BY BlockedChange
  <1>2. ReadAccounting'
    BY <1>nat, <1>1 DEF Accounting, ReadAccounting
  <1>3. QueueAccounting'
    BY <1>nat DEF Accounting, QueueAccounting
  <1>4. PolicyKept'
    BY <1>1 DEF Accounting, PolicyKept
  <1>5. QED
    BY <1>2, <1>3, <1>4 DEF Accounting

\* A frame is read and put through the overflow policy.
LEMMA ArrivalKeepsAccounting ==
  ASSUME TypeOK, Accounting, NEW s \in Source, FrameArrives(s)
  PROVE  Accounting'
  <1>nat. /\ received \in Nat /\ enqueued \in Nat /\ dropped \in Nat /\ lost \in Nat
          /\ processed \in Nat /\ errors \in Nat /\ Len(queue) \in Nat
          /\ Cardinality(Blocked) \in Nat
    BY CountersAreNat
  <1> USE GatewayAssumption
  <1> DEFINE f == [src |-> s, seq |-> seq[s] + 1]
  <1>1. f \in Frame /\ prevState[s] \in SourceState
    BY DEF Frame, TypeOK
  <1>2. /\ listener[s] = "reading" /\ received' = received + 1 /\ Enqueue(s, f)
        /\ UNCHANGED <<policy, lost, processed, errors>>
    BY DEF FrameArrives, workVars
  <1> HIDE DEF f
  <1>3. ASSUME LoopTop(s, prevState[s])
        PROVE  Blocked' = Blocked /\ Cardinality(Blocked') = Cardinality(Blocked)
    <2>1. PICK at \in ListenerState \ {"none", "created", "putting"} :
             listener' = [listener EXCEPT ![s] = at]
      BY <1>1, <1>3, LoopTopListener
    <2>2. QED
      BY <1>2, <2>1, BlockedChange
  <1>4. Cardinality(Blocked) \in Nat
    BY FS_CardinalityType, FS_Subset DEF Blocked
  <1>5. CASE Len(queue) < MaxQueue
    <2>1. /\ queue' = Append(queue, f) /\ enqueued' = enqueued + 1 /\ dropped' = dropped
          /\ LoopTop(s, prevState[s])
      BY <1>2, <1>5 DEF Enqueue
    <2>2. Len(queue') = Len(queue) + 1
      BY <1>1, <2>1, QueueOps DEF TypeOK
    <2>3. /\ received' = received + 1 /\ enqueued' = enqueued + 1
          /\ UNCHANGED <<policy, dropped, lost, processed, errors>>
          /\ Blocked' = Blocked /\ Cardinality(Blocked') = Cardinality(Blocked)
      BY <1>2, <1>3, <2>1
    <2>4. QED
      <3>1. ReadAccounting'
        BY <2>2, <2>3, <1>nat DEF Accounting, ReadAccounting
      <3>2. QueueAccounting'
        BY <2>2, <2>3, <1>nat DEF Accounting, QueueAccounting
      <3>3. PolicyKept'
        BY <2>2, <2>3 DEF Accounting, PolicyKept
      <3>4. QED
        BY <3>1, <3>2, <3>3 DEF Accounting
  <1>6. CASE ~(Len(queue) < MaxQueue) /\ policy = "DROP_OLDEST"
    <2>1. /\ queue' = Append(Tail(queue), f)
          /\ enqueued' = enqueued + 1 /\ dropped' = dropped + 1
          /\ LoopTop(s, prevState[s])
      BY <1>2, <1>6 DEF Enqueue
    <2>2. queue # <<>>
      BY <1>6 DEF TypeOK
    <2>3. Tail(queue) \in Seq(Frame) /\ Len(Tail(queue)) = Len(queue) - 1
      BY <1>1, <2>2, QueueOps DEF TypeOK
    <2>4. Len(queue') = Len(queue)
      BY <1>1, <2>1, <2>3, QueueOps DEF TypeOK
    <2>5. /\ received' = received + 1 /\ enqueued' = enqueued + 1 /\ dropped' = dropped + 1
          /\ UNCHANGED <<policy, lost, processed, errors>>
          /\ Blocked' = Blocked /\ Cardinality(Blocked') = Cardinality(Blocked)
      BY <1>2, <1>3, <2>1
    <2>6. QED
      <3>1. ReadAccounting'
        BY <1>6, <2>4, <2>5, <1>nat DEF Accounting, ReadAccounting
      <3>2. QueueAccounting'
        BY <1>6, <2>4, <2>5, <1>nat DEF Accounting, QueueAccounting
      <3>3. PolicyKept'
        BY <1>6, <2>4, <2>5 DEF Accounting, PolicyKept
      <3>4. QED
        BY <3>1, <3>2, <3>3 DEF Accounting
  <1>7. CASE ~(Len(queue) < MaxQueue) /\ policy = "DROP_NEWEST"
    <2>1. /\ dropped' = dropped + 1 /\ UNCHANGED <<queue, enqueued>>
          /\ LoopTop(s, prevState[s])
      BY <1>2, <1>7 DEF Enqueue
    <2>2. /\ received' = received + 1 /\ dropped' = dropped + 1
          /\ UNCHANGED <<policy, queue, enqueued, lost, processed, errors>>
          /\ Blocked' = Blocked /\ Cardinality(Blocked') = Cardinality(Blocked)
      BY <1>2, <1>3, <2>1
    <2>3. QED
      <3>1. ReadAccounting'
        BY <1>7, <2>2, <1>nat DEF Accounting, ReadAccounting
      <3>2. QueueAccounting'
        BY <1>7, <2>2, <1>nat DEF Accounting, QueueAccounting
      <3>3. PolicyKept'
        BY <1>7, <2>2 DEF Accounting, PolicyKept
      <3>4. QED
        BY <3>1, <3>2, <3>3 DEF Accounting
  <1>8. CASE ~(Len(queue) < MaxQueue) /\ policy = "BLOCK"
    <2>1. /\ listener' = [listener EXCEPT ![s] = "putting"]
          /\ UNCHANGED <<queue, enqueued, dropped>>
      BY <1>2, <1>8 DEF Enqueue
    <2>2. Cardinality(Blocked') = Cardinality(Blocked) + 1
      BY <1>2, <2>1, BlockedChange DEF ListenerState
    <2>3. QED
      BY <1>2, <1>4, <1>8, <2>1, <2>2, <1>nat
         DEF Accounting, ReadAccounting, QueueAccounting, PolicyKept
  <1>9. QED
    BY <1>5, <1>6, <1>7, <1>8 DEF TypeOK, Policy

LEMMA AccountingStep == TypeOK /\ Accounting /\ Lifecycle /\ [Next]_vars => Accounting'
  <1> SUFFICES ASSUME TypeOK, Accounting, Lifecycle, [Next]_vars
               PROVE  Accounting'
    OBVIOUS
  <1>nat. /\ received \in Nat /\ enqueued \in Nat /\ dropped \in Nat /\ lost \in Nat
          /\ processed \in Nat /\ errors \in Nat /\ Len(queue) \in Nat
          /\ Cardinality(Blocked) \in Nat
    BY CountersAreNat
  <1> USE GatewayAssumption
  <1>1. ASSUME UNCHANGED <<policy, listener, queue, received, enqueued, dropped, lost,
                           processed, errors>>
        PROVE  Accounting'
    BY <1>1
       DEF Accounting, ReadAccounting, QueueAccounting, PolicyKept, Blocked
  <1>2. ASSUME NEW s \in Source, RegisterSource(s) \/ UnregisterSource(s)
        PROVE  Accounting'
    BY <1>1, <1>2 DEF RegisterSource, UnregisterSource, listenerVars, counterVars, workVars
  <1>3. CASE Start \/ SourceStartRaises \/ Stop
    BY <1>1, <1>3 DEF Start, SourceStartRaises, Stop, listenerVars, counterVars, workVars
  <1>4. ASSUME NEW connected \in BOOLEAN, SourceStarted(connected)
        PROVE  Accounting'
    <2>1. awaited \in Source /\ listener[awaited] = "none"
      BY <1>4 DEF SourceStarted, Lifecycle
    <2>2. /\ listener' = [listener EXCEPT ![awaited] = "created"]
          /\ UNCHANGED <<policy, queue, received, enqueued, dropped, lost, processed, errors>>
      BY <1>4 DEF SourceStarted, counterVars, workVars
    <2>3. QED
      BY <2>1, <2>2, ListenerKeepsAccounting DEF ListenerState
  <1>5. ASSUME NEW s \in Source, ListenerRuns(s)
        PROVE  Accounting'
    <2>1. PICK prev \in SourceState : LoopTop(s, prev)
      BY <1>5 DEF ListenerRuns, TypeOK
    <2>2. PICK at \in ListenerState \ {"none", "created", "putting"} :
             listener' = [listener EXCEPT ![s] = at]
      BY <2>1, LoopTopListener
    <2>3. /\ listener[s] # "putting"
          /\ UNCHANGED <<policy, queue, received, enqueued, dropped, lost, processed, errors>>
      BY <1>5 DEF ListenerRuns, counterVars, workVars
    <2>4. QED
      BY <2>2, <2>3, ListenerKeepsAccounting
  <1>6. ASSUME NEW s \in Source, PutResumes(s)
        PROVE  Accounting'
    <2>1. prevState[s] \in SourceState /\ LoopTop(s, prevState[s]) /\ Held(s) \in Frame
      BY <1>6 DEF PutResumes, TypeOK, Held, Frame
    <2>2. PICK at \in ListenerState \ {"none", "created", "putting"} :
             listener' = [listener EXCEPT ![s] = at]
      BY <2>1, LoopTopListener
    <2>3. /\ listener[s] = "putting" /\ s \in Blocked
          /\ queue' = Append(queue, Held(s)) /\ enqueued' = enqueued + 1
          /\ UNCHANGED <<policy, received, dropped, lost, processed, errors>>
      BY <1>6 DEF PutResumes, workVars, Blocked
    <2>4. policy = "BLOCK"
      BY <2>3 DEF Accounting, PolicyKept, TypeOK, Policy
    <2>5. Cardinality(Blocked) \in Nat /\ Cardinality(Blocked') = Cardinality(Blocked) - 1
      BY <2>2, <2>3, BlockedChange
    <2>6. Len(queue') = Len(queue) + 1
      BY <2>1, <2>3, QueueOps DEF TypeOK
    <2>7. ReadAccounting'
      BY <1>nat, <2>3, <2>4, <2>5 DEF Accounting, ReadAccounting
    <2>8. QueueAccounting'
      BY <1>nat, <2>3, <2>4, <2>6 DEF Accounting, QueueAccounting
    <2>9. PolicyKept'
      BY <2>3, <2>4 DEF Accounting, PolicyKept
    <2>10. QED
      BY <2>7, <2>8, <2>9 DEF Accounting
  <1>7. ASSUME NEW s \in Source,
               LinkLost(s) \/ ReadRaises(s) \/ \E connected \in BOOLEAN : Reconnected(s, connected)
        PROVE  Accounting'
    <2>1. \E at \in ListenerState \ {"putting"} : listener' = [listener EXCEPT ![s] = at]
      <3>1. ASSUME NEW st \in SourceState
            PROVE  AfterRead(s, st).at \in ListenerState \ {"putting"}
        BY AfterReadType DEF ListenerState
      <3>2. QED
        BY <1>7, <3>1 DEF LinkLost, Reconnected, ReadRaises, SourceState, ListenerState
    <2>2. /\ listener[s] # "putting"
          /\ UNCHANGED <<policy, queue, received, enqueued, dropped, lost, processed, errors>>
      BY <1>7 DEF LinkLost, Reconnected, ReadRaises, counterVars, workVars
    <2>3. QED
      BY <2>1, <2>2, ListenerKeepsAccounting
  <1>8. ASSUME NEW w \in Worker, NEW ok \in BOOLEAN, Dispatch(w, ok)
        PROVE  Accounting'
    <2>1. /\ queue # <<>> /\ queue' = Tail(queue)
          /\ processed' = IF ok THEN processed + 1 ELSE processed
          /\ errors' = IF ok THEN errors ELSE errors + 1
          /\ UNCHANGED <<policy, listener, received, enqueued, dropped, lost>>
      BY <1>8 DEF Dispatch, listenerVars, counterVars
    <2>2. Len(queue') = Len(queue) - 1
      BY <2>1 DEF TypeOK
    <2>3. /\ Blocked' = Blocked
          /\ UNCHANGED <<policy, received, enqueued, dropped, lost>>
      BY <2>1 DEF Blocked
    <2>4. ReadAccounting'
      BY <1>nat, <2>3 DEF Accounting, ReadAccounting
    <2>5. QueueAccounting'
      <3>1. CASE ok
        <4>1. processed' = processed + 1 /\ errors' = errors
          BY <2>1, <3>1
        <4>2. QED
          BY <1>nat, <2>2, <2>3, <4>1 DEF Accounting, QueueAccounting
      <3>2. CASE ~ok
        <4>1. processed' = processed /\ errors' = errors + 1
          BY <2>1, <3>2
        <4>2. QED
          BY <1>nat, <2>2, <2>3, <4>1 DEF Accounting, QueueAccounting
      <3>3. QED
        BY <3>1, <3>2
    <2>6. PolicyKept'
      BY <2>3 DEF Accounting, PolicyKept
    <2>7. QED
      BY <2>4, <2>5, <2>6 DEF Accounting
  <1>9. CASE StopStep
    <2>1. ASSUME NEW s \in Source, ListenerCancelled(s)
          PROVE  Accounting'
      <3>1. /\ listener' = [listener EXCEPT ![s] = "none"]
            /\ lost' = IF listener[s] = "putting" THEN lost + 1 ELSE lost
            /\ UNCHANGED <<policy, queue, received, enqueued, dropped, processed, errors>>
        BY <2>1 DEF ListenerCancelled, workVars
      <3>2. CASE listener[s] = "putting"
        <4>1. Cardinality(Blocked) \in Nat /\ Cardinality(Blocked') = Cardinality(Blocked) - 1
          BY <3>1, <3>2, BlockedChange DEF ListenerState
        <4>2. policy = "BLOCK"
          BY <3>2 DEF Accounting, PolicyKept, Blocked, TypeOK, Policy
        <4>3. lost' = lost + 1
          BY <3>1, <3>2
        <4>4. ReadAccounting'
          BY <1>nat, <3>1, <4>1, <4>2, <4>3 DEF Accounting, ReadAccounting
        <4>5. QueueAccounting'
          BY <1>nat, <3>1, <4>2 DEF Accounting, QueueAccounting
        <4>6. PolicyKept'
          BY <3>1, <4>2 DEF Accounting, PolicyKept
        <4>7. QED
          BY <4>4, <4>5, <4>6 DEF Accounting
      <3>3. CASE listener[s] # "putting"
        BY <3>1, <3>3, ListenerKeepsAccounting DEF ListenerState
      <3>4. QED
        BY <3>2, <3>3
    <2>2. ASSUME NEW s \in Source, SourceStopped(s)
          PROVE  Accounting'
      BY <1>1, <2>2 DEF SourceStopped, counterVars, workVars
    <2>3. CASE ListenersJoined \/ SourcesStopped \/ WorkersCancelled
      BY <1>1, <2>3 DEF ListenersJoined, SourcesStopped, WorkersCancelled, listenerVars,
                        counterVars, workVars
    <2>4. QED
      BY <1>9, <2>1, <2>2, <2>3 DEF StopStep
  <1>10. CASE UNCHANGED vars
    BY <1>1, <1>10 DEF vars, listenerVars, counterVars, workVars
  <1>11. ASSUME NEW s \in Source, ListenerStep(s)
         PROVE  Accounting'
    BY <1>5, <1>6, <1>7, <1>11, ArrivalKeepsAccounting DEF ListenerStep
  <1>12. QED
    BY <1>2, <1>3, <1>4, <1>8, <1>9, <1>10, <1>11 DEF Next

LEMMA InitInv == Init => IInv
  <1> SUFFICES ASSUME Init
               PROVE  IInv
    OBVIOUS
  <1>1. TypeOK
    BY InitType
  <1>2. Lifecycle
    BY DEF Init, Lifecycle, Quiescent
  <1>3. Blocked = {}
    BY DEF Init, Blocked
  <1>4. Len(queue) = 0
    BY DEF Init
  <1>5. Accounting
    BY <1>3, <1>4, FS_EmptySet DEF Init, Accounting, ReadAccounting, QueueAccounting, PolicyKept
  <1>6. QED
    BY <1>1, <1>2, <1>5 DEF IInv

\* Every frame a listener reads is accounted for, under every overflow policy,
\* for any number of sources and workers and over any restarts.
THEOREM FramesAccounted == Spec => []Accounting
  <1>1. IInv /\ [Next]_vars => IInv'
    BY TypeStep, LifecycleStep, AccountingStep DEF IInv
  <1>2. IInv => Accounting
    BY DEF IInv
  <1>3. QED
    BY <1>1, <1>2, InitInv, PTL DEF Spec

-----------------------------------------------------------------------------
(* The order of frames: the daemon implements the channel, and only the    *)
(* overflow policy takes a queued frame away.                              *)

\* The frames of q in the order of each source, after those of low, up to high.
Ordered(q, low, high) ==
  /\ \A i \in 1..Len(q) : low[q[i].src] < q[i].seq /\ q[i].seq <= high[q[i].src]
  /\ \A i, j \in 1..Len(q) : i < j /\ q[i].src = q[j].src => q[i].seq < q[j].seq

\* Of each source, the frames dispatched, queued and held by a blocked put
\* follow each other in the order in which they were read.
FramesInOrder ==
  /\ Ordered(queue, dispatched, seq)
  /\ \A s \in Source : dispatched[s] <= seq[s]
  /\ \A s \in Source : listener[s] = "putting" =>
       /\ dispatched[s] < seq[s]
       /\ \A i \in 1..Len(queue) : queue[i].src = s => queue[i].seq < seq[s]

OrderInv == TypeOK /\ FramesInOrder

\* What a step does to the frames.

\* A listener reads a frame, which is queued, ousts the oldest, or is refused
\* or blocked.
Arrives(s) ==
  LET f == [src |-> s, seq |-> seq[s] + 1]
  IN /\ seq' = [seq EXCEPT ![s] = @ + 1]
     /\ dispatched' = dispatched
     /\ \A r \in Source : r # s => listener'[r] = listener[r]
     /\ listener[s] = "reading"
     /\ \/ queue' = Append(queue, f) /\ listener'[s] # "putting"
        \/ /\ policy = "DROP_OLDEST" /\ Len(queue) = MaxQueue
           /\ queue' = Append(Tail(queue), f) /\ listener'[s] # "putting"
        \/ queue' = queue

\* A blocked put goes through.
Resumes(s) ==
  /\ listener[s] = "putting" /\ listener'[s] # "putting"
  /\ \A r \in Source : r # s => listener'[r] = listener[r]
  /\ queue' = Append(queue, Held(s))
  /\ UNCHANGED <<seq, dispatched>>

Dispatches ==
  /\ queue # <<>>
  /\ queue' = Tail(queue)
  /\ dispatched' = [dispatched EXCEPT ![Head(queue).src] = Head(queue).seq]
  /\ UNCHANGED <<seq, listener>>

\* Nothing, or a blocked put is cancelled.
Loses ==
  /\ UNCHANGED <<queue, seq, dispatched>>
  /\ \A s \in Source : listener'[s] = "putting" => listener[s] = "putting"

LEMMA FrameSteps ==
  ASSUME TypeOK, Next \/ UNCHANGED vars
  PROVE  (\E s \in Source : Arrives(s) \/ Resumes(s)) \/ Dispatches \/ Loses
  <1>1. ASSUME NEW s \in Source, NEW prev \in SourceState, LoopTop(s, prev)
        PROVE  /\ listener'[s] # "putting"
               /\ \A r \in Source : r # s => listener'[r] = listener[r]
    <2>1. PICK at \in ListenerState \ {"none", "created", "putting"} :
            listener' = [listener EXCEPT ![s] = at]
      BY <1>1, LoopTopListener
    <2>2. QED
      BY <2>1 DEF TypeOK
  <1>2. \A s \in Source : prevState[s] \in SourceState /\ srcState[s] \in SourceState
    BY DEF TypeOK
  <1>3. ASSUME NEW s \in Source, FrameArrives(s)
        PROVE  Arrives(s)
    <2> DEFINE f == [src |-> s, seq |-> seq[s] + 1]
    <2>1. Len(queue) \in Nat /\ Len(queue) <= MaxQueue /\ MaxQueue \in Nat
      BY GatewayAssumption DEF TypeOK
    <2>2. \/ /\ queue' = Append(queue, f)
             /\ LoopTop(s, prevState[s])
          \/ /\ policy = "DROP_OLDEST" /\ Len(queue) = MaxQueue
             /\ queue' = Append(Tail(queue), f)
             /\ LoopTop(s, prevState[s])
          \/ queue' = queue /\ LoopTop(s, prevState[s])
          \/ queue' = queue /\ listener' = [listener EXCEPT ![s] = "putting"]
      BY <1>3, <2>1 DEF FrameArrives, Enqueue
    <2>3. \A r \in Source : r # s => listener'[r] = listener[r]
      BY <1>1, <1>2, <2>2 DEF TypeOK
    <2>4. LoopTop(s, prevState[s]) => listener'[s] # "putting"
      BY <1>1, <1>2
    <2>5. /\ seq' = [seq EXCEPT ![s] = @ + 1] /\ dispatched' = dispatched
          /\ listener[s] = "reading"
      BY <1>3 DEF FrameArrives, workVars
    <2>6. QED
      BY <2>2, <2>3, <2>4, <2>5 DEF Arrives
  <1>4. ASSUME NEW s \in Source, PutResumes(s)
        PROVE  Resumes(s)
    BY <1>1, <1>2, <1>4 DEF PutResumes, Resumes, workVars
  <1>5. ASSUME NEW s \in Source, ListenerRuns(s)
        PROVE  Loses
    <2>1. \E prev \in SourceState : LoopTop(s, prev)
      BY <1>2, <1>5 DEF ListenerRuns
    <2>2. QED
      BY <1>1, <1>5, <2>1 DEF ListenerRuns, Loses, workVars
  <1>6. ASSUME NEW s \in Source, NEW st \in {"CONNECTED", "DISCONNECTED", "ERROR"},
               listener' = [listener EXCEPT ![s] = AfterRead(s, st).at]
        PROVE  \A r \in Source : listener'[r] = "putting" => listener[r] = "putting"
    BY <1>6, AfterReadType DEF TypeOK, SourceState
  <1>7. ASSUME NEW s \in Source,
               LinkLost(s) \/ (\E connected \in BOOLEAN : Reconnected(s, connected)) \/ ReadRaises(s)
        PROVE  Loses
    <2>1. CASE LinkLost(s)
      BY <1>6, <2>1 DEF LinkLost, Loses, workVars
    <2>2. CASE \E connected \in BOOLEAN : Reconnected(s, connected)
      BY <1>6, <2>2 DEF Reconnected, Loses, workVars
    <2>3. CASE ReadRaises(s)
      BY <2>3 DEF ReadRaises, Loses, workVars, TypeOK
    <2>4. QED
      BY <1>7, <2>1, <2>2, <2>3
  <1>8. ASSUME NEW w \in Worker, NEW ok \in BOOLEAN, Dispatch(w, ok)
        PROVE  Dispatches
    BY <1>8 DEF Dispatch, Dispatches, listenerVars
  <1>9. CASE StopStep
    BY <1>9 DEF StopStep, ListenerCancelled, ListenersJoined, SourceStopped, SourcesStopped,
                WorkersCancelled, Loses, listenerVars, workVars, TypeOK
  <1>10. CASE \/ \E s \in Source : RegisterSource(s) \/ UnregisterSource(s)
              \/ Start \/ SourceStartRaises \/ Stop
              \/ \E connected \in BOOLEAN : SourceStarted(connected)
              \/ UNCHANGED vars
    BY <1>10 DEF RegisterSource, UnregisterSource, Start, SourceStartRaises, Stop, SourceStarted,
                 Loses, listenerVars, workVars, vars, TypeOK
  <1>11. QED
    BY <1>3, <1>4, <1>5, <1>7, <1>8, <1>9, <1>10 DEF Next, ListenerStep

\* The frames of a queue that is appended to, or loses its head.
LEMMA QueueElements ==
  ASSUME NEW q \in Seq(Frame), NEW f \in Frame
  PROVE  /\ Append(q, f) \in Seq(Frame) /\ Len(Append(q, f)) = Len(q) + 1
         /\ \A i \in 1..Len(q) : Append(q, f)[i] = q[i]
         /\ Append(q, f)[Len(q) + 1] = f
         /\ q # <<>> => /\ Tail(q) \in Seq(Frame) /\ Len(Tail(q)) = Len(q) - 1 /\ Len(q) > 0
                        /\ Head(q) = q[1] /\ q[1] \in Frame
                        /\ \A i \in 1..(Len(q) - 1) : Tail(q)[i] = q[i + 1]
         /\ \A i \in 1..Len(q) : q[i] \in Frame
  OBVIOUS

LEMMA OrderedAppend ==
  ASSUME NEW q \in Seq(Frame), NEW f \in Frame,
         NEW low \in [Source -> Nat], NEW high \in [Source -> Nat],
         Ordered(q, low, high), low[f.src] < f.seq, f.seq <= high[f.src],
         \A i \in 1..Len(q) : q[i].src = f.src => q[i].seq < f.seq
  PROVE  Ordered(Append(q, f), low, high)
  <1> DEFINE new == Append(q, f)
  <1>1. /\ Len(new) = Len(q) + 1 /\ Len(q) \in Nat /\ new[Len(q) + 1] = f
        /\ \A i \in 1..Len(q) : new[i] = q[i]
    BY QueueElements
  <1> HIDE DEF new
  <1>2. \A i \in 1..Len(new) : i \in 1..Len(q) \/ i = Len(q) + 1
    BY <1>1
  <1>3. \A i \in 1..Len(new) : low[new[i].src] < new[i].seq /\ new[i].seq <= high[new[i].src]
    BY <1>1, <1>2 DEF Ordered
  <1>4. ASSUME NEW i \in 1..Len(new), NEW j \in 1..Len(new), i < j, new[i].src = new[j].src
        PROVE  new[i].seq < new[j].seq
    <2>1. i \in 1..Len(q)
      BY <1>1, <1>2, <1>4
    <2>2. CASE j \in 1..Len(q)
      BY <1>1, <1>4, <2>1, <2>2 DEF Ordered
    <2>3. CASE j = Len(q) + 1
      BY <1>1, <1>4, <2>1, <2>3
    <2>4. QED
      BY <1>2, <2>2, <2>3
  <1>5. QED
    BY <1>3, <1>4 DEF Ordered, new

LEMMA OrderedTail ==
  ASSUME NEW q \in Seq(Frame), q # <<>>, NEW low, NEW high, Ordered(q, low, high)
  PROVE  Ordered(Tail(q), low, high)
  <1> DEFINE new == Tail(q)
  <1>1. /\ Len(new) = Len(q) - 1 /\ Len(q) \in Nat
        /\ \A i \in 1..Len(new) : new[i] = q[i + 1]
    BY QueueElements
  <1> HIDE DEF new
  <1>2. \A i \in 1..Len(new) : i + 1 \in 1..Len(q)
    BY <1>1
  <1>3. QED
    BY <1>1, <1>2 DEF Ordered, new

LEMMA OrderedHigher ==
  ASSUME NEW q \in Seq(Frame), NEW low \in [Source -> Nat], NEW high \in [Source -> Nat],
         NEW higher \in [Source -> Nat], \A s \in Source : high[s] <= higher[s],
         Ordered(q, low, high)
  PROVE  Ordered(q, low, higher)
  <1>1. ASSUME NEW i \in 1..Len(q)
        PROVE  q[i].seq <= higher[q[i].src]
    <2>1. q[i] \in Frame
      BY QueueElements
    <2>2. q[i].seq \in Nat /\ q[i].src \in Source /\ q[i].seq <= high[q[i].src]
      BY <2>1 DEF Ordered, Frame
    <2>3. QED
      BY <2>2
  <1>2. QED
    BY <1>1 DEF Ordered

LEMMA FrameFacts ==
  ASSUME TypeOK
  PROVE  /\ queue \in Seq(Frame) /\ seq \in [Source -> Nat] /\ dispatched \in [Source -> Nat]
         /\ \A s \in Source : Held(s) \in Frame
         /\ \A i \in 1..Len(queue) : queue[i] \in Frame /\ queue[i].src \in Source
                                   /\ queue[i].seq \in Nat
  <1>1. queue \in Seq(Frame) /\ seq \in [Source -> Nat] /\ dispatched \in [Source -> Nat]
    BY DEF TypeOK
  <1>2. \A i \in 1..Len(queue) : queue[i] \in Frame
    BY <1>1
  <1>3. QED
    BY <1>1, <1>2 DEF Held, Frame

LEMMA ArrivesInOrder ==
  ASSUME OrderInv, TypeOK', NEW s \in Source, Arrives(s)
  PROVE  FramesInOrder'
  <1> DEFINE f == [src |-> s, seq |-> seq[s] + 1]
  <1>1. /\ queue \in Seq(Frame) /\ seq \in [Source -> Nat] /\ dispatched \in [Source -> Nat]
        /\ seq' \in [Source -> Nat] /\ f \in Frame
        /\ seq' = [seq EXCEPT ![s] = @ + 1] /\ dispatched' = dispatched
        /\ f.src = s /\ f.seq = seq[s] + 1
    <2>1. queue \in Seq(Frame) /\ seq \in [Source -> Nat] /\ dispatched \in [Source -> Nat]
      BY FrameFacts DEF OrderInv
    <2>2. seq' = [seq EXCEPT ![s] = @ + 1] /\ dispatched' = dispatched
      BY DEF Arrives
    <2>3. f \in Frame
      BY <2>1 DEF Frame
    <2>4. QED
      BY <2>1, <2>2, <2>3
  <1> HIDE DEF f
  <1>2. \A r \in Source : seq[r] <= seq'[r] /\ seq'[s] = seq[s] + 1
    BY <1>1
  <1>3. Ordered(queue, dispatched, seq')
    BY <1>1, <1>2, OrderedHigher DEF OrderInv, FramesInOrder
  <1>4. dispatched[s] <= seq[s] /\ dispatched[f.src] < f.seq /\ f.seq <= seq'[f.src]
    BY <1>1, <1>2 DEF OrderInv, FramesInOrder
  <1>5. \A i \in 1..Len(queue) : queue[i].src = s => queue[i].seq <= seq[s] /\ queue[i].seq < f.seq
    BY <1>1, FrameFacts DEF OrderInv, FramesInOrder, Ordered
  <1>6. ASSUME queue # <<>>
        PROVE  /\ Ordered(Tail(queue), dispatched, seq') /\ Tail(queue) \in Seq(Frame)
               /\ \A i \in 1..Len(Tail(queue)) : Tail(queue)[i].src = s => Tail(queue)[i].seq < f.seq
    <2>1. /\ Len(Tail(queue)) = Len(queue) - 1 /\ Tail(queue) \in Seq(Frame) /\ Len(queue) \in Nat
          /\ \A i \in 1..Len(Tail(queue)) : Tail(queue)[i] = queue[i + 1]
      BY <1>1, <1>6, QueueElements
    <2>2. \A i \in 1..Len(Tail(queue)) : i + 1 \in 1..Len(queue)
      BY <2>1
    <2>3. QED
      BY <1>1, <1>3, <1>5, <1>6, <2>1, <2>2, OrderedTail
  <1>7. Len(queue) = MaxQueue => queue # <<>>
    BY GatewayAssumption
  <1>8. Ordered(queue, dispatched, seq)'
    <2>1. CASE queue' = Append(queue, f)
      BY <1>1, <1>3, <1>4, <1>5, <2>1, OrderedAppend
    <2>2. CASE queue' = Append(Tail(queue), f) /\ Len(queue) = MaxQueue
      BY <1>1, <1>4, <1>6, <1>7, <2>2, OrderedAppend
    <2>3. CASE queue' = queue
      BY <1>1, <1>3, <2>3
    <2>4. QED
      BY <2>1, <2>2, <2>3 DEF Arrives, f
  <1>9. \A r \in Source : dispatched'[r] <= seq'[r]
    BY <1>1, <1>2 DEF OrderInv, FramesInOrder
  <1>10. ASSUME NEW r \in Source, listener'[r] = "putting"
         PROVE  /\ dispatched'[r] < seq'[r]
                /\ \A i \in 1..Len(queue') : queue'[i].src = r => queue'[i].seq < seq'[r]
    <2>1. CASE r = s
      <3>1. queue' = queue
        BY <1>10, <2>1 DEF Arrives
      <3>2. QED
        BY <1>1, <1>2, <1>4, <1>5, <2>1, <3>1
    <2>2. CASE r # s
      <3>1. listener[r] = "putting" /\ seq'[r] = seq[r]
        BY <1>1, <1>10, <2>2 DEF Arrives
      <3>2. /\ dispatched[r] < seq[r]
            /\ \A i \in 1..Len(queue) : queue[i].src = r => queue[i].seq < seq[r]
        BY <3>1 DEF OrderInv, FramesInOrder
      <3>3. ASSUME NEW i \in 1..Len(queue'), queue'[i].src = r
            PROVE  \E j \in 1..Len(queue) : queue'[i] = queue[j]
        <4>1. CASE queue' = Append(queue, f)
          <5>1. i \in 1..Len(queue) \/ queue'[i] = f
            BY <1>1, <4>1, QueueElements
          <5>2. QED
            BY <1>1, <2>2, <3>3, <4>1, <5>1, QueueElements
        <4>2. CASE queue' = Append(Tail(queue), f) /\ Len(queue) = MaxQueue
          <5>1. /\ Tail(queue) \in Seq(Frame) /\ Len(Tail(queue)) = Len(queue) - 1
                /\ Len(queue) \in Nat
                /\ \A j \in 1..Len(Tail(queue)) : Tail(queue)[j] = queue[j + 1]
            BY <1>1, <1>7, <4>2, QueueElements
          <5>2. i \in 1..Len(Tail(queue)) \/ queue'[i] = f
            BY <1>1, <4>2, <5>1, QueueElements
          <5>3. i \in 1..Len(Tail(queue)) => queue'[i] = queue[i + 1] /\ i + 1 \in 1..Len(queue)
            BY <1>1, <4>2, <5>1, QueueElements
          <5>4. QED
            BY <1>1, <2>2, <3>3, <5>2, <5>3
        <4>3. CASE queue' = queue
          BY <4>3
        <4>4. QED
          BY <4>1, <4>2, <4>3 DEF Arrives, f
      <3>4. QED
        BY <1>1, <3>1, <3>2, <3>3
    <2>3. QED
      BY <2>1, <2>2
  <1>11. QED
    BY <1>8, <1>9, <1>10 DEF FramesInOrder

LEMMA ResumesInOrder ==
  ASSUME OrderInv, NEW s \in Source, Resumes(s)
  PROVE  FramesInOrder'
  <1>1. /\ queue \in Seq(Frame) /\ seq \in [Source -> Nat] /\ dispatched \in [Source -> Nat]
        /\ Held(s) \in Frame /\ Held(s).src = s /\ Held(s).seq = seq[s]
        /\ queue' = Append(queue, Held(s)) /\ seq' = seq /\ dispatched' = dispatched
    BY FrameFacts DEF OrderInv, Resumes, Held
  <1>2. /\ dispatched[s] < seq[s]
        /\ \A i \in 1..Len(queue) : queue[i].src = s => queue[i].seq < seq[s]
    BY DEF OrderInv, FramesInOrder, Resumes
  <1>3. Ordered(queue', dispatched, seq)
    <2>1. /\ dispatched[Held(s).src] < Held(s).seq /\ Held(s).seq <= seq[Held(s).src]
          /\ \A i \in 1..Len(queue) : queue[i].src = Held(s).src => queue[i].seq < Held(s).seq
      BY <1>1, <1>2
    <2>2. Ordered(queue, dispatched, seq)
      BY DEF OrderInv, FramesInOrder
    <2>3. QED
      BY <1>1, <2>1, <2>2, OrderedAppend
  <1>4. ASSUME NEW r \in Source, listener'[r] = "putting"
        PROVE  /\ dispatched[r] < seq[r]
               /\ \A i \in 1..Len(queue') : queue'[i].src = r => queue'[i].seq < seq[r]
    <2>1. r # s /\ listener[r] = "putting"
      BY <1>4 DEF Resumes
    <2>2. \A i \in 1..Len(queue') : i \in 1..Len(queue) \/ queue'[i] = Held(s)
      BY <1>1, QueueElements
    <2>3. \A i \in 1..Len(queue) : queue'[i] = queue[i]
      BY <1>1, QueueElements
    <2>4. QED
      BY <1>1, <2>1, <2>2, <2>3 DEF OrderInv, FramesInOrder
  <1>5. QED
    BY <1>1, <1>3, <1>4 DEF OrderInv, FramesInOrder

LEMMA HeadFacts ==
  ASSUME OrderInv, Dispatches
  PROVE  /\ Head(queue) = queue[1] /\ 1 \in 1..Len(queue)
         /\ Head(queue) \in Frame /\ Head(queue).src \in Source /\ Head(queue).seq \in Nat
         /\ dispatched[Head(queue).src] < Head(queue).seq
         /\ Head(queue).seq <= seq[Head(queue).src]
         /\ \A i \in 1..Len(queue) : i # 1 /\ queue[i].src = Head(queue).src =>
              Head(queue).seq < queue[i].seq
  <1>1. queue \in Seq(Frame) /\ queue # <<>>
    BY FrameFacts DEF OrderInv, Dispatches
  <1>2. Head(queue) = queue[1] /\ 1 \in 1..Len(queue) /\ Head(queue) \in Frame
    BY <1>1
  <1>3. QED
    BY <1>2 DEF OrderInv, FramesInOrder, Ordered, Frame

LEMMA DispatchesInOrder ==
  ASSUME OrderInv, Dispatches
  PROVE  FramesInOrder'
  <1> DEFINE h == Head(queue)
  <1>1. /\ h = queue[1] /\ h.src \in Source /\ h.seq \in Nat /\ h.seq <= seq[h.src]
        /\ \A i \in 1..Len(queue) : i # 1 /\ queue[i].src = h.src => h.seq < queue[i].seq
    BY HeadFacts
  <1>2. /\ queue \in Seq(Frame) /\ seq \in [Source -> Nat] /\ dispatched \in [Source -> Nat]
        /\ \A i \in 1..Len(queue) : queue[i].src \in Source
    BY FrameFacts DEF OrderInv
  <1>3. /\ dispatched' = [dispatched EXCEPT ![h.src] = h.seq]
        /\ seq' = seq /\ listener' = listener /\ queue' = Tail(queue)
    BY DEF Dispatches
  <1> HIDE DEF h
  <1>4. /\ Len(queue') = Len(queue) - 1 /\ Len(queue) \in Nat
        /\ \A i \in 1..Len(queue') : queue'[i] = queue[i + 1]
    BY <1>2, <1>3, QueueElements DEF Dispatches
  <1>5. \A i \in 1..Len(queue') : i + 1 \in 1..Len(queue) /\ i + 1 # 1
    BY <1>4
  <1>6. \A s \in Source : dispatched'[s] = IF s = h.src THEN h.seq ELSE dispatched[s]
    BY <1>2, <1>3
  <1>7. Ordered(queue, dispatched, seq)
    BY DEF OrderInv, FramesInOrder
  <1>8. Ordered(queue, dispatched, seq)'
    <2>1. \A i \in 1..Len(queue') :
            dispatched'[queue'[i].src] < queue'[i].seq /\ queue'[i].seq <= seq[queue'[i].src]
      BY <1>1, <1>2, <1>4, <1>5, <1>6, <1>7 DEF Ordered
    <2>2. \A i, j \in 1..Len(queue') :
            i < j /\ queue'[i].src = queue'[j].src => queue'[i].seq < queue'[j].seq
      BY <1>4, <1>5, <1>7 DEF Ordered
    <2>3. QED
      BY <1>3, <2>1, <2>2 DEF Ordered
  <1>9. \A s \in Source : dispatched'[s] <= seq'[s]
    BY <1>1, <1>3, <1>6 DEF OrderInv, FramesInOrder
  <1>10. ASSUME NEW s \in Source, listener'[s] = "putting"
         PROVE  /\ dispatched'[s] < seq'[s]
                /\ \A i \in 1..Len(queue') : queue'[i].src = s => queue'[i].seq < seq'[s]
    <2>1. /\ dispatched[s] < seq[s]
          /\ \A i \in 1..Len(queue) : queue[i].src = s => queue[i].seq < seq[s]
      BY <1>3, <1>10 DEF OrderInv, FramesInOrder
    <2>2. 1 \in 1..Len(queue)
      BY HeadFacts
    <2>3. QED
      BY <1>1, <1>3, <1>4, <1>5, <1>6, <2>1, <2>2
  <1>11. QED
    BY <1>8, <1>9, <1>10 DEF FramesInOrder

LEMMA OrderStep == OrderInv /\ [Next]_vars => OrderInv'
  <1> SUFFICES ASSUME OrderInv, Next \/ UNCHANGED vars PROVE OrderInv'
    OBVIOUS
  <1>1. TypeOK'
    BY TypeStep DEF OrderInv
  <1>2. Loses => FramesInOrder'
    BY DEF OrderInv, FramesInOrder, Loses
  <1>3. FramesInOrder'
    BY <1>1, <1>2, FrameSteps, ArrivesInOrder, ResumesInOrder, DispatchesInOrder DEF OrderInv
  <1>4. QED
    BY <1>1, <1>3 DEF OrderInv

LEMMA OrderInit == Init => OrderInv
  <1> SUFFICES ASSUME Init PROVE OrderInv
    OBVIOUS
  <1>1. TypeOK
    BY InitType
  <1>2. FramesInOrder
    BY DEF Init, FramesInOrder, Ordered
  <1>3. QED
    BY <1>1, <1>2 DEF OrderInv

\* Per source, frames are queued and dispatched in the order they were read,
\* each at most once, whatever listeners, workers, stop() and restarts do.
THEOREM FramesOrdered == Spec => []FramesInOrder
  <1>1. OrderInv => FramesInOrder
    BY DEF OrderInv
  <1>2. QED
    BY <1>1, OrderInit, OrderStep, PTL DEF Spec

-----------------------------------------------------------------------------

\* A queued frame stays queued until it is dispatched, or is the oldest of a
\* full queue under DROP_OLDEST, even over a stop and a restart.
THEOREM QueuedIsKept == Spec => OnlyEvictionLosesQueued
  <1> DEFINE Fate(i) ==
        \/ \E j \in 1..Len(queue') : queue'[j] = queue[i]
        \/ dispatched'[queue[i].src] = queue[i].seq /\ dispatched[queue[i].src] < queue[i].seq
        \/ policy = "DROP_OLDEST" /\ i = 1 /\ Len(queue) = MaxQueue
  <1>1. ASSUME OrderInv, Next \/ UNCHANGED vars, NEW i \in 1..Len(queue)
        PROVE  Fate(i)
    <2>1. queue \in Seq(Frame) /\ Len(queue) \in Nat /\ queue # <<>>
      BY <1>1, FrameFacts DEF OrderInv
    <2>2. CASE \E f \in Frame : queue' = Append(queue, f)
      <3>1. PICK f \in Frame : queue' = Append(queue, f)
        BY <2>2
      <3>2. queue'[i] = queue[i] /\ i \in 1..Len(queue')
        BY <1>1, <2>1, <3>1, QueueElements
      <3>3. QED
        BY <3>2
    <2>3. CASE \E f \in Frame : queue' = Append(Tail(queue), f) /\ policy = "DROP_OLDEST"
                             /\ Len(queue) = MaxQueue
      <3>1. PICK f \in Frame : queue' = Append(Tail(queue), f)
        BY <2>3
      <3>2. CASE i # 1
        <4>1. Tail(queue) \in Seq(Frame) /\ Len(Tail(queue)) = Len(queue) - 1
          BY <2>1, QueueElements
        <4>2. i - 1 \in 1..Len(Tail(queue)) /\ Tail(queue)[i - 1] = queue[i]
          BY <1>1, <2>1, <3>2, <4>1, QueueElements
        <4>3. queue'[i - 1] = queue[i] /\ i - 1 \in 1..Len(queue')
          BY <3>1, <4>1, <4>2, QueueElements
        <4>4. QED
          BY <4>3
      <3>3. QED
        BY <2>3, <3>2
    <2>4. CASE Dispatches
      <3>1. CASE i = 1
        BY <1>1, <2>4, <3>1, HeadFacts, FrameFacts DEF Dispatches, OrderInv
      <3>2. CASE i # 1
        <4>1. i - 1 \in 1..Len(queue') /\ queue'[i - 1] = queue[i]
          BY <1>1, <2>1, <2>4, <3>2, QueueElements DEF Dispatches
        <4>2. QED
          BY <4>1
      <3>3. QED
        BY <3>1, <3>2
    <2>5. CASE queue' = queue
      BY <1>1, <2>5
    <2>6. ASSUME NEW s \in Source
          PROVE  Held(s) \in Frame /\ [src |-> s, seq |-> seq[s] + 1] \in Frame
      BY <1>1, FrameFacts DEF OrderInv, Frame
    <2>7. QED
      BY <1>1, <2>2, <2>3, <2>4, <2>5, <2>6, FrameSteps DEF OrderInv, Arrives, Resumes, Loses
  <1>2. OrderInv /\ [Next]_vars => [\A i \in 1..Len(queue) : Fate(i)]_vars
    BY <1>1
  <1>3. QED
    BY <1>2, OrderInit, OrderStep, PTL DEF Spec, OnlyEvictionLosesQueued

\* A frame is in transit as long as it is queued or held by a blocked put; each
\* step of the daemon sends, loses or delivers frames of the channel.
LEMMA ChannelStep ==
  ASSUME OrderInv, Next \/ UNCHANGED vars
  PROVE  Channel!ChannelNext
  <1>q. queue \in Seq(Frame) /\ Len(queue) \in Nat
    BY FrameFacts DEF OrderInv
  <1>1. ASSUME NEW s \in Source, Arrives(s)
        PROVE  Channel!Send(s)
    <2> DEFINE f == [src |-> s, seq |-> seq[s] + 1]
    <2>1. f \in Frame
      BY FrameFacts DEF OrderInv, Frame
    <2>2. \A r \in Source : listener'[r] = "putting" =>
            Held(r)' = f \/ (listener[r] = "putting" /\ Held(r)' = Held(r))
      BY <1>1, FrameFacts DEF Arrives, Held, OrderInv
    <2>3. \A i \in 1..Len(queue') : queue'[i] = f \/ \E j \in 1..Len(queue) : queue'[i] = queue[j]
      <3>1. CASE queue' = Append(queue, f)
        BY <1>q, <2>1, <3>1, QueueElements
      <3>2. CASE queue' = Append(Tail(queue), f) /\ queue # <<>>
        <4>1. /\ Tail(queue) \in Seq(Frame) /\ Len(Tail(queue)) = Len(queue) - 1
              /\ \A j \in 1..Len(Tail(queue)) : Tail(queue)[j] = queue[j + 1]
          BY <1>q, <3>2, QueueElements
        <4>2. \A i \in 1..Len(queue') : i \in 1..Len(Tail(queue)) \/ queue'[i] = f
          <5>1. Len(queue') = Len(Tail(queue)) + 1 /\ queue'[Len(Tail(queue)) + 1] = f
            BY <2>1, <3>2, <4>1, QueueElements
          <5>2. QED
            BY <1>q, <4>1, <5>1
        <4>3. \A i \in 1..Len(Tail(queue)) : queue'[i] = queue[i + 1] /\ i + 1 \in 1..Len(queue)
          BY <1>q, <2>1, <3>2, <4>1, QueueElements
        <4>4. QED
          BY <4>2, <4>3
      <3>3. CASE queue' = queue
        BY <3>3
      <3>4. Len(queue) = MaxQueue => queue # <<>>
        BY GatewayAssumption
      <3>5. QED
        BY <1>1, <3>1, <3>2, <3>3, <3>4 DEF Arrives
    <2>4. Transit' \subseteq Transit \union {f}
      BY <2>2, <2>3 DEF Transit
    <2>5. QED
      BY <1>1, <2>4 DEF Arrives, Channel!Send
  <1>2. ASSUME NEW s \in Source, Resumes(s)
        PROVE  Channel!Lose
    <2>1. Held(s) \in Frame /\ queue' = Append(queue, Held(s))
      BY <1>2, FrameFacts DEF OrderInv, Resumes
    <2>2. \A i \in 1..Len(queue') : queue'[i] = Held(s) \/ \E j \in 1..Len(queue) : queue'[i] = queue[j]
      BY <1>q, <2>1, QueueElements
    <2>3. \A r \in Source : listener'[r] = "putting" => listener[r] = "putting" /\ Held(r)' = Held(r)
      BY <1>2 DEF Resumes, Held
    <2>4. Transit' \subseteq Transit
      BY <1>2, <2>2, <2>3 DEF Transit, Resumes
    <2>5. QED
      BY <1>2, <2>4 DEF Resumes, Channel!Lose
  <1>3. ASSUME Dispatches
        PROVE  \E f \in Transit : Channel!Deliver(f)
    <2> DEFINE h == Head(queue)
    <2>1. /\ h = queue[1] /\ 1 \in 1..Len(queue) /\ dispatched[h.src] < h.seq
          /\ \A i \in 1..Len(queue) : i # 1 /\ queue[i].src = h.src => h.seq < queue[i].seq
      BY <1>3, HeadFacts
    <2>2. /\ dispatched' = [dispatched EXCEPT ![h.src] = h.seq]
          /\ seq' = seq /\ listener' = listener /\ queue' = Tail(queue)
      BY <1>3 DEF Dispatches
    <2>a. h.seq \in Nat /\ queue # <<>>
      BY <1>3, HeadFacts DEF Dispatches
    <2> HIDE DEF h
    <2>3. h \in Transit
      BY <2>1 DEF Transit
    <2>4. /\ Len(queue') = Len(queue) - 1
          /\ \A i \in 1..Len(queue') : queue'[i] = queue[i + 1] /\ i + 1 \in 1..Len(queue) /\ i + 1 # 1
      BY <1>q, <2>2, <2>a, QueueElements
    <2>5. ASSUME NEW i \in 1..Len(queue')
          PROVE  queue'[i] # h
      <3>1. i + 1 \in 1..Len(queue) /\ i + 1 # 1 /\ queue'[i] = queue[i + 1]
        BY <2>4
      <3>2. queue[i + 1].src = h.src => h.seq < queue[i + 1].seq
        BY <2>1, <3>1
      <3>3. QED
        BY <2>a, <3>1, <3>2
    <2>6. \A i \in 1..Len(queue) : queue[i] = h \/ \E j \in 1..Len(queue') : queue'[j] = queue[i]
      <3>1. \A i \in 1..Len(queue) : i = 1 \/ (i - 1 \in 1..Len(queue') /\ queue'[i - 1] = queue[i])
        BY <1>q, <2>4
      <3>2. QED
        BY <2>1, <3>1
    <2>7. \A r \in Source : Held(r)' = Held(r)
      BY <2>2 DEF Held
    <2>8. \A r \in Source : listener[r] = "putting" => Held(r) # h
      <3>1. \A r \in Source : listener[r] = "putting" =>
              \A i \in 1..Len(queue) : queue[i].src = r => queue[i].seq < seq[r]
        BY DEF OrderInv, FramesInOrder
      <3>2. \A r \in Source : seq[r] \in Nat /\ Held(r).src = r /\ Held(r).seq = seq[r]
        BY FrameFacts DEF OrderInv, Held
      <3>3. QED
        BY <2>1, <2>a, <3>1, <3>2
    <2>9. Transit' = Transit \ {h}
      BY <2>2, <2>4, <2>5, <2>6, <2>7, <2>8 DEF Transit
    <2>10. QED
      BY <2>1, <2>2, <2>3, <2>9 DEF Channel!Deliver
  <1>4. ASSUME Loses
        PROVE  Channel!Lose
    <2>1. \A r \in Source : Held(r)' = Held(r)
      BY <1>4 DEF Loses, Held
    <2>2. Transit' \subseteq Transit
      BY <1>4, <2>1 DEF Loses, Transit
    <2>3. QED
      BY <1>4, <2>2 DEF Loses, Channel!Lose
  <1>5. QED
    BY <1>1, <1>2, <1>3, <1>4, FrameSteps DEF OrderInv, Channel!ChannelNext

\* The daemon implements the ordered, lossy, at-most-once channel.
THEOREM ChannelImplemented == Spec => ImplementsChannel
  <1>1. Init => Channel!ChannelInit
    <2>1. Init => Transit = {}
      BY DEF Init, Transit
    <2>2. QED
      BY <2>1 DEF Init, Channel!ChannelInit
  <1>2. OrderInv /\ [Next]_vars => [Channel!ChannelNext]_(Channel!channelVars)
    BY ChannelStep
  <1>3. QED
    BY <1>1, <1>2, OrderInit, OrderStep, PTL DEF Spec, ImplementsChannel, Channel!ChannelSpec
=============================================================================
