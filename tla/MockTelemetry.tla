----------------------------- MODULE MockTelemetry -----------------------------
(***************************************************************************)
(* The synthetic telemetry generator: MockTelemetryService.  start() and   *)
(* stop() are called by HTTP requests on one event loop; only stop() has   *)
(* an await, for the generator task it cancelled.  Statistics and the      *)
(* record windows are left out.                                            *)
(***************************************************************************)
EXTENDS Integers

CONSTANTS
  Request,    \* the requests that may be in progress at once
  MaxStarts,  \* bound: generator tasks created
  System      \* the twins config.system_id may name

Generator == 1..MaxStarts

VARIABLES
  isRunning, task,  \* _is_running, _task (0: None)
  target,           \* config.system_id
  generator,        \* control state of the tasks; sleeping: in sleep(dt_s)
  stopping,         \* the task a stop() in progress waits for (0: none)
  born,             \* tasks created so far
  fed               \* history: source_mode of the record that last stepped a twin

MockInit ==
  /\ isRunning = FALSE
  /\ task = 0
  /\ target \in System
  /\ generator = [g \in Generator |-> "unborn"]
  /\ stopping = [r \in Request |-> 0]
  /\ born = 0

Alive(g) == generator[g] \notin {"unborn", "done"}

Configure(y) ==
  /\ target' = y
  /\ UNCHANGED <<isRunning, task, generator, stopping, born, fed>>

StartMock(r) ==
  /\ stopping[r] = 0
  /\ ~isRunning
  /\ born < MaxStarts
  /\ isRunning' = TRUE
  /\ born' = born + 1
  /\ task' = born'
  /\ generator' = [generator EXCEPT ![born'] = "created"]
  /\ UNCHANGED <<target, stopping, fed>>

\* Faulty variant: the flag stays up until the task has been joined.
StopFlagLate(r) ==
  /\ stopping[r] = 0
  /\ IF task # 0 /\ Alive(task)
     THEN /\ generator' = [generator EXCEPT ![task] = "cancelled"]
          /\ stopping' = [stopping EXCEPT ![r] = task]
          /\ UNCHANGED <<isRunning, task>>
     ELSE /\ isRunning' = FALSE
          /\ task' = 0
          /\ UNCHANGED <<generator, stopping>>
  /\ UNCHANGED <<target, born, fed>>

StopMock(r) ==
  /\ stopping[r] = 0
  /\ isRunning' = FALSE
  /\ IF task # 0 /\ Alive(task)
     THEN /\ generator' = [generator EXCEPT ![task] = "cancelled"]
          /\ stopping' = [stopping EXCEPT ![r] = task]
          /\ UNCHANGED task
     ELSE /\ task' = 0
          /\ UNCHANGED <<generator, stopping>>
  /\ UNCHANGED <<target, born, fed>>

\* The cancelled task has ended; stop() forgets _task, which a start() may
\* have set again meanwhile.
StopReturns(r) ==
  /\ stopping[r] # 0
  /\ generator[stopping[r]] = "done"
  /\ stopping' = [stopping EXCEPT ![r] = 0]
  /\ task' = 0
  /\ UNCHANGED <<isRunning, target, generator, born, fed>>

\* One turn of the loop: a sample, stepped into the twin unless refused.
Sample(g) ==
  /\ generator[g] \in {"created", "sleeping"}
  /\ isRunning
  /\ generator' = [generator EXCEPT ![g] = "sleeping"]
  /\ \/ fed' = [fed EXCEPT ![target] = "MOCK"]
     \/ UNCHANGED fed
  /\ UNCHANGED <<isRunning, task, target, stopping, born>>

\* The flag is down, or the cancellation arrives.
GeneratorEnds(g) ==
  /\ \/ generator[g] \in {"created", "sleeping"} /\ ~isRunning
     \/ generator[g] = "cancelled"
  /\ generator' = [generator EXCEPT ![g] = "done"]
  /\ UNCHANGED <<isRunning, task, target, stopping, born, fed>>

MockNext ==
  \/ \E y \in System : Configure(y)
  \/ \E r \in Request : StartMock(r) \/ StopMock(r) \/ StopReturns(r)
  \/ \E g \in Generator : Sample(g) \/ GeneratorEnds(g)
=============================================================================
