------------------------------ MODULE TwinFeeds ------------------------------
(***************************************************************************)
(* The two feeds of one server: the Arduino connection and the mock        *)
(* generator, each with its own requests, both stepping twins through the  *)
(* same TelemetryIngestService.  fed[y] is what last stepped twin y.       *)
(***************************************************************************)
EXTENDS ArduinoGateway

CONSTANTS
  Request,   \* the requests of the mock generator
  MaxStarts  \* bound: its generator tasks

ASSUME FeedsAssumption == MaxStarts \in Nat

VARIABLES isRunning, task, target, generator, stopping, born

INSTANCE MockTelemetry

mockOwn == <<isRunning, task, target, generator, stopping, born>>
feedVars == <<arduinoVars, mockOwn>>

FeedsInit == Init /\ MockInit

FeedsNext ==
  \/ Next /\ UNCHANGED mockOwn
  \/ MockNext /\ UNCHANGED <<managerVars, deviceVars, listener, callVars>>

FeedsSpec == FeedsInit /\ [][FeedsNext]_feedVars

-----------------------------------------------------------------------------
(* Properties.                                                             *)

\* A generator that is said to run does run, however start() and stop()
\* overlap: stop() may forget the task a concurrent start() made, but never
\* ends it while leaving is_running set.
RunningMeansGenerating == isRunning => \E g \in Generator : Alive(g) /\ generator[g] # "cancelled"

\* Requests that do not overlap never let a frame of the hardware through
\* behind the mock generator's back: when a twin goes from mock data to
\* hardware data, the connection is up and names that twin; what a thread
\* still reads for a cancelled listener is thrown away.
HardwareFeedsWhileConnected ==
  [][\A y \in System :
      fed[y] = "MOCK" /\ fed'[y] = "LIVE_HARDWARE" =>
        overlapped \/ (running /\ state = "CONNECTED" /\ system = y)]_feedVars
=============================================================================
