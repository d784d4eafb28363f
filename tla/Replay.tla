-------------------------------- MODULE Replay --------------------------------
(***************************************************************************)
(* Replay: a sequence of snapshots, from a drive cycle profile, from the   *)
(* telemetry repository or from a table, is fed to the twin that is also   *)
(* live (replay/engine.py, services/replay_service.py and the route that   *)
(* generates profiles).                                                    *)
(*                                                                         *)
(* A replay runs on the event loop without giving it up, so nothing comes  *)
(* in between its steps; they are actions here because each of them can    *)
(* fail, and leave what was done.  It steps the instance itself, past the  *)
(* service that keeps the history of the reports and past the pipeline.    *)
(*                                                                         *)
(* To the twin a timestamp is only earlier or later than another: the      *)
(* samples of a profile are at Time 1, 2, ... whatever their interval.     *)
(***************************************************************************)
EXTENDS DigitalTwin, Profiles, Tracking

CONSTANTS
  Requests,      \* the profiles that are asked for, as the route's payload
  Tabled,        \* custom profiles, given point by point
  Intervals,     \* sample_interval_s, 0 for None
  Targets,       \* target_voltage_rmse_v, 0 for None
  Volts,         \* what a voltage can be, 0 for None, by the source of the replay
  Strangers,     \* bound: rows of a table that may name another system
  MaxSamples,    \* bound: samples of a replay that is carried out, each at a time
  MaxReplays     \* bound: replays

\* A payload; the last fields are those the generators take besides.
Payloads ==
  [type: {"WLTP", "US06", "DST", "PULSE", "CC"}, peak: Int, scale: Nat, cycles: Nat, dt: Nat \ {0},
   pulse: Int, rest: Int, restCurrent: Int, regen: Int, wave: Seq(Int)]

Sources == {"profile", "repository", "csv"}

ASSUME ReplayAssumption ==
  /\ Requests \subseteq Payloads
  /\ Intervals \subseteq Nat /\ Targets \subseteq Nat /\ Volts \in [Sources -> SUBSET Nat]
  /\ {MaxSamples, MaxReplays} \subseteq Nat /\ MaxSamples <= MaxTime

VARIABLES
  run,      \* the replay that is being carried out
  result,   \* _last_results of the system, as the route serializes it
  replays   \* number of replays so far

replayVars == <<vars, run, result, replays>>

NoResult == [total |-> 0, executed |-> 0, skipped |-> 0, passing |-> TRUE]

\* request, profile and samples are what a profile replay is made from.
Custom == [type |-> "CUSTOM"]
NoRun ==
  [phase |-> "none", source |-> "none", request |-> Custom, profile |-> <<>>, interval |-> 0,
   samples |-> <<>>, queue |-> <<>>, reset |-> TRUE, raise |-> TRUE, target |-> 0,
   outputs |-> <<>>, records |-> <<>>, reports |-> 0, skipped |-> 0]

ReplayInit ==
  /\ Init
  /\ run = NoRun
  /\ result = NoResult
  /\ replays = 0

-----------------------------------------------------------------------------
(* Where the snapshots come from.                                          *)

\* A 0, or nothing, is the default.
Or(x, default) == IF x = 0 THEN default ELSE x

\* The route's defaults, by the type of the profile.
Defaulted(r) ==
  CASE r.type = "WLTP" -> [r EXCEPT !.peak = Or(@, 50), !.scale = Or(@, 1800)]
    [] r.type = "US06" -> [r EXCEPT !.peak = Or(@, 80), !.scale = Or(@, 600)]
    [] r.type = "DST" -> [r EXCEPT !.peak = Or(@, 40), !.cycles = Or(@, 3)]
    [] r.type = "PULSE" -> [r EXCEPT !.peak = Or(@, 10), !.cycles = Or(@, 5)]
    [] r.type = "CC" -> [r EXCEPT !.peak = Or(@, 5), !.scale = Or(@, 100)]

\* The route's dispatch on the type of the profile.
Generated(request) ==
  LET r == Defaulted(request) IN
  CASE r.type = "WLTP" -> WltpClass3(r)
    [] r.type = "US06" -> Us06(r)
    [] r.type = "DST" -> Dst(r)
    [] r.type = "PULSE" -> PulseDischarge(r)
    [] r.type = "CC" -> ConstantCurrent(r.scale, r.peak, r.dt)

\* A snapshot: when it is, whether it names the system, and which voltages it
\* may have.  A profile tells at which samples there is a voltage.
Snapshot(t, ours, voltages) == [time |-> t, ours |-> ours, voltages |-> voltages]
Snapshots(samples) ==
  [i \in DOMAIN samples |->
     Snapshot(i, TRUE, IF samples[i].voltage = NoVoltage THEN {0} ELSE Volts["profile"] \ {0})]

\* The service looks for the twin first.  made: what the snapshots are made from.
\* bound: there are replays, and an initialization, left.
Prepared(source, queue, made) ==
  /\ run.phase = "none"
  /\ replays < MaxReplays /\ epoch < MaxEpochs
  /\ replays' = replays + 1
  /\ run' = [made EXCEPT !.phase = "ready", !.source = source, !.queue = queue]
  /\ UNCHANGED <<vars, result>>

\* Profiles that are generated or given, at an interval; one that is refused is
\* no replay.
Made(request, points) ==
  {LET samples == ToSnapshots(points, interval)
   IN [NoRun EXCEPT !.request = request, !.profile = points, !.interval = interval,
                    !.samples = samples, !.queue = Snapshots(samples)]
     : interval \in IF IsProfile(points) THEN Intervals ELSE {}}
Plans == UNION ({Made(r, Generated(r)) : r \in Requests} \union {Made(Custom, p) : p \in Tabled})

\* bound: a profile that is too long to be replayed, or that is resampled, is
\* made only at the start.
FromProfile ==
  \E plan \in Plans :
    /\ Len(plan.queue) > MaxSamples \/ plan.interval # 0 => ~registered /\ snapshots = 0
    /\ Prepared("profile", plan.queue, plan)

Without == {Never} \union Time

\* A range of what the repository holds, which a replay makes grow: from what
\* is not before first (bisect_left) to what is not after last (bisect_right).
FromRepository(first, last) ==
  \E i \in 1..Len(telemetry) + 1, j \in 0..Len(telemetry) :
    LET times == SubSeq(telemetry, i, j) IN
    /\ \A k \in 1..Len(telemetry) :
         /\ k < i <=> first # Never /\ telemetry[k] < first
         /\ k <= j <=> last # Never => telemetry[k] <= last
    /\ times # <<>>
    /\ Prepared("repository", [k \in DOMAIN times |-> Snapshot(times[k], TRUE, Volts["repository"])], NoRun)

\* Rows of a table, in the order of the table, each of which may name another
\* system: only "unknown_system" is replaced by the twin's.
FromCsv(times, ours) ==
  /\ \A i \in DOMAIN ours : ours[i] \/ i \in Strangers
  /\ Prepared("csv", [i \in DOMAIN times |-> Snapshot(times[i], ours[i], Volts["csv"])], NoRun)

-----------------------------------------------------------------------------
(* Carrying out.                                                           *)

\* bound: a replay of few samples, for which there is room.
Fits ==
  /\ Len(run.queue) <= MaxSamples
  /\ snapshots + Len(run.queue) <= MaxSnapshots

\* Faulty variant: a twin that has been initialized is not reset.
ResetIfNeeded(reset) ==
  IF reset /\ ~twin.initialized THEN Start(NewInstance, TRUE) ELSE UNCHANGED <<twin, epoch, fedAs>>

\* auto_reset_instance: reset() and initialize().
ResetFirst(reset) ==
  IF reset THEN Start(NewInstance, TRUE) ELSE UNCHANGED <<twin, epoch, fedAs>>

\* With the configuration of the replay.
Begin ==
  /\ run.phase = "ready" /\ registered /\ Fits
  /\ \E reset, raise \in BOOLEAN, target \in Targets :
       /\ ResetFirst(reset)
       /\ run' = [NoRun EXCEPT !.phase = "stepping", !.source = run.source, !.queue = run.queue,
                              !.reset = reset, !.raise = raise, !.target = target]
  /\ UNCHANGED <<registered, history, lastTimestamp, telemetry, records, told, alerts,
                 snapshots, result, replays>>

\* The model refuses to be initialized: the twin has been reset, and stays so.
BeginFails ==
  /\ run.phase = "ready" /\ registered
  /\ twin' = NewInstance
  /\ run' = NoRun
  /\ UNCHANGED <<registered, history, lastTimestamp, telemetry, records, told, alerts,
                 epoch, fedAs, snapshots, result, replays>>

\* There is no such twin; or bound: there are too many samples.
Dismiss ==
  /\ run.phase = "ready"
  /\ ~registered \/ ~Fits
  /\ run' = NoRun
  /\ UNCHANGED <<vars, result, replays>>

\* What the synchronizer puts out for a snapshot.
Output(snapshot, observed, simulated) ==
  [time |-> snapshot.time, ours |-> snapshot.ours, observed |-> observed, simulated |-> simulated]

\* Faulty variant: what is latest is taken, whether or not the step succeeded.
TakenAnyway ==
  [run EXCEPT !.queue = Tail(@), !.skipped = @ + 1,
              !.outputs = Append(@, Output(Head(run.queue), 0, 0)),
              !.records = Append(@, twin'.latest)]

Skipped == [run EXCEPT !.queue = Tail(@), !.skipped = @ + 1]

Executed(snapshot, observed, simulated) ==
  [run EXCEPT !.queue = Tail(@),
              !.outputs = Append(@, Output(snapshot, observed, simulated)),
              !.records = Append(@, twin'.latest),
              !.reports = IF twin'.report = NoLifecycle THEN @ ELSE @ + 1]

\* instance.step(), which the reports of the service's history do not see.
ReplayStep ==
  /\ run.phase = "stepping" /\ run.queue # <<>>
  /\ LET snapshot == Head(run.queue)
         t == Synchronized(Ready, snapshot.time)
         r == [epoch |-> epoch', step |-> t.stepCount, time |-> snapshot.time]
     IN /\ Received(snapshot.time, Direct, snapshot.ours)
        /\ ~Skewed(snapshot.time)
        /\ IF snapshot.ours THEN RecordStored(r) ELSE UNCHANGED records
        /\ \/ \E l \in Lifecycle : Assessed(t, r, l)
           \/ twin' = Tracked(t, r) /\ UNCHANGED <<told, alerts>>
        /\ \E observed \in snapshot.voltages, simulated \in Volts[run.source] \ {0} :
             run' = Executed(snapshot, observed, simulated)
  /\ UNCHANGED <<history, lastTimestamp, result, replays>>

\* A step that fails ends the replay, whose result is lost, or is skipped.
ReplayStepFails ==
  /\ run.phase = "stepping" /\ run.queue # <<>>
  /\ StepFails(Head(run.queue).time, Direct, Head(run.queue).ours)
  /\ run' = IF run.raise THEN NoRun ELSE Skipped
  /\ UNCHANGED <<lastTimestamp, result, replays>>

\* The metrics, unless there is nothing to evaluate, and the result.
Finish ==
  /\ run.phase = "stepping" /\ run.queue = <<>>
  /\ result' = [total |-> Len(run.records) + run.skipped, executed |-> Len(run.records), skipped |-> run.skipped,
                passing |-> Passing(run.outputs, run.target)]
  /\ run' = NoRun
  /\ UNCHANGED <<vars, replays>>

-----------------------------------------------------------------------------
ReplayNext ==
  \/ run.phase = "none" /\ Next /\ UNCHANGED <<run, result, replays>>
  \/ FromProfile
  \/ \E first, last \in Without : FromRepository(first, last)
  \/ \E n \in 1..MaxSamples :
       \E times \in [1..n -> Time], ours \in [1..n -> BOOLEAN] : FromCsv(times, ours)
  \/ Begin \/ BeginFails \/ Dismiss
  \/ ReplayStep \/ ReplayStepFails \/ Finish

ReplaySpec == ReplayInit /\ [][ReplayNext]_replayVars

-----------------------------------------------------------------------------
(* Properties.                                                             *)

\* What is replayed in order is accepted in order: no replay of a profile or of
\* a range of the repository is refused for clock skew by a twin that was
\* reset, whatever the twin has been fed before and is fed by the replay itself.
OrderedReplaysAreNotSkewed ==
  run.phase = "stepping" /\ run.queue # <<>> /\ run.source # "csv" /\ run.reset =>
    ~Skewed(Head(run.queue).time)

\* engine.py:159-180: what a replay collects is one run of the twin: an output
\* for every record, of the same sample, the records of one initialization and
\* consecutive steps of it, the last one the latest of the twin, and those of
\* samples that name the system also in its state history, whichever samples
\* failed and were skipped in between.
ResultIsOneRun ==
  LET n == Len(run.records) IN
  n > 0 =>
    /\ Len(run.outputs) = n
    /\ run.records[n] = twin.latest
    /\ run.reset => run.records[1].step = 1
    /\ \A i \in 1..n : run.outputs[i].time = run.records[i].time
    /\ \A i \in 1..n - 1 :
         run.records[i + 1] = [run.records[i] EXCEPT !.step = @ + 1, !.time = run.records[i + 1].time]
    /\ Len(records) < MaxRecords =>
         \A i \in 1..n : run.outputs[i].ours => run.records[i] \in ToSet(records)

\* evaluator.py:99-187: the figures of error of what a replay has collected so
\* far bound one another, are perfect exactly when there is no error, and have
\* R-squared below 0 exactly when the mean of what was observed would have been
\* the better simulation, whatever was observed and simulated.
Variance(y) == Over(Spread(y, y), Len(y) * Len(y))
ErrorsFitEachOther ==
  LET pairs == Observed(run.outputs)
      m == SignalMetrics(pairs)
      y == [i \in DOMAIN pairs |-> pairs[i].observed]
  IN pairs # <<>> =>
       /\ AtMost(m.bias, m.mae) /\ AtMost(Minus(m.bias), m.mae)
       /\ AtMost(Over(m.mae[1] * m.mae[1], m.mae[2] * m.mae[2]), m.mse)
       /\ AtMost(m.mse, Whole(m.most * m.most))
       /\ AtMost(m.rSquared, Whole(1))
       /\ SameAs(m.rSquared, Whole(1)) <=> m.mse = Zero
       /\ Spread(y, y) > 0 => (Less(m.rSquared, Zero) <=> Less(Variance(y), m.mse))

\* profiles.py:171-190: resampling loses no point that falls on the grid, the
\* last one included, when the profile starts at 0.
ResamplingKeepsThePoints ==
  run.profile # <<>> /\ Head(run.profile).time = 0 =>
    \A p \in ToSet(run.profile) :
      run.interval = 0 \/ p.time % run.interval = 0 =>
        \E s \in ToSet(run.samples) : s.time = p.time /\ s.current = p.current

\* profiles.py:315-340 and 550-570: when the sampling interval divides every
\* phase of a schedule, the profile has at every sample the current of the phase
\* that is on then, and ends with the last phase; no cycle drifts.
ScheduleOf(r) == IF r.type = "PULSE" THEN PulseSchedule(r) ELSE DstSchedule(r)
StartOf(schedule, k) == Total([i \in 1..k - 1 |-> schedule[i][1]])
SchedulesAreKept ==
  run.request.type \in {"PULSE", "DST"} =>
    LET schedule == ScheduleOf(Defaulted(run.request))
        dt == run.request.dt
    IN (\A k \in DOMAIN schedule : schedule[k][1] % dt = 0) =>
         /\ Last(run.profile).time = StartOf(schedule, Len(schedule) + 1)
         /\ \A k \in DOMAIN schedule :
              LET from == StartOf(schedule, k) IN
              \A i \in from \div dt + 1 .. (from + schedule[k][1]) \div dt :
                run.profile[i] = Point((i - 1) * dt, schedule[k][2], NoVoltage)

\* Nothing is lost or shifted on the way from a request to the samples: a
\* resampled profile keeps its points, a sampled schedule its phases.
ProfilesAreKept == ResamplingKeepsThePoints /\ SchedulesAreKept
===============================================================================
