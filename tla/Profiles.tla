------------------------------- MODULE Profiles -------------------------------
(***************************************************************************)
(* Drive cycle profiles, replay/profiles.py: how they are generated, and   *)
(* how they become the samples a replay feeds to a twin.                   *)
(*                                                                         *)
(* Times are whole seconds, currents are fractions of an ampere.  The      *)
(* ambient temperature of a point is treated like its current, and its     *)
(* state of charge like its voltage; they are left out.  The sinusoids of  *)
(* the synthetic cycles are a parameter: a level, in hundredths of the     *)
(* peak, for every sample.                                                 *)
(***************************************************************************)
EXTENDS Fractions

\* A point without a voltage has voltage 0, which the code refuses as one.
NoVoltage == Zero
Point(t, c, v) == [time |-> t, current |-> c, voltage |-> v]

\* What ProfilePoint and DriveCycleProfile accept.  InvalidProfileError is the
\* empty sequence, which is none.
ProfilePoint == [time: Nat, current: InLowestTerms, voltage: InLowestTerms]
IsProfile(points) ==
  /\ points \in Seq(ProfilePoint)
  /\ points # <<>>
  /\ \A i \in 2..Len(points) : points[i - 1].time < points[i].time
Refused == <<>>

Duration(points) == Last(points).time - Head(points).time

-----------------------------------------------------------------------------
(* Resampling.                                                             *)

\* Faulty variant: while before the end.
OpenGrid(end, dt) == [i \in 1..(end + dt - 1) \div dt |-> (i - 1) * dt]

\* 0, dt, 2 dt, ... while not after the end.
Grid(end, dt) == [i \in 1..(end \div dt) + 1 |-> (i - 1) * dt]

SampleTimes(points, dt) == Grid(Duration(points), dt)

\* From a to b, a part of n / d of the way.
Between(a, b, n, d) == Plus(a, Over(n * (b[1] * a[2] - a[1] * b[2]), d * a[2] * b[2]))

\* _interpolate_at(): what is outside is what is nearest inside, and a voltage
\* needs one on both sides.  The search ends at the last point that is not later.
InterpolateAt(points, t) ==
  IF t <= Head(points).time THEN Head(points)
  ELSE IF t >= Last(points).time THEN Last(points)
  ELSE LET high == CHOOSE i \in 1..Len(points) - 1 :
                     points[i].time <= t /\ t < points[i + 1].time
           p == points[high]
           q == points[high + 1]
           At(a, b) == Between(a, b, t - p.time, q.time - p.time)
       IN Point(t, At(p.current, q.current),
                IF NoVoltage \in {p.voltage, q.voltage} THEN NoVoltage
                ELSE At(p.voltage, q.voltage))

\* to_snapshots(): an interval of 0 is None, the points as they are.
ToSnapshots(points, interval) ==
  IF interval = 0 THEN points
  ELSE [i \in DOMAIN SampleTimes(points, interval) |->
         LET t == SampleTimes(points, interval)[i]
         IN [InterpolateAt(points, t) EXCEPT !.time = t]]

-----------------------------------------------------------------------------
(* Generators.  None of them measures: their points have no voltage.       *)

Sampled(currents, dt) ==
  [i \in DOMAIN currents |-> Point((i - 1) * dt, currents[i], NoVoltage)]

ConstantCurrent(duration, current, dt) ==
  IF duration <= 0 \/ dt <= 0 THEN Refused
  ELSE Sampled([i \in DOMAIN Grid(duration, dt) |-> Whole(current)], dt)

\* Faulty variant: while not after the end of the phase.
HeldTooLong(duration, dt) == duration \div dt + 1

\* Samples of a phase: while before its end, from where the last phase left off.
Held(duration, dt) == (duration + dt - 1) \div dt

\* A schedule is a sequence of phases <<duration, current>>.
Follow(schedule, dt) ==
  FlattenSeq([k \in DOMAIN schedule |->
    [i \in 1..Held(schedule[k][1], dt) |-> schedule[k][2]]])
Repeated(n, schedule) == FlattenSeq([i \in 1..n |-> schedule])

PulseSchedule(r) ==
  Repeated(r.cycles, <<<<r.pulse, Whole(r.peak)>>, <<r.rest, Whole(r.restCurrent)>>>>)

PulseDischarge(r) ==
  IF r.pulse <= 0 \/ r.rest <= 0 \/ r.cycles < 1 \/ r.dt <= 0 THEN Refused
  ELSE Sampled(Append(Follow(PulseSchedule(r), r.dt), Whole(r.restCurrent)), r.dt)

\* The steps of the dynamic stress test: seconds, eighths of the peak.
DstSteps == <<<<16, 1>>, <<28, 2>>, <<12, 4>>, <<8, 8>>, <<16, 0>>,
              <<24, -4>>, <<36, 2>>, <<8, 6>>, <<32, 1>>, <<180, 0>>>>

DstSchedule(r) ==
  Repeated(r.cycles, [k \in DOMAIN DstSteps |->
    LET part == DstSteps[k][2] IN
    <<DstSteps[k][1], IF part >= 0 THEN Over(part * r.peak, 8) ELSE Over(-part * r.regen, 8)>>])

Dst(r) ==
  IF r.peak <= 0 \/ r.regen >= 0 \/ r.cycles < 1 \/ r.dt <= 0 THEN Refused
  ELSE Sampled(Append(Follow(DstSchedule(r), r.dt), Zero), r.dt)

\* A level that is no more than the peak, and no more regeneration than least.
Limited(level, least, peak) ==
  Over((IF level < least THEN least ELSE IF level > 100 THEN 100 ELSE level) * peak, 100)

\* The urban phase has its stops: a quarter of every minute.
Idle(t, scale) == 10 * t < 3 * scale /\ t % 60 < 15
Spike(t, scale) ==
  \/ 15 * scale < 100 * t /\ 100 * t < 25 * scale
  \/ 65 * scale < 100 * t /\ 100 * t < 75 * scale

Synthetic(r, Level(_, _), least) ==
  IF r.peak <= 0 \/ r.scale <= 0 \/ r.dt <= 0 THEN Refused
  ELSE LET times == Grid(r.scale, r.dt) IN
       Sampled([i \in DOMAIN times |-> Limited(Level(times[i], r.wave[i]), least, r.peak)], r.dt)

WltpClass3(r) == Synthetic(r, LAMBDA t, w : IF Idle(t, r.scale) THEN 0 ELSE w, -35)
Us06(r) == Synthetic(r, LAMBDA t, w : IF Spike(t, r.scale) THEN w + 45 ELSE w, -45)
===============================================================================
