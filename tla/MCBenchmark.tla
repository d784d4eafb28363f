----------------------------- MODULE MCBenchmark ------------------------------
EXTENDS Benchmark

\* A frame with a voltage or without; the charge is always measured, the
\* temperature never is.
Volt(v) == [value |-> v, sigma |-> 1]
Frame(at, observed, volt) ==
  [at |-> at, observed |-> observed,
   refs |-> [voltage_v |-> volt, temperature_c |-> Missing, soc_fraction |-> [value |-> 50, sigma |-> 0]]]
Frames(times, observed, volts) ==
  [i \in DOMAIN times |-> Frame(times[i], observed[i], volts[i])]
Dataset(frames, events) ==
  [id |-> "lab", frames |-> frames, events |-> events, monotonic |-> TRUE, duplicates |-> FALSE]

Policy(mode, interpolation, resampling, tolerance, gap, observed) ==
  [mode |-> mode, interpolation |-> interpolation, resampling |-> resampling,
   tolerance |-> tolerance, gap |-> gap, observed |-> observed,
   rejectsRetrograde |-> TRUE, duplicates |-> FALSE]
Plain == Policy("CAUSAL_STREAMING", "NONE", "CAUSAL_NEAREST_PAST", 1, 2, FALSE)

Bucket(name, min, max) == [name |-> name, min |-> min, max |-> max]
Contexts ==
  [rest |-> 0,
   buckets |->
     [SOC |-> <<Bucket("LOW_SOC", 0, 20), Bucket("MID_SOC", 20, 80), Bucket("HIGH_SOC", 80, 100)>>,
      TEMPERATURE |-> <<Bucket("COLD_AMBIENT", -50, 10), Bucket("ROOM_TEMPERATURE", 10, 35)>>,
      CURRENT |-> <<Bucket("REST", 0, 0), Bucket("LOW_RATE", 0, 1), Bucket("MEDIUM_RATE", 1, 2)>>,
      VOLTAGE |-> <<>>]]

Sample(current, volt, soc) ==
  [current |-> current, voltage_v |-> volt, soc_fraction |-> soc, temperature_c |-> 10]
NoTargets == [s \in Signals |-> Missing]

Exam(dataset, answers, policy, reports) ==
  [dataset |-> dataset, answers |-> answers, policy |-> policy, reports |-> reports,
   contexts |-> Contexts, targets |-> NoTargets, precision |-> Missing, recall |-> Missing,
   evaluateSignals |-> TRUE, evaluateDiagnostics |-> TRUE, maxFrames |-> 4]
Steady == [i \in 1..3 |-> Sample(1, 3, 50)]
Unknown == [i \in 1..3 |-> Missing]
RoutineExam == Exam(Dataset(Frames(<<0, 1, 2>>, Unknown, [i \in 1..3 |-> Volt(3)]), <<>>),
                    Steady, Plain, <<>>)

\* Where the voltage was measured, when, and how it is paired.
Volts(present) == [i \in 1..3 |-> IF i \in present THEN Volt(2 * i) ELSE Missing]
Policies ==
  {Policy(m, i, r, t, g, FALSE) :
     m \in Modes, i \in Interpolations, r \in Resamplings, t \in {0, 1, 2}, g \in {1, 3}}
Pairings ==
  {Exam(Dataset(Frames(times, Unknown, Volts(present)), <<>>), Steady, p, <<>>) :
     times \in {<<0, 1, 3>>, <<1, 3, 4>>}, present \in SUBSET (1..3), p \in Policies}
  \union {Exam(Dataset(Frames(<<0, 2, 3>>, seen, Volts(1..3)), <<>>), Steady,
               [p EXCEPT !.observed = TRUE], <<>>) :
            seen \in {<<1, 3, 3>>, <<Missing, 1, 2>>, <<3, 0, Missing>>}, p \in Policies}
  \union {Exam([Dataset(Frames(times, Unknown, Volts(1..3)), <<>>)
                  EXCEPT !.monotonic = FALSE], Steady,
               [Plain EXCEPT !.mode = m, !.duplicates = d, !.rejectsRetrograde = r], <<>>) :
            times \in {<<2, 1, 2>>, <<1, 1, 3>>, <<3, 1, 2>>}, m \in Modes,
            d \in BOOLEAN, r \in BOOLEAN}

\* What the twin answers, in which operating context.
Kinds == {Sample(-2, 3, 0), Sample(0, 4, 20), Sample(1, 5, 80), Sample(2, 3, 30)}
Scorings ==
  {[Exam(Dataset(Frames(<<0, 1, 2>>, Unknown, [i \in 1..3 |-> Volt(volts[i])]), <<>>),
         answers, Plain, <<>>) EXCEPT !.targets.voltage_v = target] :
     volts \in {<<3, 3, 3>>, <<3, 4, 6>>, <<5, 3, 4>>}, answers \in [1..3 -> Kinds],
     target \in {Missing, 1}}
  \union {[RoutineExam EXCEPT !.evaluateSignals = FALSE], [RoutineExam EXCEPT !.maxFrames = 2],
          Exam(Dataset(<<>>, <<>>), <<>>, Plain, <<>>)}

\* What the twin diagnoses, and what was injected.
Told(state, hypothesis) == [state |-> state, hypothesis |-> hypothesis]
Diagnoses == {Told("NOMINAL", Missing), Told("SUSPECTED", "drift"), Told("DIAGNOSED", "growth"),
              Told("DATA_QUALITY_FAILED", Missing)}
Injected(start, end, expected) == [start |-> start, end |-> end, expected |-> expected]
Injections ==
  {<<Injected(s, e, h)>> : s \in {1, 2}, e \in {2, Missing}, h \in {"growth", Missing}}
  \union {<<Injected(0, 0, "growth")>>, <<Injected(1, 1, "drift"), Injected(2, Missing, "growth")>>,
          <<Injected(1, 2, "drift"), Injected(2, 3, "growth")>>}
Diagnosings ==
  {[Exam(Dataset(Frames(<<0, 1, 2>>, Unknown, Unknown), events), Steady, Plain,
         [i \in 1..n |-> [at |-> i - 1, state |-> told[i].state, hypothesis |-> told[i].hypothesis]])
      EXCEPT !.evaluateSignals = FALSE, !.precision = least, !.recall = least] :
     events \in Injections, told \in [1..3 -> Diagnoses], n \in {0, 3}, least \in {Missing, <<1, 2>>}}

AllExams == {RoutineExam} \union Pairings \union Scorings \union Diagnosings

Symmetric == Permutations(Systems)
===============================================================================
