------------------------------ MODULE Trajectory ------------------------------
(***************************************************************************)
(* What prognosis is about: degradation trajectories, and the adapter      *)
(* that makes one of the twin's state history.                             *)
(*                                                                         *)
(* A quantity is an integer in a unit of its own (resistances in milliohm  *)
(* under every key, time in days), or Absent.  A record of the history     *)
(* holds what the model, the estimator and the metadata of a twin state    *)
(* say; a value of the metadata may be Junk, what float() refuses, and any *)
(* value may be NaN.                                                       *)
(***************************************************************************)
EXTENDS Selection, SequencesExt

CONSTANTS Absent, NaN, Junk

ASSUME MarksAreDistinct == Absent # NaN /\ Absent # Junk /\ NaN # Junk
ASSUME MarksAreNoNumbers == \A m \in {Absent, NaN, Junk} : m \notin Int /\ m \notin Int \X Int

Quantities == {"capacity", "retention", "r0", "ratio"}
Axes == {"efc", "charge", "discharge", "energy"}
Contexts == {"cell", "ambient", "current", "soc", "voltage"}
Fields == Quantities \union Axes

TypeOfQuantity == [capacity |-> "CAPACITY", retention |-> "CAPACITY_RETENTION",
                   r0 |-> "INTERNAL_RESISTANCE", ratio |-> "RESISTANCE_GROWTH_RATIO"]

\* An observation: its time, its fields, its age, its operating context, the
\* baseline resistance of its metadata, and what its provenance says of the
\* uncertainty of its measurement: "none" when that is nothing, and Absent when
\* its metadata has no provenance.
Nothing(names) == [n \in names |-> Absent]
Obs(at, fields, age, context, baseline, sigma) ==
  [at |-> at, of |-> [f \in Fields |-> IF f \in DOMAIN fields THEN fields[f] ELSE Absent],
   age |-> age, context |-> context, baseline |-> baseline, sigma |-> sigma]

\* What is observed is finite and has a time; a baseline is positive.
IsObservation(o) ==
  /\ o.at \in Nat /\ o.of \in [Fields -> Int \union {Absent}]
  /\ o.baseline \in (Nat \ {0}) \union {Absent}

\* A trajectory: a quantity type and its observations in order.
EndTime(traj) == IF traj.obs = <<>> THEN 0 ELSE Last(traj.obs).at
Duration(traj) == IF Len(traj.obs) < 2 THEN 0 ELSE Last(traj.obs).at - Head(traj.obs).at

Ordering(traj) ==
  LET Steps == 2..Len(traj.obs)
      Prev(i) == traj.obs[i - 1].at
      At(i) == traj.obs[i].at IN
  CASE Len(traj.obs) = 0 -> "EMPTY"
    [] Len(traj.obs) = 1 -> "SINGLE_POINT"
    [] OTHER -> IF \E i \in Steps : At(i) < Prev(i) THEN "RETROGRADE_DETECTED"
                ELSE IF \E i \in Steps : At(i) = Prev(i) THEN "MONOTONIC_WITH_DUPLICATES"
                ELSE "STRICTLY_MONOTONIC"

\* The observations that have a field, and its values.
With(traj, field) == Chosen(traj.obs, LAMBDA o : o.of[field] # Absent)
Series(traj, field) ==
  LET s == With(traj, field) IN [i \in DOMAIN s |-> <<s[i].at, s[i].of[field]>>]

\* Faulty variant: the records are left as they came.
Unsorted(obs) == obs

\* A stable sort by time, as list.sort is.
SortedByTime(obs) == SortedBy(obs, LAMBDA o, p : o.at < p.at)

Build(type, obs, sorted) ==
  [type |-> type, obs |-> IF sorted THEN SortedByTime(obs) ELSE obs]

-----------------------------------------------------------------------------
(* The adapter.  The first source that is there is the one that counts: a  *)
(* value of the metadata that does not parse hides the sources after it.   *)

FirstOf(sources) ==
  LET first == SelectInSeq(sources, LAMBDA v : v # Absent) IN
  IF first = 0 \/ sources[first] = Junk THEN Absent ELSE sources[first]

Meta(r, key) == IF key \in DOMAIN r.meta THEN r.meta[key] ELSE Absent
Custom(r, key) ==
  IF r.est # Absent /\ key \in DOMAIN r.est.custom THEN r.est.custom[key] ELSE Absent
EstSoh(r) == IF r.est = Absent THEN Absent ELSE r.est.soh
EstMohm(r) == IF r.est = Absent THEN Absent ELSE r.est.mohm
ModelSoh(r) == IF r.model = Absent THEN Absent ELSE r.model.soh

IsRecord(r) ==
  LET IsValue(v) == v \in Int \union {Absent, NaN, Junk} IN
  /\ r.t \in Nat
  /\ \A key \in DOMAIN r.meta : IsValue(r.meta[key])
  /\ r.model = Absent \/ IsValue(r.model.soh)
  /\ r.est = Absent \/ /\ IsValue(r.est.soh) /\ IsValue(r.est.mohm)
                       /\ \A key \in DOMAIN r.est.custom : IsValue(r.est.custom[key])

\* The horizon channels, the same in both extractions.
CycleOf(r) == FirstOf(<<Meta(r, "cycle"), Custom(r, "cycle")>>)
AmpereHoursOf(r) == FirstOf(<<Meta(r, "throughput_ah"), Custom(r, "throughput_ah")>>)
WattHoursOf(r) == FirstOf(<<Meta(r, "throughput_wh"), Custom(r, "throughput_wh")>>)

RetentionOf(r) == FirstOf(<<EstSoh(r), Meta(r, "soh_fraction"), ModelSoh(r)>>)
RatioOf(r) == FirstOf(<<Custom(r, "resistance_growth_ratio"), Meta(r, "resistance_growth_ratio")>>)

\* Capacity and resistance have more sources when they are asked for by name.
ResistanceOf(r) ==
  FirstOf(<<EstMohm(r), Custom(r, "internal_resistance_ohm"),
            Meta(r, "internal_resistance_mohm"), Meta(r, "internal_resistance_ohm")>>)
CapacityOf(r) ==
  FirstOf(<<Custom(r, "usable_capacity_ah"), Custom(r, "capacity_ah"),
            Meta(r, "usable_capacity_ah"), Meta(r, "capacity_ah")>>)
ResistanceAmongAll(r) == FirstOf(<<EstMohm(r), Meta(r, "internal_resistance_mohm")>>)
CapacityAmongAll(r) ==
  FirstOf(<<Custom(r, "usable_capacity_ah"), Meta(r, "usable_capacity_ah")>>)

\* The temperature and the charge of the model, else of the estimator.
ContextOf(r) ==
  LET source == IF r.model # Absent THEN r.model ELSE r.est IN
  [Nothing(Contexts) EXCEPT !.cell = IF source = Absent THEN Absent ELSE source.temp,
                            !.soc = IF source = Absent THEN Absent ELSE source.soc]
FiniteContext(r) == NaN \notin {ContextOf(r).cell, ContextOf(r).soc}

\* The age of a record is relative to the first one to arrive.
AgeOf(records, r) == r.t - Head(records).t
Adapt(records, type, Fieldwise(_)) ==
  [type |-> type,
   obs |-> SortedByTime([i \in DOMAIN records |->
             Obs(records[i].t, Fieldwise(records[i]), AgeOf(records, records[i]),
                 ContextOf(records[i]), Absent, Absent)])]

QuantityOf(r, quantity) ==
  CASE quantity = "retention" -> RetentionOf(r)
    [] quantity = "r0" -> ResistanceOf(r)
    [] quantity = "capacity" -> CapacityOf(r)
    [] quantity = "ratio" -> RatioOf(r)

DomainOf(r, domain) ==
  CASE domain = "CYCLE" -> CycleOf(r)
    [] domain = "TIME" -> r.t
    [] domain = "AMPERE_HOUR_THROUGHPUT" -> AmpereHoursOf(r)
    [] domain = "WATT_HOUR_THROUGHPUT" -> WattHoursOf(r)

\* One quantity over one domain: a record that lacks either is refused, and
\* so is a value that is not finite.
Extractable(records, quantity, domain) ==
  /\ records # <<>>
  /\ \A i \in DOMAIN records : LET r == records[i] IN
       /\ FiniteContext(r)
       /\ Absent \notin {QuantityOf(r, quantity), DomainOf(r, domain)}
       /\ NaN \notin {QuantityOf(r, quantity), CycleOf(r), AmpereHoursOf(r), WattHoursOf(r)}
Extract(records, quantity) ==
  Adapt(records, TypeOfQuantity[quantity],
        LAMBDA r : [f \in {quantity, "efc", "discharge", "energy"} |->
                      CASE f = quantity -> QuantityOf(r, quantity)
                        [] f = "efc" -> CycleOf(r)
                        [] f = "discharge" -> AmpereHoursOf(r)
                        [] f = "energy" -> WattHoursOf(r)])

\* Every channel at once: what is not there, or not finite, is left out.
Finite(v) == IF v = NaN THEN Absent ELSE v
MultivariateExtractable(records) ==
  records # <<>> /\ \A i \in DOMAIN records : FiniteContext(records[i])
ExtractMultivariate(records) ==
  Adapt(records, "MULTIVARIATE",
        LAMBDA r : [retention |-> Finite(RetentionOf(r)), capacity |-> Finite(CapacityAmongAll(r)),
                    r0 |-> Finite(ResistanceAmongAll(r)), ratio |-> Finite(RatioOf(r)),
                    efc |-> Finite(CycleOf(r)), discharge |-> Finite(AmpereHoursOf(r)),
                    energy |-> Finite(WattHoursOf(r))])
===============================================================================
