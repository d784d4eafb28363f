------------------------------ MODULE MCPrognosis ------------------------------
EXTENDS Prognosis

\* A rate of a fifth is flat, and one of a half is lost when it is rounded.
Shallow == <<1, 5>>
Faint == <<1, 2>>

\* Records of the history, from what the estimator and the metadata say.
Rec(t, soh, mohm, meta) ==
  [t |-> t, model |-> Absent, meta |-> meta,
   est |-> [soh |-> soh, mohm |-> mohm, temp |-> 25, soc |-> 60, custom |-> << >>]]
Recs(times, sohs, mohms, metas) ==
  {Rec(t, s, m, d) : t \in times, s \in sohs, m \in mohms, d \in metas}
Bare == << >>
Cycle(n) == [cycle |-> n]
Odd(t) == [Rec(t, Absent, 30, [soh_fraction |-> Junk, cycle |-> NaN]) EXCEPT
             !.model = [soh |-> 85, temp |-> 20, soc |-> 50],
             !.est.custom = [resistance_growth_ratio |-> 120, usable_capacity_ah |-> 9]]
Sick(t) == [Rec(t, 90, NaN, [throughput_ah |-> 5, throughput_wh |-> 9]) EXCEPT !.est.temp = NaN]
Blank(t) == [t |-> t, model |-> Absent, est |-> Absent, meta |-> [internal_resistance_mohm |-> 25]]

\* Observations of a builder, of a resistance, a baseline and a throughput.
Built(at, r0, baseline, sigma, discharge) ==
  Obs(at, [r0 |-> r0, capacity |-> 110 - r0, discharge |-> discharge, charge |-> 3 * at,
           efc |-> 2 * at],
      at, [Nothing(Contexts) EXCEPT !.cell = 20 + at, !.current = 4 - at, !.voltage = 4],
      baseline, sigma)

Criterion(id, alpha, type, threshold, op, unit) ==
  [id |-> id, alpha |-> alpha, type |-> type, threshold |-> threshold, op |-> op,
   baseline |-> 20, unit |-> unit]
Fade == Criterion("fade", 2, "CAPACITY_RETENTION_THRESHOLD", 80, "LESS_THAN_OR_EQUAL", "ratio")
Steep == [Fade EXCEPT !.id = "steep", !.alpha = 3, !.threshold = 90, !.op = "LESS_THAN"]
Capacity == Criterion("capacity", 1, "ABSOLUTE_CAPACITY_THRESHOLD", 70, "LESS_THAN_OR_EQUAL", "Ah")
Growth == Criterion("growth", 4, "RESISTANCE_GROWTH_RATIO_THRESHOLD", 150,
                    "GREATER_THAN_OR_EQUAL", "ratio")
Ohms == Criterion("ohms", 5, "ABSOLUTE_RESISTANCE_THRESHOLD", 40, "GREATER_THAN_OR_EQUAL", "Ohm")
Power == Criterion("power", 6, "PEAK_POWER_THRESHOLD", 0, "LESS_THAN", "W")
Excess == [Fade EXCEPT !.id = "excess", !.alpha = 7, !.threshold = 200]

Unbound == [statuses |-> Absent, forbidden |-> Absent, usable |-> FALSE, quality |-> FALSE,
        eol |-> Absent, uncertainty |-> Absent, least |-> Absent, most |-> Absent, rul |-> Absent]
Within(n) == [domain |-> Absent, unit |-> Absent, value |-> n, op |-> "LESS_THAN_OR_EQUAL"]
Rule(id, rank, condition, verdict) ==
  [id |-> id, rank |-> rank, condition |-> condition, verdict |-> verdict]
Policy(rules, domain) ==
  [rules |-> rules, domain |-> domain,
   default |-> Verdict("NO_ACTION", "INFORMATIONAL", "NON_ACTIONABLE")]
Reached == Rule("reached", 1, [Unbound EXCEPT !.eol = {"ALREADY_REACHED"}, !.forbidden = {"OUT_OF_DOMAIN"}],
                Verdict("EOL_REACHED", "CRITICAL", "MAINTENANCE_RECOMMENDATION"))
Soon == Rule("soon", 3, [Unbound EXCEPT !.usable = TRUE, !.quality = TRUE, !.rul = Within(2)],
             Verdict("APPROACHING_EOL", "HIGH", "ACTIONABLE"))
Unsure == Rule("unsure", 2, [Unbound EXCEPT !.statuses = UsableStatuses, !.most = "WEAK"],
               Verdict("INCREASE_MONITORING", "LOW", "ADVISORY_ONLY"))
Trusted == Rule("trusted", 4, [Unbound EXCEPT !.uncertainty = Sized, !.least = "MODERATE"],
                Verdict("PLAN_MAINTENANCE", "MEDIUM", "ACTIONABLE"))
Careful == Policy(<<Soon, Reached, Unsure>>, Absent)
Daily == Policy(<<Reached, Trusted>>, "TIME")

Config(domain, cutoff, strategy) ==
  [minObs |-> 2, ols |-> TRUE, domain |-> domain, cutoff |-> cutoff,
   evidence |-> [moderate |-> 3, strong |-> 4, veryStrong |-> 5, minimum |-> FALSE],
   independent |-> TRUE, interval |-> FALSE, level |-> TRUE,
   strategy |-> strategy, fallback |-> FALSE, features |-> TRUE]

One == <<[key |-> "t1"]>>
JobOf(form, parts, portfolio, policies, config, alphabet, depth) ==
  [form |-> form, mapping |-> FALSE, parts |-> parts, portfolio |-> portfolio,
   policies |-> policies, config |-> config, alphabet |-> alphabet, depth |-> depth]

MCJobs ==
  [online |-> JobOf("history", One, <<Growth, Steep, Fade, Power>>, [default |-> Careful],
     Config(Absent, Absent, "SHORTEST_RUL"),
     Recs(0..2, {95, 90, 78}, {25}, {Bare}) \union {Rec(1, 88, 31, Cycle(4)), Rec(3, 88, 20, Cycle(4))}
       \union {Rec(t, 88, 25, [resistance_growth_ratio |-> 120 + 10 * t]) : t \in {1, 3}}
       \union {Odd(2), Blank(3)}, 3),
   trend |-> JobOf("history", One, <<Fade, Ohms>>, [default |-> Daily],
     [Config("TIME", Absent, "SHORTEST_RUL") EXCEPT !.evidence.minimum = TRUE],
     Recs({0, 1, 12}, {96, 90}, {25}, {Bare}) \union Recs({2}, {92}, {32}, {Bare}), 4),
   cutoff |-> JobOf("history", One, <<Fade, Growth>>, [default |-> Careful, fade |-> Daily],
     Config("TIME", 1, "HIGHEST_DECISION_PRIORITY"),
     Recs(0..2, {95, 78}, {25}, {Bare, Cycle(2)}) \union {Sick(3), Odd(3)}, 3),
   named |-> JobOf("quantities",
     <<[key |-> "t1", quantity |-> "retention", domain |-> "TIME"],
       [key |-> "t2", quantity |-> "r0", domain |-> "TIME"]>>,
     <<Growth, Ohms, Fade>>, [default |-> Daily],
     [Config("TIME", Absent, "SHORTEST_RUL") EXCEPT !.ols = FALSE, !.fallback = TRUE],
     Recs(0..2, {95, 80}, {25, 41}, {Bare}) \union {Odd(1), Blank(2)}, 3),
   mapped |-> [JobOf("quantities",
     <<[key |-> "steep", quantity |-> "retention", domain |-> "CYCLE"],
       [key |-> "aside", quantity |-> "retention", domain |-> "TIME"]>>,
     <<Ohms, Fade, Steep>>, [fade |-> Careful, steep |-> Careful, ohms |-> Daily],
     Config("CYCLE", Absent, "NEAREST_EOL_DISTANCE"),
     {Rec(t, s, 25, Cycle(2 * t)) : t \in 0..2, s \in {95, 90, 78}}
       \union {Rec(3, 88, 25, Cycle(1)), Odd(1)}, 3) EXCEPT !.mapping = TRUE],
   mixed |-> JobOf("quantities",
     <<[key |-> "fade", quantity |-> "retention", domain |-> "CYCLE"],
       [key |-> "t2", quantity |-> "capacity", domain |-> "TIME"]>>,
     <<Capacity, Fade, Excess>>, [default |-> Careful],
     Config(Absent, Absent, "SHORTEST_RUL"),
     {Rec(t, s, 25, Cycle(t) @@ [capacity_ah |-> s - 10]) : t \in 0..2, s \in {95, 90, 80}}, 3),
   built |-> JobOf("observations", <<[key |-> "t1", type |-> "MULTIVARIATE", sorted |-> FALSE, fields |-> Fields]>>,
     <<Growth, Capacity, Ohms>>, [default |-> Daily],
     [Config("TIME", Absent, "SHORTEST_RUL") EXCEPT !.independent = FALSE],
     {Built(at, r0, 25, sigma, at) : at \in 0..2, r0 \in {25, 39}, sigma \in {"none", "relative"}}
       \union {Built(3, 30, Absent, "standard_df", 4), Built(3, 35, 25, Absent, 4)}, 3),
   throughput |-> JobOf("observations", <<[key |-> "t1", type |-> "INTERNAL_RESISTANCE", sorted |-> TRUE, fields |-> Fields]>>,
     <<Growth, Ohms>>, [default |-> Careful],
     [Config("AMPERE_HOUR_THROUGHPUT", Absent, "EXPLICIT_POLICY_ORDER") EXCEPT
        !.ols = FALSE, !.minObs = 1, !.features = FALSE],
     {Built(at, r0, Absent, sigma, d) : at \in 0..1, r0 \in {25, 31, 40}, sigma \in {"standard", "named"},
                                        d \in {Absent, 0, 2}}, 2),
   sensors |-> JobOf("observations",
     <<[key |-> "t1", type |-> "CAPACITY", sorted |-> TRUE, fields |-> {"capacity", "efc"}],
       [key |-> "t2", type |-> "INTERNAL_RESISTANCE", sorted |-> TRUE, fields |-> {"r0"}]>>,
     <<Ohms, Capacity>>, [capacity |-> Careful, default |-> Daily],
     Config(Absent, Absent, "SHORTEST_RUL"),
     {Built(at, r0, Absent, "none", at) : at \in 0..2, r0 \in {25, 31, 41}}, 3),
   orphan |-> JobOf("history", One, <<Fade, Growth>>, [fade |-> Daily],
     Config(Absent, Absent, "SHORTEST_RUL"), {Blank(0)}, 1)]

\* A cutoff, and a domain that is resolved from the history.
LeakJobs ==
  [leak |-> JobOf("history", One, <<Fade>>, [default |-> Careful],
     Config(Absent, 1, "SHORTEST_RUL"),
     Recs(0..3, {95, 90, 85}, {25}, {Bare, Cycle(2), Cycle(3)}), 4)]
==============================================================================
