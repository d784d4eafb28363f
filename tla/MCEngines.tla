------------------------------- MODULE MCEngines -------------------------------
EXTENDS Engines

Quiet == [invalid |-> FALSE, voltage |-> TRUE, current |-> 10, temperature |-> None,
          ambient |-> FALSE, spread |-> None, vres |-> 5, tres |-> None, socGap |-> None,
          cliff |-> FALSE, soh |-> None]
Broken == [Quiet EXCEPT !.invalid = TRUE]
Deaf == [Quiet EXCEPT !.voltage = FALSE, !.vres = None]
Blind == [Quiet EXCEPT !.current = None]
Resting == [Quiet EXCEPT !.current = 0]
Loaded == [Quiet EXCEPT !.current = 14]
Far == [Quiet EXCEPT !.vres = 100]

MCFittings ==
  {[engines |-> {"detector"}, steps |-> 5,
    scenes |-> {Quiet, Deaf, [Quiet EXCEPT !.vres = -60], [Quiet EXCEPT !.vres = 160],
                [Quiet EXCEPT !.temperature = 66, !.tres = 9, !.spread = 90],
                [Quiet EXCEPT !.temperature = 60, !.tres = 4, !.socGap = 6, !.vres = 40]}],
   [engines |-> {"calibration"}, steps |-> 4,
    scenes |-> {Quiet, Loaded, Resting, Deaf, Blind, Broken, [Far EXCEPT !.vres = 160],
                [Quiet EXCEPT !.cliff = TRUE]}],
   [engines |-> {"validation"}, steps |-> 5,
    scenes |-> {Quiet, Loaded, Far, Deaf, Blind, Broken}],
   [engines |-> {"diagnostics"}, steps |-> 5,
    scenes |-> {[Quiet EXCEPT !.temperature = 25], Resting, [Deaf EXCEPT !.temperature = 26],
                [Deaf EXCEPT !.current = None, !.spread = 10],
                [Deaf EXCEPT !.current = None, !.soh = 75, !.spread = 60],
                Broken, [Quiet EXCEPT !.current = -14]}],
   [engines |-> EngineNames, steps |-> 3, scenes |-> {Quiet, [Far EXCEPT !.current = 14], Deaf, Broken}]}

\* A model that follows a spread pack badly.
DegradedFittings ==
  {[engines |-> {"validation", "diagnostics"}, steps |-> 6,
    scenes |-> {[Far EXCEPT !.spread = 60], [Far EXCEPT !.spread = 60, !.current = 14]}]}
==============================================================================
