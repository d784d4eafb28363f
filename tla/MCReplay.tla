------------------------------- MODULE MCReplay -------------------------------
EXTENDS Replay

Payload(type, peak, scale, cycles, dt) ==
  [type |-> type, peak |-> peak, scale |-> scale, cycles |-> cycles, dt |-> dt,
   pulse |-> 10, rest |-> 20, restCurrent |-> 0, regen |-> -20, wave |-> <<>>]
Waved(r, levels) ==
  {[r EXCEPT !.wave = w] : w \in [1..Defaulted(r).scale \div r.dt + 1 -> levels]}

\* Intervals that divide the phases and intervals that do not.
Asked ==
  {Payload("PULSE", 7, 0, 2, dt) : dt \in {3, 5, 10}}
  \union {Payload("PULSE", 0, 0, 0, 4), Payload("DST", 0, 0, 1, 4), Payload("DST", 30, 0, 0, 60)}
  \union {Payload("CC", peak, 10, 0, dt) : peak \in {0, -3}, dt \in {4, 5, 12}}
  \union Waved(Payload("WLTP", 20, 100, 0, 50), {-60, 30, 120})
  \union Waved(Payload("US06", 0, 0, 0, 300), {-60, 80})
  \union {Payload("WLTP", -1, 0, 0, 600)}

Given ==
  {<<Point(0, Whole(1), Whole(3)), Point(2, Whole(4), Whole(4)), Point(3, Whole(-2), NoVoltage)>>,
   <<Point(1, Whole(0), Whole(3)), Point(4, Whole(3), Whole(4))>>,
   <<Point(2, Whole(5), NoVoltage)>>,
   <<Point(1, Whole(0), NoVoltage), Point(1, Whole(2), NoVoltage)>>}

\* What is observed varies where it is not the state of the twin that does.
Voltages == [profile |-> {3, 5}, repository |-> {4}, csv |-> {4}]
===============================================================================
