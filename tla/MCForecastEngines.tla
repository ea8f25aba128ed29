------------------------- MODULE MCForecastEngines -------------------------
(***************************************************************************)
(* A generator of 16 words and a few histories: with weeks without a        *)
(* delivery, with one sample, and one that never delivers anything.         *)
(***************************************************************************)
EXTENDS ForecastEngines

MCMix == [s \in Word |-> (7 * s + 3 * (s \div 4) + 5) % WordSize]

Histories == {UsableValues(<<0, 2, 1>>, zero) : zero \in BOOLEAN}
             \cup {<<3, 0, 0, 1, 0>>, <<0, 0>>}

MCCommands ==
  [seed: {0, 3, 8, 13, 15}, mode: {"backlog_to_weeks"}, usable: Histories, target: {1, 3, 4}]
  \cup [seed: {0, 8, 15}, mode: {"weeks_to_items"}, usable: Histories, target: {1, 2, 3}]
=============================================================================
