------------------------------- MODULE McaPrng -------------------------------
(***************************************************************************)
(* What both forecasting engines share: the command they receive and the   *)
(* random stream mca-prng-v1.  The stream is a Weyl sequence modulo         *)
(* WordSize (2^32 in the code) whose states go through a finalizer; the     *)
(* finalizer (a few multiplications and shifts) is the constant Mix.        *)
(***************************************************************************)
EXTENDS Integers, Sequences

CONSTANTS
  WordSize,        \* number of values of a word of the generator
  StateIncrement,  \* the increment of the sequence
  Mix,             \* the finalizer, from words to words
  Horizon,         \* SIMULATION_HORIZON_WEEKS_MAX
  NSims,           \* n_sims
  Commands         \* the commands under study

Word == 0 .. WordSize - 1

Modes == {"backlog_to_weeks", "weeks_to_items"}

\* A command with the throughput samples already stripped of the weeks it does
\* not use; target is the backlog or the number of weeks.
CommandType ==
  [seed: Word, mode: Modes, usable: Seq(Nat) \ {<<>>}, target: Nat \ {0}]

ASSUME McaAssumption ==
  /\ WordSize \in Nat \ {0}
  /\ StateIncrement \in Nat
  /\ Mix \in [Word -> Word]
  /\ Horizon \in Nat \ {0}
  /\ NSims \in Nat \ {0}
  /\ Commands \subseteq CommandType

\* The throughput samples a simulation may draw.
UsableValues(raw, includeZeroWeeks) ==
  IF includeZeroWeeks THEN raw ELSE SelectSeq(raw, LAMBDA value : value > 0)

\* The state of the generator k draws after the state s.
Advance(s, k) == (s + k * StateIncrement) % WordSize

\* The 0-based index drawn in a state among count samples.
SampleIndex(s, count) == (Mix[s] * count) \div WordSize

Sample(c, s) == c.usable[SampleIndex(s, Len(c.usable)) + 1]

\* How many draws of the stream belong to one simulation.
Slots(c) == IF c.mode = "backlog_to_weeks" THEN Horizon ELSE c.target
=============================================================================
