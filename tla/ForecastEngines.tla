-------------------------- MODULE ForecastEngines --------------------------
(***************************************************************************)
(* The two engines side by side on one command.  Python draws whole         *)
(* batches: a matrix of batch_size simulations by Slots weeks, cumulated    *)
(* afterwards.  TypeScript draws week by week, stops a simulation as soon   *)
(* as the backlog is delivered and skips the draws it did not use.  Both    *)
(* must implement Forecast, and give the same percentiles.                  *)
(***************************************************************************)
EXTENDS McaPrng, Statistics

CONSTANT BatchSizes

ASSUME BatchAssumption == BatchSizes \subseteq Nat \ {0}

VARIABLES
  command,  \* the command both engines run
  batch,    \* Python: [size, state, done, results]
  slot      \* TypeScript: [state, done, weeks, delivered, results]

vars == <<command, batch, slot>>

BatchForecast == INSTANCE Forecast WITH
  done <- batch.done, results <- batch.results

SlotForecast == INSTANCE Forecast WITH
  done <- slot.done, results <- slot.results

TypeOK ==
  /\ command \in Commands
  /\ batch \in [size: BatchSizes, state: Word, done: 0 .. NSims, results: Seq(Nat)]
  /\ slot \in [state: Word, done: 0 .. NSims, weeks: 0 .. Slots(command),
               delivered: Nat, results: Seq(Nat)]

Init ==
  /\ command \in Commands
  /\ batch \in [size: BatchSizes, state: {command.seed}, done: {0}, results: {<<>>}]
  /\ slot = [state |-> command.seed, done |-> 0, weeks |-> 0,
             delivered |-> 0, results |-> <<>>]

(******************************** Python ***********************************)
\* The matrix of a batch, row by row: draw number (i-1)*Slots + week from the
\* state the previous batch left.
DrawnRow(i) ==
  [week \in 1 .. Slots(command) |->
     Sample(command, Advance(batch.state, (i - 1) * Slots(command) + week))]

CurrentBatch ==
  IF batch.size < NSims - batch.done THEN batch.size ELSE NSims - batch.done

\* Faulty variant: every batch starts the stream of the seed again.
SameStateAfter(size) == command.seed

StateAfter(size) == Advance(batch.state, size * Slots(command))

\* cumulative >= backlog_size, week by week: 1 where it holds.
Reaches(row) ==
  [week \in DOMAIN row |-> IF BatchForecast!Delivered(row, week) >= command.target THEN 1 ELSE 0]

\* argmax of numpy: the first of the largest values, counted from 0; 0 for a
\* row of zeros.
ArgMax(values) ==
  (CHOOSE k \in DOMAIN values :
     /\ \A other \in DOMAIN values : values[other] <= values[k]
     /\ \A other \in DOMAIN values : other < k => values[other] < values[k]) - 1

\* Faulty variant: first_hit_idx is read without has_hit.
BatchOutcomeUnmasked(row) ==
  IF command.mode = "backlog_to_weeks" THEN ArgMax(Reaches(row)) + 1
  ELSE BatchForecast!Delivered(row, command.target)

\* first_hit_idx[has_hit] + 1, or the items of the weeks asked for.
BatchOutcome(row) ==
  IF command.mode = "backlog_to_weeks"
  THEN IF \E week \in DOMAIN row : Reaches(row)[week] = 1 THEN ArgMax(Reaches(row)) + 1
       ELSE BatchForecast!Censored
  ELSE BatchForecast!Delivered(row, command.target)

RunBatch ==
  /\ batch.done < NSims
  /\ LET size     == CurrentBatch
         outcomes == [i \in 1 .. size |-> BatchOutcome(DrawnRow(i))]
     IN batch' = [batch EXCEPT
                    !.state   = StateAfter(size),
                    !.done    = @ + size,
                    !.results = @ \o BatchForecast!Kept(outcomes)]
  /\ UNCHANGED <<command, slot>>

(****************************** TypeScript *********************************)
drawSampleIndex(s) == Advance(s, 1)

skipSampleIndices(s, drawCount) == Advance(s, drawCount)

\* A simulation goes on while something remains and the horizon allows it.
Unfinished ==
  IF command.mode = "backlog_to_weeks"
  THEN slot.delivered < command.target /\ slot.weeks < Horizon
  ELSE slot.weeks < command.target

DrawWeek ==
  /\ slot.done < NSims
  /\ Unfinished
  /\ LET next == drawSampleIndex(slot.state)
     IN slot' = [slot EXCEPT !.state     = next,
                             !.weeks     = @ + 1,
                             !.delivered = @ + Sample(command, next)]
  /\ UNCHANGED <<command, batch>>

StateAfterSimulation ==
  IF slot.weeks < Slots(command)
  THEN skipSampleIndices(slot.state, Slots(command) - slot.weeks)
  ELSE slot.state

FinishedWith(results) ==
  [state     |-> StateAfterSimulation,
   done      |-> slot.done + 1,
   weeks     |-> 0,
   delivered |-> 0,
   results   |-> results]

\* Faulty variant: a censored simulation counts as one that lasted Horizon weeks.
FinishBacklogUncensored ==
  /\ slot.done < NSims
  /\ command.mode = "backlog_to_weeks"
  /\ ~Unfinished
  /\ slot' = FinishedWith(Append(slot.results, slot.weeks))
  /\ UNCHANGED <<command, batch>>

FinishBacklog ==
  /\ slot.done < NSims
  /\ command.mode = "backlog_to_weeks"
  /\ ~Unfinished
  /\ slot' = FinishedWith(IF slot.delivered >= command.target
                          THEN Append(slot.results, slot.weeks)
                          ELSE slot.results)
  /\ UNCHANGED <<command, batch>>

FinishItems ==
  /\ slot.done < NSims
  /\ command.mode = "weeks_to_items"
  /\ ~Unfinished
  /\ slot' = FinishedWith(Append(slot.results, slot.delivered))
  /\ UNCHANGED <<command, batch>>

(***************************************************************************)
Next == RunBatch \/ DrawWeek \/ FinishBacklog \/ FinishItems

\* Both engines are loops: while one can take a step it does.
Spec == Init /\ [][Next]_vars /\ WF_vars(RunBatch)
             /\ WF_vars(DrawWeek \/ FinishBacklog \/ FinishItems)

(******************************* properties ********************************)
\* When an engine begins a week of a simulation, its generator stands exactly
\* where the stream of the seed puts that simulation and that week: no batch
\* boundary, early stop or censored simulation shifts the draws of the next
\* one (StateAfter, StateAfterSimulation).
EnginesAligned ==
  /\ batch.state = Advance(command.seed, batch.done * Slots(command))
  /\ slot.state = Advance(command.seed, slot.done * Slots(command) + slot.weeks)

\* mc_finish_weeks and mc_items_done_for_weeks give each simulation the outcome
\* its own draws have, whatever the size of the batches.
BatchImplementsForecast == BatchForecast!Spec

\* simulateBacklogToWeeks and simulateWeeksToItems, with their early stop and
\* their skipped draws, give each simulation the outcome its own draws have.
SlotImplementsForecast == SlotForecast!Spec

Distribution(results) ==
  [v \in Range(results) |->
     Cardinality({i \in DOMAIN results : results[i] = v})]

\* For one command and one seed both engines publish the same durations, the
\* same percentiles from their own formulas, and omit the same percentiles.
EnginesAgree ==
  batch.done = NSims /\ slot.done = NSims =>
    /\ batch.results = slot.results
    /\ command.mode = "backlog_to_weeks" =>
         weeks_percentiles(Distribution(batch.results), NSims)
           = discreteWeeksPercentiles(Distribution(slot.results), NSims)
=============================================================================
