--------------------------- MODULE ForecastProofs ---------------------------
(***************************************************************************)
(* For every command, seed, number of simulations, size of batches, word    *)
(* size and finalizer: the generators of both engines stay aligned with the *)
(* stream, both engines implement Forecast, and they publish the same       *)
(* outcomes.  For every population of any size: what the delays, the        *)
(* capacities, the risk score and the histogram say of it is true.  The     *)
(* sums that the statistics fold are reasoned about through the equation    *)
(* that defines the fold, by induction on the number of their terms.        *)
(***************************************************************************)
EXTENDS ForecastEngines, Population, FiniteSetTheorems, SequenceTheorems, TLAPS

(***************************** arithmetic **********************************)
\* The only remainder and quotient of a number are those of its division.
LEMMA Remainder ==
  ASSUME NEW m \in Nat \ {0}, NEW q \in Int, NEW r \in 0 .. m - 1
  PROVE  (m * q + r) % m = r
<1> DEFINE a == m * q + r
           d == a \div m
           e == a % m
<1>1. a \in Int /\ d \in Int /\ e \in 0 .. m - 1 /\ a = m * d + e
  OBVIOUS
<1>2. m * (d - q) = r - e
  BY <1>1
<1>3. d - q < 1
  <2>1. SUFFICES ASSUME d - q >= 1 PROVE FALSE
    BY <1>1
  <2>2. m * (d - q) >= m
    BY <2>1, <1>1
  <2> QED
    BY <2>2, <1>2, <1>1
<1>4. d - q > -1
  <2>1. SUFFICES ASSUME q - d >= 1 PROVE FALSE
    BY <1>1
  <2>2. m * (q - d) >= m
    BY <2>1, <1>1
  <2>3. m * (q - d) = e - r
    BY <1>2, <1>1
  <2> QED
    BY <2>2, <2>3, <1>1
<1>5. d = q
  BY <1>3, <1>4, <1>1
<1> QED
  BY <1>1, <1>5

\* Reducing before adding changes nothing: the generator may keep a word.
LEMMA AddModulo ==
  ASSUME NEW m \in Nat \ {0}, NEW a \in Nat, NEW b \in Nat
  PROVE  ((a % m) + b) % m = (a + b) % m
<1> DEFINE q == a \div m
           r == a % m
           q2 == (r + b) \div m
           r2 == (r + b) % m
<1>1. q \in Int /\ r \in Nat /\ a = m * q + r
  OBVIOUS
<1>2. q2 \in Int /\ r2 \in 0 .. m - 1 /\ r + b = m * q2 + r2
  BY <1>1
<1> HIDE DEF q, r, q2, r2
<1>3. a + b = m * (q + q2) + r2
  BY <1>1, <1>2
<1>4. q + q2 \in Int
  BY <1>1, <1>2
<1>5. (m * (q + q2) + r2) % m = r2
  BY <1>2, <1>4, Remainder
<1>6. (a + b) % m = r2
  BY <1>3, <1>5
<1> QED
  BY <1>6 DEF r, r2

\* Drawing j times and then k times is drawing j + k times: a batch, or a skip,
\* may start from the state the draws before it left.
LEMMA AdvanceAdds ==
  ASSUME NEW s \in Nat, NEW j \in Nat, NEW k \in Nat
  PROVE  (((s + j * StateIncrement) % WordSize) + k * StateIncrement) % WordSize
           = (s + (j + k) * StateIncrement) % WordSize
<1>1. s + j * StateIncrement \in Nat /\ k * StateIncrement \in Nat
  BY McaAssumption
<1>2. (((s + j * StateIncrement) % WordSize) + k * StateIncrement) % WordSize
        = (s + j * StateIncrement + k * StateIncrement) % WordSize
  BY <1>1, McaAssumption, AddModulo
<1>3. s + j * StateIncrement + k * StateIncrement = s + (j + k) * StateIncrement
  BY McaAssumption
<1> QED
  BY <1>2, <1>3

LEMMA CommandShape ==
  ASSUME NEW c \in Commands
  PROVE  c.seed \in Nat /\ c.seed % WordSize = c.seed /\ c.mode \in Modes
         /\ c.target \in Nat \ {0} /\ Slots(c) \in Nat \ {0}
<1>1. c \in CommandType
  BY McaAssumption
<1>2. c.seed \in Word /\ c.mode \in Modes /\ c.target \in Nat \ {0}
  BY <1>1 DEF CommandType
<1>3. c.seed \in 0 .. WordSize - 1
  BY <1>2 DEF Word
<1>4. (WordSize * 0 + c.seed) % WordSize = c.seed
  BY <1>3, McaAssumption, Remainder
<1>5. c.seed \in Nat /\ c.seed % WordSize = c.seed
  BY <1>3, <1>4, McaAssumption
<1> QED
  BY <1>2, <1>5, McaAssumption DEF Slots

(************************ the inductive invariant **************************)
\* The bounds of the loops, and the shape of the two records.
Loops ==
  /\ command \in Commands
  /\ batch = [size |-> batch.size, state |-> batch.state,
              done |-> batch.done, results |-> batch.results]
  /\ batch.size \in BatchSizes
  /\ batch.done \in 0 .. NSims
  /\ slot = [state |-> slot.state, done |-> slot.done, weeks |-> slot.weeks,
             delivered |-> slot.delivered, results |-> slot.results]
  /\ slot.done \in 0 .. NSims
  /\ slot.weeks \in 0 .. Slots(command)

Inv == Loops /\ EnginesAligned

LEMMA InitInv == Init => Inv
<1> SUFFICES ASSUME Init PROVE Inv
  OBVIOUS
<1>1. command \in Commands
  BY DEF Init
<1>2. Advance(command.seed, 0 * Slots(command)) = command.seed
  BY <1>1, CommandShape, McaAssumption DEF Advance
<1>3. Advance(command.seed, 0 * Slots(command) + 0) = command.seed
  BY <1>1, CommandShape, McaAssumption DEF Advance
<1>4. Loops
  BY <1>1, CommandShape, McaAssumption DEF Init, Loops
<1>5. batch.state = command.seed /\ batch.done = 0
      /\ slot.state = command.seed /\ slot.done = 0 /\ slot.weeks = 0
  BY DEF Init
<1> QED
  BY <1>2, <1>3, <1>4, <1>5 DEF Inv, EnginesAligned

\* A batch draws at least one simulation and no more than remain.
LEMMA BatchFits ==
  ASSUME Inv, batch.done < NSims
  PROVE  CurrentBatch \in 1 .. NSims /\ batch.done + CurrentBatch \in 0 .. NSims
BY McaAssumption, BatchAssumption DEF Inv, Loops, CurrentBatch

LEMMA RunBatchInv == Inv /\ RunBatch => Inv'
<1> SUFFICES ASSUME Inv, RunBatch PROVE Inv'
  OBVIOUS
<1> DEFINE n == CurrentBatch
           slots == Slots(command)
<1>1. n \in 1 .. NSims /\ batch.done + n \in 0 .. NSims
  BY BatchFits DEF RunBatch
<1>2. command.seed \in Nat /\ slots \in Nat /\ batch.done \in Nat /\ n \in Nat
  BY <1>1, CommandShape, McaAssumption DEF Inv, Loops
<1>3. /\ batch'.state = Advance(batch.state, n * slots)
      /\ batch'.done = batch.done + n
      /\ batch'.size = batch.size
      /\ batch' = [size |-> batch'.size, state |-> batch'.state,
                   done |-> batch'.done, results |-> batch'.results]
      /\ UNCHANGED <<command, slot>>
  BY DEF RunBatch, Inv, Loops, StateAfter
<1> HIDE DEF n, slots
<1>4. Advance(batch.state, n * slots)
        = Advance(command.seed, batch.done * slots + n * slots)
  <2> DEFINE j == batch.done * slots
             k == n * slots
  <2>1. j \in Nat /\ k \in Nat /\ command.seed \in Nat
    BY <1>2
  <2>2. batch.state = (command.seed + j * StateIncrement) % WordSize
    BY DEF Inv, EnginesAligned, Advance, slots
  <2> HIDE DEF j, k
  <2>3. (((command.seed + j * StateIncrement) % WordSize) + k * StateIncrement) % WordSize
          = (command.seed + (j + k) * StateIncrement) % WordSize
    BY <2>1, AdvanceAdds, ZenonT(60)
  <2> QED
    BY <2>2, <2>3 DEF Advance, j, k
<1>5. batch.done * slots + n * slots = (batch.done + n) * slots
  BY <1>2
<1>6. batch'.state = Advance(command.seed, batch'.done * slots)
  BY <1>3, <1>4, <1>5
<1>7. Loops'
  BY <1>1, <1>3 DEF Inv, Loops, Slots
<1> QED
  BY <1>3, <1>6, <1>7 DEF Inv, EnginesAligned, Slots, Advance, slots

LEMMA DrawWeekInv == Inv /\ DrawWeek => Inv'
<1> SUFFICES ASSUME Inv, DrawWeek PROVE Inv'
  OBVIOUS
<1> DEFINE first == slot.done * Slots(command)
<1>1. command.seed \in Nat /\ Slots(command) \in Nat /\ slot.done \in Nat
      /\ slot.weeks \in Nat /\ command.mode \in Modes
  BY CommandShape, McaAssumption DEF Inv, Loops
<1>2. slot.weeks < Slots(command)
  BY <1>1 DEF DrawWeek, Unfinished, Slots, Modes
<1>3. /\ slot'.state = Advance(slot.state, 1)
      /\ slot'.weeks = slot.weeks + 1
      /\ slot'.done = slot.done
      /\ slot' = [state |-> slot'.state, done |-> slot'.done, weeks |-> slot'.weeks,
                  delivered |-> slot'.delivered, results |-> slot'.results]
      /\ UNCHANGED <<command, batch>>
  BY DEF DrawWeek, drawSampleIndex, Inv, Loops
<1>4. first \in Nat
  BY <1>1
<1>5. slot.state = Advance(command.seed, first + slot.weeks)
  BY DEF Inv, EnginesAligned
<1> HIDE DEF first
<1>6. slot'.state = Advance(command.seed, (first + slot.weeks) + 1)
  <2> DEFINE j == first + slot.weeks
             k == 1
  <2>1. j \in Nat /\ k \in Nat /\ command.seed \in Nat
    BY <1>1, <1>4
  <2>2. slot.state = (command.seed + j * StateIncrement) % WordSize
    BY <1>5 DEF Advance
  <2> HIDE DEF j, k
  <2>3. (((command.seed + j * StateIncrement) % WordSize) + k * StateIncrement) % WordSize
          = (command.seed + (j + k) * StateIncrement) % WordSize
    BY <2>1, AdvanceAdds, ZenonT(60)
  <2> QED
    BY <1>3, <2>2, <2>3 DEF Advance, j, k
<1>7. slot'.state = Advance(command.seed, first + slot'.weeks)
  <2>1. (first + slot.weeks) + 1 = first + slot'.weeks
    BY <1>1, <1>3, <1>4
  <2> QED
    BY <1>6, <2>1
<1>8. Loops'
  BY <1>1, <1>2, <1>3 DEF Inv, Loops, Slots
<1> QED
  BY <1>3, <1>7, <1>8 DEF Inv, EnginesAligned, Slots, Advance, first

\* A simulation that ends leaves the generator at the first draw of the next.
LEMMA FinishInv ==
  ASSUME Inv, NEW results, slot.done < NSims, slot' = FinishedWith(results),
         UNCHANGED <<command, batch>>
  PROVE  Inv'
<1> DEFINE first == slot.done * Slots(command)
<1>1. command.seed \in Nat /\ Slots(command) \in Nat /\ slot.done \in Nat
      /\ slot.weeks \in 0 .. Slots(command)
  BY CommandShape, McaAssumption DEF Inv, Loops
<1>2. first \in Nat
  BY <1>1
<1>3. slot.state = Advance(command.seed, first + slot.weeks)
  BY DEF Inv, EnginesAligned
<1>4. (slot.done + 1) * Slots(command) + 0 = first + Slots(command)
  BY <1>1
<1> HIDE DEF first
<1>5. StateAfterSimulation = Advance(command.seed, first + Slots(command))
  <2>1. CASE slot.weeks < Slots(command)
    <3>1. Advance(slot.state, Slots(command) - slot.weeks)
            = Advance(command.seed, (first + slot.weeks) + (Slots(command) - slot.weeks))
      <4> DEFINE j == first + slot.weeks
                 k == Slots(command) - slot.weeks
      <4>1. j \in Nat /\ k \in Nat /\ command.seed \in Nat
        BY <1>1, <1>2, <2>1
      <4>2. slot.state = (command.seed + j * StateIncrement) % WordSize
        BY <1>3 DEF Advance
      <4> HIDE DEF j, k
      <4>3. (((command.seed + j * StateIncrement) % WordSize) + k * StateIncrement) % WordSize
              = (command.seed + (j + k) * StateIncrement) % WordSize
        BY <4>1, AdvanceAdds, ZenonT(60)
      <4> QED
        BY <4>2, <4>3 DEF Advance, j, k
    <3>2. (first + slot.weeks) + (Slots(command) - slot.weeks) = first + Slots(command)
      BY <1>1, <1>2
    <3> QED
      BY <2>1, <3>1, <3>2 DEF StateAfterSimulation, skipSampleIndices
  <2>2. CASE ~(slot.weeks < Slots(command))
    BY <1>1, <1>3, <2>2 DEF StateAfterSimulation
  <2> QED
    BY <2>1, <2>2
<1>6. /\ slot'.state = StateAfterSimulation
      /\ slot'.done = slot.done + 1
      /\ slot'.weeks = 0
      /\ slot' = [state |-> slot'.state, done |-> slot'.done, weeks |-> slot'.weeks,
                  delivered |-> slot'.delivered, results |-> slot'.results]
  BY DEF FinishedWith
<1>7. slot'.state = Advance(command.seed, slot'.done * Slots(command) + slot'.weeks)
  BY <1>4, <1>5, <1>6
<1>8. Loops'
  BY <1>1, <1>6, McaAssumption DEF Inv, Loops, Slots
<1> QED
  BY <1>7, <1>8 DEF Inv, EnginesAligned, Slots, Advance

LEMMA StepInv == Inv /\ [Next]_vars => Inv'
<1> SUFFICES ASSUME Inv, [Next]_vars PROVE Inv'
  OBVIOUS
<1>1. CASE RunBatch
  BY <1>1, RunBatchInv
<1>2. CASE DrawWeek
  BY <1>2, DrawWeekInv
<1>3. CASE FinishBacklog
  BY <1>3, FinishInv DEF FinishBacklog
<1>4. CASE FinishItems
  BY <1>4, FinishInv DEF FinishItems
<1>5. CASE UNCHANGED vars
  BY <1>5 DEF vars, Inv, Loops, EnginesAligned, Slots, Advance
<1> QED
  BY <1>1, <1>2, <1>3, <1>4, <1>5 DEF Next

\* Neither batches nor skipped draws ever shift the stream of the seed.
THEOREM Alignment == Spec => []EnginesAligned
<1>1. Inv => EnginesAligned
  BY DEF Inv
<1> QED
  BY InitInv, StepInv, <1>1, PTL DEF Spec

(**************** the batched engine implements Forecast *******************)
\* The row a batch draws for its i-th simulation is the row that simulation owns.
LEMMA RowsMatch ==
  ASSUME Inv, NEW i \in Nat \ {0}
  PROVE  DrawnRow(i) = BatchForecast!Row(batch.done + i)
<1> DEFINE slots == Slots(command)
           j == batch.done * slots
<1>1. command.seed \in Nat /\ slots \in Nat /\ batch.done \in Nat
  BY CommandShape, McaAssumption DEF Inv, Loops
<1>2. j \in Nat
  BY <1>1
<1>3. batch.state = (command.seed + j * StateIncrement) % WordSize
  BY DEF Inv, EnginesAligned, Advance
<1>a. command.seed \in Nat
  BY <1>1
<1> HIDE DEF slots, j
<1>4. ASSUME NEW week \in 1 .. slots
      PROVE  Advance(batch.state, (i - 1) * slots + week)
               = Advance(command.seed, ((batch.done + i) - 1) * slots + week)
  <2> DEFINE k == (i - 1) * slots + week
  <2>1. k \in Nat
    <3>1. (i - 1) * slots \in Nat
      BY <1>1
    <3> QED
      BY <1>1, <3>1
  <2>2. ((batch.done + i) - 1) * slots + week = j + k
    <3>1. ((batch.done + i) - 1) * slots = batch.done * slots + (i - 1) * slots
      BY <1>1
    <3> QED
      BY <1>1, <3>1 DEF j
  <2> HIDE DEF k
  <2>3. (((command.seed + j * StateIncrement) % WordSize) + k * StateIncrement) % WordSize
          = (command.seed + (j + k) * StateIncrement) % WordSize
    BY <1>a, <1>2, <2>1, AdvanceAdds, ZenonT(60)
  <2>4. Advance(batch.state, k) = Advance(command.seed, j + k)
    BY <1>3, <2>3 DEF Advance
  <2> QED
    BY <2>2, <2>4 DEF k
<1>5. [week \in 1 .. slots |->
         Sample(command, Advance(batch.state, (i - 1) * slots + week))]
        = [week \in 1 .. slots |->
             Sample(command, Advance(command.seed, ((batch.done + i) - 1) * slots + week))]
  BY <1>4
<1>6. BatchForecast!Row(batch.done + i)
        = [week \in 1 .. slots |->
             Sample(command, Advance(command.seed, ((batch.done + i) - 1) * slots + week))]
  <2>1. BatchForecast!Slots(command) = slots
    BY DEF BatchForecast!Slots, Slots, slots
  <2>2. \A t, k : BatchForecast!Advance(t, k) = Advance(t, k)
    BY DEF BatchForecast!Advance, Advance
  <2>3. \A t : BatchForecast!Sample(command, t) = Sample(command, t)
    BY DEF BatchForecast!Sample, Sample, BatchForecast!SampleIndex, SampleIndex
  <2>4. BatchForecast!Row(batch.done + i)
          = [week \in 1 .. slots |->
               BatchForecast!Sample(command,
                 BatchForecast!Advance(command.seed, ((batch.done + i) - 1) * slots + week))]
    BY <2>1, Zenon DEF BatchForecast!Row
  <2>5. \A week : BatchForecast!Sample(command,
                   BatchForecast!Advance(command.seed, ((batch.done + i) - 1) * slots + week))
                 = Sample(command, Advance(command.seed, ((batch.done + i) - 1) * slots + week))
    BY <2>2, <2>3, Zenon
  <2> QED
    BY <2>4, <2>5, Zenon
<1>7. DrawnRow(i) = [week \in 1 .. slots |->
         Sample(command, Advance(batch.state, (i - 1) * slots + week))]
  BY DEF DrawnRow, slots
<1> QED
  BY <1>5, <1>6, <1>7

\* A set of numbers has a least member.
LEMMA LeastNatural ==
  ASSUME NEW S, S \subseteq Nat, S # {}
  PROVE  \E m \in S : \A k \in S : m <= k
<1>1. PICK m \in S : \A k \in S : ~(<<k, m>> \in OpToRel(<, Nat))
  BY NatLessThanWellFounded, WFMin
<1>2. ASSUME NEW k \in S, k < m PROVE FALSE
  <2>1. <<k, m>> \in Nat \X Nat
    OBVIOUS
  <2>2. <<k, m>> \in OpToRel(<, Nat)
    BY <1>2, <2>1 DEF OpToRel
  <2> QED
    BY <1>1, <2>2
<1> QED
  BY <1>2

\* The first largest of zeros and ones is the first one, if there is one: the
\* week that argmax gives under has_hit is the week of completion.
LEMMA FirstHit ==
  ASSUME NEW row, DOMAIN row \subseteq Nat
  PROVE  BatchOutcome(row) = BatchForecast!Outcome(row)
<1> DEFINE hits == {week \in DOMAIN row : BatchForecast!Delivered(row, week) >= command.target}
           bits == Reaches(row)
           largest(k) == /\ \A other \in DOMAIN bits : bits[other] <= bits[k]
                         /\ \A other \in DOMAIN bits : other < k => bits[other] < bits[k]
           index == CHOOSE k \in DOMAIN bits : largest(k)
           first == CHOOSE week \in hits : \A other \in hits : week <= other
<1>1. /\ DOMAIN bits = DOMAIN row
      /\ \A week \in DOMAIN row : bits[week] = IF week \in hits THEN 1 ELSE 0
  BY DEF Reaches
<1>2. (\E week \in DOMAIN row : Reaches(row)[week] = 1) <=> hits # {}
  BY <1>1
<1>3. ArgMax(Reaches(row)) = index - 1
  BY Zenon DEF ArgMax
<1>4. BatchForecast!CompletionWeek(row) = IF hits = {} THEN BatchForecast!Censored ELSE first
  BY Zenon DEF BatchForecast!CompletionWeek
<1> HIDE DEF hits, bits
<1>5. ASSUME hits # {}
      PROVE  index - 1 + 1 = first
  <2>1. hits \subseteq DOMAIN row /\ hits \subseteq Nat
    BY DEF hits
  <2>2. \E week \in hits : \A other \in hits : week <= other
    BY <1>5, <2>1, LeastNatural
  <2>3. first \in hits /\ \A other \in hits : first <= other
    BY <2>2
  <2> HIDE DEF first
  <2>4. first \in DOMAIN bits /\ largest(first)
    BY <1>1, <2>1, <2>3
  <2>5. index \in DOMAIN bits /\ largest(index)
    BY <2>4
  <2> HIDE DEF index
  <2>6. index \in hits
    BY <1>1, <2>1, <2>3, <2>5
  <2>7. index = first
    BY <1>1, <2>1, <2>3, <2>5, <2>6
  <2> QED
    BY <2>1, <2>3, <2>7
<1>6. BatchOutcome(row) = IF command.mode = "backlog_to_weeks"
                          THEN IF hits # {} THEN index - 1 + 1 ELSE BatchForecast!Censored
                          ELSE BatchForecast!Delivered(row, command.target)
  BY <1>2, <1>3 DEF BatchOutcome
<1>7. BatchForecast!Outcome(row) = IF command.mode = "backlog_to_weeks"
                                   THEN IF hits = {} THEN BatchForecast!Censored ELSE first
                                   ELSE BatchForecast!Delivered(row, command.target)
  BY <1>4 DEF BatchForecast!Outcome
<1> HIDE DEF index, first
<1> QED
  BY <1>5, <1>6, <1>7

LEMMA BatchOutcomes ==
  ASSUME NEW i
  PROVE  BatchOutcome(DrawnRow(i)) = BatchForecast!Outcome(DrawnRow(i))
<1>1. DOMAIN DrawnRow(i) = 1 .. Slots(command)
  BY DEF DrawnRow
<1>2. 1 .. Slots(command) \subseteq Nat
  OBVIOUS
<1> QED
  BY <1>1, <1>2, FirstHit

LEMMA RunBatchSimulates == Inv /\ RunBatch => BatchForecast!Next
<1> SUFFICES ASSUME Inv, RunBatch PROVE BatchForecast!Next
  OBVIOUS
<1> DEFINE n == CurrentBatch
<1>1. n \in 1 .. NSims /\ batch.done + n \in 0 .. NSims
  BY BatchFits DEF RunBatch
<1>2. \A i \in 1 .. n : DrawnRow(i) = BatchForecast!Row(batch.done + i)
  BY <1>1, RowsMatch
<1>3. [i \in 1 .. n |-> BatchOutcome(DrawnRow(i))]
        = [i \in 1 .. n |-> BatchForecast!Outcome(BatchForecast!Row(batch.done + i))]
  BY <1>2, BatchOutcomes
<1>4. /\ batch'.done = batch.done + n
      /\ batch'.results = batch.results
           \o BatchForecast!Kept([i \in 1 .. n |-> BatchOutcome(DrawnRow(i))])
      /\ UNCHANGED command
  BY DEF RunBatch, Inv, Loops
<1>5. batch'.results = batch.results
        \o BatchForecast!Kept(
             [i \in 1 .. n |-> BatchForecast!Outcome(BatchForecast!Row(batch.done + i))])
  BY <1>3, <1>4
<1> HIDE DEF n
<1>6. batch.done + n <= NSims /\ n \in 1 .. NSims
  BY <1>1, McaAssumption
<1>7. BatchForecast!Simulate(n)
  BY <1>4, <1>5, <1>6 DEF BatchForecast!Simulate
<1> QED
  BY <1>6, <1>7 DEF BatchForecast!Next

LEMMA StepSimulates == Inv /\ [Next]_vars => [BatchForecast!Next]_BatchForecast!vars
<1> SUFFICES ASSUME Inv, [Next]_vars PROVE [BatchForecast!Next]_BatchForecast!vars
  OBVIOUS
<1>1. CASE RunBatch
  BY <1>1, RunBatchSimulates
<1>2. CASE DrawWeek \/ FinishBacklog \/ FinishItems
  BY <1>2 DEF DrawWeek, FinishBacklog, FinishItems, BatchForecast!vars
<1>3. CASE UNCHANGED vars
  BY <1>3 DEF vars, BatchForecast!vars
<1> QED
  BY <1>1, <1>2, <1>3 DEF Next

\* Python gives every simulation the outcome of its own draws, whatever the
\* size of the batches.
THEOREM BatchRefinement == Spec => BatchImplementsForecast
<1>1. Init => BatchForecast!Init
  BY DEF Init, BatchForecast!Init
<1> QED
  BY InitInv, StepInv, StepSimulates, <1>1, PTL DEF Spec, BatchForecast!Spec, BatchImplementsForecast

(************************* the published numbers ***************************)
\* The two engines round the rank of a percentile to the same simulation.
THEOREM RanksAgree ==
  ASSUME NEW p \in Published, NEW totalCount \in Nat
  PROVE  WeeksRank(p, totalCount) = CeilDiv(p * totalCount, 100)
<1>1. \A a \in Int : (a + 99) \div 100 = -((-a) \div 100)
  OBVIOUS
<1>2. p * totalCount \in Int
  BY DEF Published
<1> QED
  BY <1>1, <1>2 DEF WeeksRank, CeilDiv

\* The risk score is the number of ten-thousandths closest to the ratio, and the
\* larger of two equally close ones.
THEOREM ScoreIsNearest ==
  ASSUME NEW numerator \in Nat, NEW denominator \in Nat \ {0}
  PROVE  LET score == RoundHalfUp(numerator, denominator)
         IN /\ denominator * (2 * score - 1) <= 2 * (numerator * 10000)
            /\ 2 * (numerator * 10000) < denominator * (2 * score + 1)
<1> DEFINE scaled == numerator * 10000
           q == scaled \div denominator
           r == scaled % denominator
<1>1. q \in Int /\ r \in 0 .. denominator - 1 /\ scaled = denominator * q + r
  OBVIOUS
<1>2. RoundHalfUp(numerator, denominator) = IF 2 * r >= denominator THEN q + 1 ELSE q
  BY <1>1 DEF RoundHalfUp
<1> HIDE DEF q, r, scaled
<1>3. CASE 2 * r >= denominator
  <2>1. denominator * (2 * (q + 1) - 1) = 2 * (denominator * q) + denominator
    BY <1>1
  <2>2. denominator * (2 * (q + 1) + 1) = 2 * (denominator * q) + 3 * denominator
    BY <1>1
  <2> QED
    BY <1>1, <1>2, <1>3, <2>1, <2>2 DEF scaled
<1>4. CASE ~(2 * r >= denominator)
  <2>1. denominator * (2 * q - 1) = 2 * (denominator * q) - denominator
    BY <1>1
  <2>2. denominator * (2 * q + 1) = 2 * (denominator * q) + denominator
    BY <1>1
  <2> QED
    BY <1>1, <1>2, <1>4, <2>1, <2>2 DEF scaled
<1> QED
  BY <1>3, <1>4

\* The intervals of an aggregated histogram: never more than MaxBuckets of them,
\* every value inside its own, and the published abscissa inside it too.
THEOREM IntervalsCover ==
  ASSUME NEW lowest \in Int, NEW highest \in Int, NEW v \in lowest .. highest
  PROVE  LET width == Width(lowest, highest)
             index == BucketOf(v, lowest, width)
             left  == LeftOf(index, lowest, width)
             right == RightOf(index, lowest, highest, width)
         IN /\ index \in 0 .. MaxBuckets - 1
            /\ v \in left .. right
            /\ Representative(index, lowest, highest, width) \in left .. right
<1> DEFINE extent == highest - lowest
           w == extent \div MaxBuckets + 1
           e == extent % MaxBuckets
           i == (v - lowest) \div w
           r == (v - lowest) % w
<1>1. extent \in Nat /\ w \in Int /\ e \in 0 .. MaxBuckets - 1
      /\ extent = MaxBuckets * (w - 1) + e
  BY BucketAssumption
<1> HIDE DEF w, e
<1>2. w \in Nat \ {0}
  <2>1. SUFFICES ASSUME w - 1 <= -1 PROVE FALSE
    BY <1>1
  <2>2. MaxBuckets * (w - 1) <= -MaxBuckets
    BY <1>1, <2>1, BucketAssumption
  <2> QED
    BY <1>1, <2>2, BucketAssumption
<1>3. i \in Int /\ r \in 0 .. w - 1 /\ v - lowest = w * i + r
  BY <1>2
<1> HIDE DEF i, r
<1>4. i >= 0
  <2>1. SUFFICES ASSUME i <= -1 PROVE FALSE
    BY <1>3
  <2>2. w * i <= -w
    BY <1>2, <1>3, <2>1
  <2> QED
    BY <1>2, <1>3, <2>2
<1>5. i < MaxBuckets
  <2>1. SUFFICES ASSUME i >= MaxBuckets PROVE FALSE
    BY <1>3, BucketAssumption
  <2>2. w * i >= w * MaxBuckets
    <3>1. w * (i - MaxBuckets) >= 0
      BY <1>2, <1>3, <2>1, BucketAssumption
    <3>2. w * (i - MaxBuckets) = w * i - w * MaxBuckets
      BY <1>2, <1>3, BucketAssumption
    <3> QED
      BY <1>2, <1>3, <3>1, <3>2, BucketAssumption
  <2>3. w * MaxBuckets = MaxBuckets * (w - 1) + MaxBuckets
    BY <1>2, BucketAssumption
  <2> QED
    BY <1>1, <1>2, <1>3, <2>2, <2>3, BucketAssumption
<1>6. lowest + i * w = v - r
  <2>1. i * w = w * i
    BY <1>2, <1>3
  <2> QED
    BY <1>2, <1>3, <2>1
<1>7. Width(lowest, highest) = w /\ BucketOf(v, lowest, w) = i
  BY DEF Width, BucketOf, w, i
<1>8. LeftOf(i, lowest, w) = v - r
  BY <1>6 DEF LeftOf
<1>9. /\ RightOf(i, lowest, highest, w) \in Int
      /\ v <= RightOf(i, lowest, highest, w)
      /\ RightOf(i, lowest, highest, w) <= highest
  BY <1>2, <1>3, <1>8 DEF RightOf
<1>10. Representative(i, lowest, highest, w) \in v - r .. RightOf(i, lowest, highest, w)
  BY <1>2, <1>3, <1>8, <1>9 DEF Representative
<1> QED
  BY <1>2, <1>3, <1>4, <1>5, <1>7, <1>8, <1>9, <1>10, BucketAssumption

(*************************** sums over a set *******************************)
\* A set of numbers that holds 0 and the successor of each of its members holds
\* every number: induction, stated so that it can be used here.
LEMMA NatSetInduction ==
  ASSUME NEW G, 0 \in G, \A n \in Nat : n \in G => n + 1 \in G
  PROVE  \A n \in Nat : n \in G
<1> DEFINE missing == {n \in Nat : n \notin G}
<1>1. SUFFICES ASSUME missing # {} PROVE FALSE
  OBVIOUS
<1>2. PICK m \in missing : \A k \in missing : ~(<<k, m>> \in OpToRel(<, Nat))
  <2>1. missing \subseteq Nat
    OBVIOUS
  <2> HIDE DEF missing
  <2> QED
    BY <1>1, <2>1, NatLessThanWellFounded, WFMin
<1>3. m \in Nat \ {0} /\ m - 1 \in Nat
  OBVIOUS
<1>4. m - 1 \in missing
  <2>1. SUFFICES ASSUME m - 1 \in G PROVE FALSE
    BY <1>3
  <2>2. (m - 1) + 1 \in G
    BY <1>3, <2>1
  <2> QED
    BY <1>3, <2>2
<1>5. <<m - 1, m>> \in OpToRel(<, Nat)
  <2>1. <<m - 1, m>> \in Nat \X Nat /\ m - 1 < m
    BY <1>3
  <2> QED
    BY <2>1 DEF OpToRel
<1> QED
  BY <1>2, <1>4, <1>5

Sum(d, S) == FoldFunctionOnSet(+, 0, d, S)

Pick(s) == CHOOSE x \in s : TRUE

\* The equation that the fold chooses a solution of.
IsSum(it, d, D) ==
  it = [s \in D |-> IF s = {} THEN 0 ELSE d[Pick(s)] + it[s \ {Pick(s)}]]

LEMMA SumIsChosen ==
  ASSUME NEW d, NEW S
  PROVE  Sum(d, S) = (CHOOSE it : IsSum(it, d, SUBSET S))[S]
BY DEF Sum, FoldFunctionOnSet, MapThenFoldSet, IsSum, Pick

LEMMA PickFacts ==
  ASSUME NEW s, s # {}, IsFiniteSet(s)
  PROVE  /\ Pick(s) \in s
         /\ IsFiniteSet(s \ {Pick(s)})
         /\ Cardinality(s) \in Nat \ {0}
         /\ Cardinality(s \ {Pick(s)}) = Cardinality(s) - 1
<1>1. Pick(s) \in s
  BY DEF Pick
<1>2. Cardinality(s) \in Nat /\ Cardinality(s) # 0
  BY FS_CardinalityType, FS_EmptySet
<1> QED
  BY <1>1, <1>2, FS_RemoveElement

\* The equation has a solution: by the number of elements.
LEMMA SumExists ==
  ASSUME NEW d, NEW S, IsFiniteSet(S)
  PROVE  \E it : IsSum(it, d, SUBSET S)
<1> DEFINE upTo(n) == {s \in SUBSET S : Cardinality(s) <= n}
           G == {n \in Nat : \E it : IsSum(it, d, upTo(n))}
<1>1. \A s \in SUBSET S : IsFiniteSet(s) /\ Cardinality(s) \in Nat
                          /\ Cardinality(s) <= Cardinality(S)
  BY FS_Subset, FS_CardinalityType
<1>2. 0 \in G
  <2> DEFINE it == [s \in upTo(0) |-> 0]
  <2>1. \A s \in upTo(0) : s = {}
    BY <1>1, FS_EmptySet
  <2>2. IsSum(it, d, upTo(0))
    BY <2>1 DEF IsSum
  <2> QED
    BY <2>2
<1>3. ASSUME NEW n \in Nat, n \in G PROVE n + 1 \in G
  <2>1. PICK g : IsSum(g, d, upTo(n))
    BY <1>3
  <2> DEFINE h == [s \in upTo(n + 1) |->
                     IF s = {} THEN 0 ELSE d[Pick(s)] + g[s \ {Pick(s)}]]
  <2>2. \A s \in upTo(n) : g[s] = h[s]
    <3>1. ASSUME NEW s \in upTo(n) PROVE g[s] = h[s]
      <4>1. s \in upTo(n + 1)
        BY <1>1
      <4>2. g[s] = IF s = {} THEN 0 ELSE d[Pick(s)] + g[s \ {Pick(s)}]
        BY <2>1 DEF IsSum
      <4> QED
        BY <4>1, <4>2
    <3> QED
      BY <3>1
  <2>3. ASSUME NEW s \in upTo(n + 1), s # {} PROVE s \ {Pick(s)} \in upTo(n)
    BY <1>1, <2>3, PickFacts
  <2>4. \A s \in upTo(n + 1) :
          h[s] = IF s = {} THEN 0 ELSE d[Pick(s)] + h[s \ {Pick(s)}]
    <3> HIDE DEF upTo
    <3>1. \A s \in upTo(n + 1) :
            h[s] = IF s = {} THEN 0 ELSE d[Pick(s)] + g[s \ {Pick(s)}]
      OBVIOUS
    <3>2. \A s \in upTo(n + 1) : s # {} => g[s \ {Pick(s)}] = h[s \ {Pick(s)}]
      <4> HIDE DEF h
      <4> QED
        BY <2>2, <2>3
    <3> HIDE DEF h
    <3> QED
      BY <3>1, <3>2
  <2>5. h = [s \in upTo(n + 1) |-> h[s]]
    <3> HIDE DEF upTo
    <3> QED
      OBVIOUS
  <2> HIDE DEF h, upTo
  <2>6. IsSum(h, d, upTo(n + 1))
    BY <2>4, <2>5 DEF IsSum
  <2> QED
    BY <2>6
<1>4. Cardinality(S) \in G
  <2> HIDE DEF G
  <2> QED
    BY <1>2, <1>3, FS_CardinalityType, NatSetInduction
<1>5. upTo(Cardinality(S)) = SUBSET S
  BY <1>1
<1> HIDE DEF upTo
<1> QED
  BY <1>4, <1>5

\* Two solutions agree wherever their functions do.
LEMMA SumsAgree ==
  ASSUME NEW d, NEW e, NEW V, NEW W, NEW f, NEW g, NEW U \in SUBSET (V \cap W),
         IsFiniteSet(U), \A x \in U : d[x] = e[x],
         IsSum(f, d, SUBSET V), IsSum(g, e, SUBSET W)
  PROVE  f[U] = g[U]
<1> DEFINE G == {n \in Nat : \A s \in SUBSET U : Cardinality(s) = n => f[s] = g[s]}
<1>1. \A s \in SUBSET U : IsFiniteSet(s) /\ Cardinality(s) \in Nat
  BY FS_Subset, FS_CardinalityType
<1>2. \A s \in SUBSET U :
        /\ f[s] = IF s = {} THEN 0 ELSE d[Pick(s)] + f[s \ {Pick(s)}]
        /\ g[s] = IF s = {} THEN 0 ELSE e[Pick(s)] + g[s \ {Pick(s)}]
  <2>1. ASSUME NEW s \in SUBSET U
        PROVE  /\ f[s] = IF s = {} THEN 0 ELSE d[Pick(s)] + f[s \ {Pick(s)}]
               /\ g[s] = IF s = {} THEN 0 ELSE e[Pick(s)] + g[s \ {Pick(s)}]
    <3>1. s \in SUBSET V /\ s \in SUBSET W
      OBVIOUS
    <3> QED
      BY <3>1 DEF IsSum
  <2> QED
    BY <2>1
<1>3. 0 \in G
  <2>1. \A s \in SUBSET U : Cardinality(s) = 0 => s = {}
    BY <1>1, FS_EmptySet
  <2> QED
    BY <1>2, <2>1
<1>4. ASSUME NEW n \in Nat, n \in G PROVE n + 1 \in G
  <2>1. ASSUME NEW s \in SUBSET U, Cardinality(s) = n + 1 PROVE f[s] = g[s]
    <3>1. s # {} /\ IsFiniteSet(s)
      BY <1>1, <2>1, FS_EmptySet
    <3>2. /\ Pick(s) \in U
          /\ s \ {Pick(s)} \in SUBSET U
          /\ Cardinality(s \ {Pick(s)}) = n
      <4>1. Pick(s) \in s /\ Cardinality(s \ {Pick(s)}) = Cardinality(s) - 1
        BY <3>1, PickFacts
      <4> QED
        BY <2>1, <4>1
    <3>3. f[s \ {Pick(s)}] = g[s \ {Pick(s)}]
      BY <1>4, <3>2
    <3> QED
      BY <1>2, <3>1, <3>2, <3>3
  <2> QED
    BY <2>1
<1>5. Cardinality(U) \in G
  <2> HIDE DEF G
  <2> QED
    BY <1>3, <1>4, FS_CardinalityType, NatSetInduction
<1> QED
  BY <1>5

LEMMA SumSolves ==
  ASSUME NEW d, NEW S, IsFiniteSet(S)
  PROVE  \E it : IsSum(it, d, SUBSET S) /\ Sum(d, S) = it[S]
<1> DEFINE it == CHOOSE g : IsSum(g, d, SUBSET S)
<1>1. IsSum(it, d, SUBSET S)
  BY SumExists
<1> QED
  BY <1>1, SumIsChosen

LEMMA SumEmpty == \A d : Sum(d, {}) = 0
<1> SUFFICES ASSUME NEW d PROVE Sum(d, {}) = 0
  OBVIOUS
<1>1. PICK it : IsSum(it, d, SUBSET {}) /\ Sum(d, {}) = it[{}]
  BY FS_EmptySet, SumSolves
<1>2. {} \in SUBSET {}
  OBVIOUS
<1> QED
  BY <1>1, <1>2 DEF IsSum

\* What the functions are outside of the set does not matter.
LEMMA SumSame ==
  ASSUME NEW d, NEW e, NEW S, IsFiniteSet(S), \A x \in S : d[x] = e[x]
  PROVE  Sum(d, S) = Sum(e, S)
<1>1. PICK f : IsSum(f, d, SUBSET S) /\ Sum(d, S) = f[S]
  BY SumSolves
<1>2. PICK g : IsSum(g, e, SUBSET S) /\ Sum(e, S) = g[S]
  BY SumSolves
<1>3. f[S] = g[S]
  BY <1>1, <1>2, SumsAgree
<1> QED
  BY <1>1, <1>2, <1>3

LEMMA SumPick ==
  ASSUME NEW d, NEW S, IsFiniteSet(S), S # {}
  PROVE  Sum(d, S) = d[Pick(S)] + Sum(d, S \ {Pick(S)})
<1> DEFINE T == S \ {Pick(S)}
<1>1. IsFiniteSet(T)
  BY PickFacts
<1>2. PICK f : IsSum(f, d, SUBSET S) /\ Sum(d, S) = f[S]
  BY SumSolves
<1>3. PICK g : IsSum(g, d, SUBSET T) /\ Sum(d, T) = g[T]
  BY <1>1, SumSolves
<1>4. f[T] = g[T]
  <2>1. T \in SUBSET (S \cap T)
    OBVIOUS
  <2> HIDE DEF T
  <2> QED
    BY <1>1, <1>2, <1>3, <2>1, SumsAgree
<1>5. f[S] = d[Pick(S)] + f[T]
  <2>1. S \in SUBSET S
    OBVIOUS
  <2> QED
    BY <1>2, <2>1 DEF IsSum
<1> QED
  BY <1>2, <1>3, <1>4, <1>5

LEMMA SumNat ==
  ASSUME NEW d, NEW S, IsFiniteSet(S), \A x \in S : d[x] \in Nat
  PROVE  Sum(d, S) \in Nat
<1> DEFINE G == {n \in Nat : \A s \in SUBSET S : Cardinality(s) = n => Sum(d, s) \in Nat}
<1>1. \A s \in SUBSET S : IsFiniteSet(s) /\ Cardinality(s) \in Nat
  BY FS_Subset, FS_CardinalityType
<1>2. 0 \in G
  BY <1>1, FS_EmptySet, SumEmpty
<1>3. ASSUME NEW n \in Nat, n \in G PROVE n + 1 \in G
  <2>1. ASSUME NEW s \in SUBSET S, Cardinality(s) = n + 1 PROVE Sum(d, s) \in Nat
    <3>1. s # {} /\ IsFiniteSet(s)
      BY <1>1, <2>1, FS_EmptySet
    <3>2. /\ Pick(s) \in S
          /\ s \ {Pick(s)} \in SUBSET S
          /\ Cardinality(s \ {Pick(s)}) = n
      BY <2>1, <3>1, PickFacts
    <3>3. Sum(d, s \ {Pick(s)}) \in Nat
      BY <1>3, <3>2
    <3>4. Sum(d, s) = d[Pick(s)] + Sum(d, s \ {Pick(s)})
      BY <3>1, SumPick
    <3> QED
      BY <3>2, <3>3, <3>4
  <2> QED
    BY <2>1
<1>4. Cardinality(S) \in G
  <2> HIDE DEF G
  <2> QED
    BY <1>2, <1>3, FS_CardinalityType, NatSetInduction
<1> QED
  BY <1>4

\* Any element may be counted first.
LEMMA SumRemove ==
  ASSUME NEW d, NEW S, IsFiniteSet(S), \A x \in S : d[x] \in Nat, NEW y \in S
  PROVE  Sum(d, S) = d[y] + Sum(d, S \ {y})
<1> DEFINE G == {n \in Nat : \A s \in SUBSET S : Cardinality(s) = n =>
                   \A z \in s : Sum(d, s) = d[z] + Sum(d, s \ {z})}
<1>1. \A s \in SUBSET S : IsFiniteSet(s) /\ Cardinality(s) \in Nat /\ Sum(d, s) \in Nat
  <2>1. ASSUME NEW s \in SUBSET S
        PROVE  IsFiniteSet(s) /\ Cardinality(s) \in Nat /\ Sum(d, s) \in Nat
    <3>1. IsFiniteSet(s) /\ \A x \in s : d[x] \in Nat
      BY FS_Subset
    <3> QED
      BY <3>1, FS_CardinalityType, SumNat
  <2> QED
    BY <2>1
<1>2. 0 \in G
  BY <1>1, FS_EmptySet
<1>3. ASSUME NEW n \in Nat, n \in G PROVE n + 1 \in G
  <2>1. ASSUME NEW s \in SUBSET S, Cardinality(s) = n + 1, NEW z \in s
        PROVE  Sum(d, s) = d[z] + Sum(d, s \ {z})
    <3> DEFINE p == Pick(s)
    <3>1. s # {} /\ IsFiniteSet(s)
      BY <1>1
    <3>2. p \in s /\ Cardinality(s \ {p}) = n /\ Cardinality(s \ {z}) = n
      <4>1. p \in s /\ Cardinality(s \ {p}) = Cardinality(s) - 1
        BY <3>1, PickFacts
      <4>2. Cardinality(s \ {z}) = Cardinality(s) - 1
        BY <3>1, FS_RemoveElement
      <4> QED
        BY <2>1, <4>1, <4>2
    <3>3. Sum(d, s) = d[p] + Sum(d, s \ {p})
      BY <3>1, SumPick
    <3> HIDE DEF p
    <3>4. CASE z = p
      BY <3>3, <3>4
    <3>5. CASE z # p
      <4> DEFINE rest == (s \ {p}) \ {z}
      <4>1. Sum(d, s \ {p}) = d[z] + Sum(d, rest)
        <5>1. s \ {p} \in SUBSET S /\ z \in s \ {p}
          BY <3>5
        <5> QED
          BY <1>3, <3>2, <5>1
      <4>2. Sum(d, s \ {z}) = d[p] + Sum(d, rest)
        <5>1. s \ {z} \in SUBSET S /\ p \in s \ {z} /\ rest = (s \ {z}) \ {p}
          BY <3>2, <3>5
        <5> QED
          BY <1>3, <3>2, <5>1
      <4>3. Sum(d, rest) \in Nat /\ d[p] \in Nat /\ d[z] \in Nat
        BY <1>1, <3>2
      <4> QED
        BY <3>3, <4>1, <4>2, <4>3
    <3> QED
      BY <3>4, <3>5
  <2> QED
    BY <2>1
<1>4. Cardinality(S) \in G
  <2> HIDE DEF G
  <2> QED
    BY <1>2, <1>3, FS_CardinalityType, NatSetInduction
<1> QED
  BY <1>4

\* Disjoint sets are summed apart.
LEMMA SumUnion ==
  ASSUME NEW d, NEW A, NEW B, IsFiniteSet(A), IsFiniteSet(B), A \cap B = {},
         \A x \in A \cup B : d[x] \in Nat
  PROVE  Sum(d, A \cup B) = Sum(d, A) + Sum(d, B)
<1> DEFINE G == {n \in Nat : \A s \in SUBSET A : Cardinality(s) = n =>
                   Sum(d, s \cup B) = Sum(d, s) + Sum(d, B)}
<1>1. \A s \in SUBSET A : IsFiniteSet(s) /\ Cardinality(s) \in Nat
  BY FS_Subset, FS_CardinalityType
<1>2. Sum(d, B) \in Nat
  BY SumNat
<1>3. 0 \in G
  <2>1. \A s \in SUBSET A : Cardinality(s) = 0 => s = {} /\ s \cup B = B
    BY <1>1, FS_EmptySet
  <2> QED
    BY <1>2, <2>1, SumEmpty
<1>4. ASSUME NEW n \in Nat, n \in G PROVE n + 1 \in G
  <2>1. ASSUME NEW s \in SUBSET A, Cardinality(s) = n + 1
        PROVE  Sum(d, s \cup B) = Sum(d, s) + Sum(d, B)
    <3> DEFINE p == Pick(s)
    <3>1. s # {} /\ IsFiniteSet(s)
      BY <1>1, <2>1, FS_EmptySet
    <3>2. p \in s /\ Cardinality(s \ {p}) = n /\ IsFiniteSet(s \ {p})
      BY <2>1, <3>1, PickFacts
    <3> HIDE DEF p
    <3>3. Sum(d, (s \ {p}) \cup B) = Sum(d, s \ {p}) + Sum(d, B)
      BY <1>4, <3>2
    <3>4. Sum(d, s) = d[p] + Sum(d, s \ {p})
      BY <3>1, <3>2, SumRemove
    <3>5. Sum(d, s \cup B) = d[p] + Sum(d, (s \ {p}) \cup B)
      <4>1. IsFiniteSet(s \cup B) /\ (s \cup B) \ {p} = (s \ {p}) \cup B
        BY <3>1, <3>2, FS_Union
      <4> QED
        BY <3>2, <4>1, SumRemove
    <3>6. Sum(d, s \ {p}) \in Nat /\ d[p] \in Nat
      BY <3>2, SumNat
    <3> QED
      BY <1>2, <3>3, <3>4, <3>5, <3>6
  <2> QED
    BY <2>1
<1>5. Cardinality(A) \in G
  <2> HIDE DEF G
  <2> QED
    BY <1>3, <1>4, FS_CardinalityType, NatSetInduction
<1> QED
  BY <1>5

(***************** the distribution of a population ************************)
IsDistribution(d) == d \in [Values -> Nat]

LEMMA ValuesAreFinite ==
  /\ IsFiniteSet(Values)
  /\ \A S \in SUBSET Values : IsFiniteSet(S)
<1>1. IsFiniteSet(0 .. MaxValue)
  BY PopulationAssumption, FS_Interval
<1>2. IsFiniteSet(Values)
  BY <1>1 DEF Values
<1> QED
  BY <1>2, FS_Subset

\* AtMost and Total are sums over subsets of Values.
LEMMA AtMostFacts ==
  ASSUME NEW d, IsDistribution(d)
  PROVE  /\ \A v \in Int : AtMost(d, v) = Sum(d, {x \in Values : x <= v})
         /\ \A v \in Int : AtMost(d, v) \in Nat
         /\ AtMost(d, -1) = 0
         /\ AtMost(d, MaxValue) = Total(d)
         /\ Total(d) = Sum(d, Values)
         /\ Total(d) \in Nat
         /\ \A v \in Values : AtMost(d, v) = AtMost(d, v - 1) + d[v]
<1>1. DOMAIN d = Values /\ \A x \in Values : d[x] \in Nat
  BY DEF IsDistribution
<1>2. \A v \in Int : AtMost(d, v) = Sum(d, {x \in Values : x <= v})
  BY <1>1 DEF AtMost, Sum
<1>3. Total(d) = Sum(d, Values)
  BY <1>1 DEF Total, FoldFunction, Sum
<1>4. \A S \in SUBSET Values : Sum(d, S) \in Nat
  BY <1>1, ValuesAreFinite, SumNat
<1>5. AtMost(d, -1) = 0
  <2>1. {x \in Values : x <= -1} = {}
    BY PopulationAssumption DEF Values
  <2> QED
    BY <1>2, <2>1, SumEmpty
<1>6. AtMost(d, MaxValue) = Total(d)
  <2>1. {x \in Values : x <= MaxValue} = Values
    BY PopulationAssumption DEF Values
  <2> QED
    BY <1>2, <1>3, <2>1, PopulationAssumption
<1>7. ASSUME NEW v \in Values PROVE AtMost(d, v) = AtMost(d, v - 1) + d[v]
  <2> DEFINE S == {x \in Values : x <= v}
             T == {x \in Values : x <= v - 1}
  <2>1. v \in Int /\ v - 1 \in Int
    BY PopulationAssumption DEF Values
  <2>2. v \in S /\ S \ {v} = T /\ S \in SUBSET Values /\ T \in SUBSET Values
    BY PopulationAssumption DEF Values
  <2>3. AtMost(d, v) = Sum(d, S) /\ AtMost(d, v - 1) = Sum(d, T)
    BY <1>2, <2>1
  <2> HIDE DEF S, T
  <2>4. IsFiniteSet(S) /\ \A x \in S : d[x] \in Nat
    BY <1>1, <2>2, ValuesAreFinite
  <2>5. Sum(d, S) = d[v] + Sum(d, T)
    BY <2>2, <2>4, SumRemove
  <2>6. Sum(d, T) \in Nat /\ d[v] \in Nat
    BY <1>1, <1>4, <2>2
  <2> QED
    BY <2>3, <2>5, <2>6
<1>8. \A v \in Int : AtMost(d, v) \in Nat
  BY <1>2, <1>4
<1> QED
  BY <1>2, <1>3, <1>4, <1>5, <1>6, <1>7, <1>8

\* The further one looks, the more simulations have ended.
LEMMA AtMostGrows ==
  ASSUME NEW d, IsDistribution(d), NEW v \in Int, NEW w \in Int, v <= w
  PROVE  AtMost(d, v) <= AtMost(d, w)
<1> DEFINE S == {x \in Values : x <= v}
           T == {x \in Values : v < x /\ x <= w}
<1>1. S \cap T = {} /\ S \cup T = {x \in Values : x <= w}
      /\ S \in SUBSET Values /\ T \in SUBSET Values
  BY PopulationAssumption DEF Values
<1>2. AtMost(d, v) = Sum(d, S) /\ AtMost(d, w) = Sum(d, S \cup T)
  BY <1>1, AtMostFacts
<1> HIDE DEF S, T
<1>3. /\ IsFiniteSet(S) /\ IsFiniteSet(T)
      /\ \A x \in S \cup T : d[x] \in Nat
  BY <1>1, ValuesAreFinite DEF IsDistribution
<1>4. Sum(d, S \cup T) = Sum(d, S) + Sum(d, T)
  BY <1>1, <1>3, SumUnion
<1>5. Sum(d, S) \in Nat /\ Sum(d, T) \in Nat
  BY <1>3, SumNat
<1> QED
  BY <1>2, <1>4, <1>5

\* A rank of the population names one of its values.
LEMMA RankedFacts ==
  ASSUME NEW d, IsDistribution(d), NEW rank \in 1 .. Total(d)
  PROVE  /\ Ranked(d, rank) \in Values
         /\ AtMost(d, Ranked(d, rank)) >= rank
         /\ AtMost(d, Ranked(d, rank) - 1) < rank
<1> DEFINE G == {n \in Nat : \A v \in Values : v <= n => AtMost(d, v) < rank}
<1>1. DOMAIN d = Values
  BY DEF IsDistribution
<1>2. Total(d) \in Nat /\ \A v \in Int : AtMost(d, v) \in Nat
  BY AtMostFacts
<1>3. \E v \in Values : AtMost(d, v) >= rank /\ AtMost(d, v - 1) < rank
  <2>1. SUFFICES ASSUME \A v \in Values : AtMost(d, v - 1) < rank => AtMost(d, v) < rank
                 PROVE FALSE
    BY <1>2 DEF Values
  <2>2. 0 \in G
    <3>1. \A v \in Values : v <= 0 => v = 0
      BY DEF Values
    <3>2. AtMost(d, 0 - 1) < rank
      <4>1. 0 - 1 = -1
        OBVIOUS
      <4> QED
        BY <1>2, <4>1, AtMostFacts
    <3> QED
      BY <2>1, <3>1, <3>2
  <2>3. ASSUME NEW n \in Nat, n \in G PROVE n + 1 \in G
    <3>1. ASSUME NEW v \in Values, v <= n + 1 PROVE AtMost(d, v) < rank
      <4>1. CASE v <= n
        BY <2>3, <4>1
      <4>2. CASE v = n + 1
        <5>1. v - 1 = n /\ n \in Values
          BY <4>2, PopulationAssumption DEF Values
        <5>2. AtMost(d, v - 1) < rank
          BY <2>3, <5>1
        <5> QED
          BY <2>1, <5>2
      <4> QED
        BY <3>1, <4>1, <4>2 DEF Values
    <3> QED
      BY <3>1
  <2>4. MaxValue \in G
    <3> HIDE DEF G
    <3> QED
      BY <2>2, <2>3, PopulationAssumption, NatSetInduction
  <2>5. AtMost(d, MaxValue) < rank
    BY <2>4, PopulationAssumption DEF Values
  <2> QED
    BY <1>2, <2>5, AtMostFacts
<1>4. Ranked(d, rank) \in Values /\ AtMost(d, Ranked(d, rank)) >= rank
      /\ AtMost(d, Ranked(d, rank) - 1) < rank
  BY <1>1, <1>3 DEF Ranked
<1> QED
  BY <1>4

\* A later rank never names a smaller value, in the same population or in one
\* with the same completed simulations.
LEMMA RankedGrows ==
  ASSUME NEW d, IsDistribution(d), NEW r \in 1 .. Total(d), NEW s \in 1 .. Total(d), r <= s
  PROVE  Ranked(d, r) <= Ranked(d, s)
<1> DEFINE v == Ranked(d, r)
           w == Ranked(d, s)
<1>1. v \in Values /\ w \in Values
      /\ AtMost(d, v - 1) < r /\ AtMost(d, w) >= s
  BY RankedFacts
<1> HIDE DEF v, w
<1>2. v \in Int /\ w \in Int /\ v - 1 \in Int
  BY <1>1, PopulationAssumption DEF Values
<1>3. AtMost(d, v - 1) \in Nat /\ AtMost(d, w) \in Nat /\ Total(d) \in Nat
  BY <1>2, AtMostFacts
<1>4. ~(w <= v - 1)
  <2>1. SUFFICES ASSUME w <= v - 1 PROVE FALSE
    OBVIOUS
  <2>2. AtMost(d, w) <= AtMost(d, v - 1)
    BY <1>2, <2>1, AtMostGrows
  <2> QED
    BY <1>1, <1>3, <2>2
<1>5. v <= w
  BY <1>2, <1>4
<1> QED
  BY <1>5 DEF v, w

PopulationInv ==
  /\ IsDistribution(completed)
  /\ censored \in Nat
  /\ NumSims >= 1

LEMMA TotalCovers ==
  ASSUME NEW d, IsDistribution(d), NEW v \in Values
  PROVE  d[v] <= Total(d)
<1>1. \A x \in Values : d[x] \in Nat
  BY DEF IsDistribution
<1>2. Total(d) = d[v] + Sum(d, Values \ {v})
  <2>1. Sum(d, Values) = d[v] + Sum(d, Values \ {v})
    BY <1>1, ValuesAreFinite, SumRemove
  <2> QED
    BY <2>1, AtMostFacts
<1>3. Sum(d, Values \ {v}) \in Nat
  BY <1>1, ValuesAreFinite, SumNat
<1> QED
  BY <1>1, <1>2, <1>3

LEMMA PopulationInitInv == PopulationInit => PopulationInv
<1> SUFFICES ASSUME PopulationInit PROVE PopulationInv
  OBVIOUS
<1>1. IsDistribution(completed) /\ censored \in Nat
  BY DEF PopulationInit, IsDistribution
<1>2. Total(completed) \in Nat
  BY <1>1, AtMostFacts
<1>3. CASE censored = 1
  BY <1>1, <1>2, <1>3 DEF PopulationInv, NumSims
<1>4. CASE \E first \in Values : completed[first] = 1
  BY <1>1, <1>2, <1>4, TotalCovers DEF PopulationInv, NumSims
<1> QED
  BY <1>3, <1>4 DEF PopulationInit

LEMMA PopulationStepInv ==
  PopulationInv /\ [PopulationNext]_populationVars => PopulationInv'
<1> SUFFICES ASSUME PopulationInv, [PopulationNext]_populationVars PROVE PopulationInv'
  OBVIOUS
<1>1. IsDistribution(completed) /\ censored \in Nat /\ Total(completed) \in Nat
      /\ NumSims >= 1
  BY AtMostFacts DEF PopulationInv
<1>2. CASE Censor
  BY <1>1, <1>2 DEF Censor, PopulationInv, NumSims
<1>3. ASSUME NEW v \in Values, Complete(v) PROVE PopulationInv'
  <2>1. IsDistribution(completed') /\ completed'[v] >= 1
    BY <1>1, <1>3 DEF Complete, IsDistribution
  <2>2. Total(completed') \in Nat
    BY <2>1, AtMostFacts
  <2>3. completed'[v] \in Nat /\ completed'[v] <= Total(completed')
    BY <2>1, TotalCovers DEF IsDistribution
  <2> QED
    BY <1>1, <1>3, <2>1, <2>2, <2>3 DEF Complete, PopulationInv, NumSims
<1>4. CASE UNCHANGED populationVars
  BY <1>4 DEF populationVars, PopulationInv, NumSims
<1> QED
  BY <1>2, <1>3, <1>4 DEF PopulationNext

\* A rank over all the simulations, as the weeks use it: the first that reaches
\* the percentage.
LEMMA WeeksRankFacts ==
  ASSUME NEW p \in Published, NEW n \in Nat \ {0}
  PROVE  /\ WeeksRank(p, n) \in 1 .. n
         /\ \A k \in Nat : 100 * k >= p * n <=> k >= WeeksRank(p, n)
<1> DEFINE m == p * n
<1>1. p \in 1 .. 99
  BY DEF Published
<1>2. m \in Nat /\ m >= 1 /\ m <= 99 * n
  <2>1. p = 50 \/ p = 70 \/ p = 90
    BY DEF Published
  <2> QED
    BY <2>1
<1> HIDE DEF m
<1>3. (m + 99) \div 100 \in 1 .. n
  BY <1>2
<1>4. \A k \in Nat : 100 * k >= m <=> k >= (m + 99) \div 100
  BY <1>2
<1> QED
  BY <1>3, <1>4 DEF WeeksRank, m

LEMMA WeeksForecastFacts ==
  ASSUME PopulationInv
  PROVE  /\ NumSims \in Nat \ {0}
         /\ \A p \in Published :
              /\ WeeksRank(p, NumSims) \in Nat \ {0}
              /\ p \in DOMAIN WeeksForecast <=> Total(completed) >= WeeksRank(p, NumSims)
              /\ p \in DOMAIN WeeksForecast =>
                   /\ WeeksRank(p, NumSims) \in 1 .. Total(completed)
                   /\ WeeksForecast[p] = Ranked(completed, WeeksRank(p, NumSims))
                   /\ WeeksForecast[p] \in Values
         /\ DOMAIN WeeksForecast \subseteq Published
<1>1. NumSims \in Nat \ {0} /\ IsDistribution(completed) /\ Total(completed) \in Nat
  BY AtMostFacts DEF PopulationInv, NumSims
<1>2. \A p \in Published : WeeksRank(p, NumSims) \in Nat \ {0}
  BY <1>1, WeeksRankFacts
<1>3. /\ DOMAIN WeeksForecast
           = {q \in Published : Total(completed) >= WeeksRank(q, NumSims)}
      /\ \A p \in DOMAIN WeeksForecast :
           WeeksForecast[p] = Ranked(completed, WeeksRank(p, NumSims))
  BY DEF WeeksForecast, weeks_percentiles
<1>4. \A p \in DOMAIN WeeksForecast : WeeksRank(p, NumSims) \in 1 .. Total(completed)
  BY <1>1, <1>2, <1>3
<1>5. \A p \in DOMAIN WeeksForecast : WeeksForecast[p] \in Values
  BY <1>1, <1>3, <1>4, RankedFacts
<1> QED
  BY <1>1, <1>2, <1>3, <1>4, <1>5

LEMMA DelaysFollow == PopulationInv => DelaysAreReached
<1> SUFFICES ASSUME PopulationInv, NEW p \in Published
             PROVE  LET reachedBy(v) == 100 * AtMost(completed, v) >= p * NumSims
                    IN /\ p \in DOMAIN WeeksForecast <=> reachedBy(MaxValue)
                       /\ p \in DOMAIN WeeksForecast =>
                            /\ reachedBy(WeeksForecast[p])
                            /\ ~reachedBy(WeeksForecast[p] - 1)
  BY DEF DelaysAreReached
<1> DEFINE rank == WeeksRank(p, NumSims)
           w == WeeksForecast[p]
<1>1. IsDistribution(completed) /\ NumSims \in Nat \ {0}
  BY WeeksForecastFacts DEF PopulationInv
<1>2. \A v \in Int : /\ AtMost(completed, v) \in Nat
                     /\ 100 * AtMost(completed, v) >= p * NumSims
                          <=> AtMost(completed, v) >= rank
  BY <1>1, AtMostFacts, WeeksRankFacts
<1>3. rank \in Nat /\ AtMost(completed, MaxValue) = Total(completed) /\ MaxValue \in Int
  BY <1>1, AtMostFacts, WeeksForecastFacts, PopulationAssumption
<1>4. p \in DOMAIN WeeksForecast <=> Total(completed) >= rank
  BY WeeksForecastFacts
<1>5. ASSUME p \in DOMAIN WeeksForecast
      PROVE  /\ w \in Int /\ w - 1 \in Int
             /\ AtMost(completed, w) >= rank /\ AtMost(completed, w - 1) < rank
  <2>1. rank \in 1 .. Total(completed) /\ w = Ranked(completed, rank)
    BY <1>5, WeeksForecastFacts
  <2> HIDE DEF rank
  <2>2. w \in Values /\ AtMost(completed, w) >= rank /\ AtMost(completed, w - 1) < rank
    BY <1>1, <2>1, RankedFacts
  <2> QED
    BY <2>2, PopulationAssumption DEF Values
<1> HIDE DEF rank, w
<1>6. ASSUME p \in DOMAIN WeeksForecast
      PROVE  /\ 100 * AtMost(completed, w) >= p * NumSims
             /\ ~(100 * AtMost(completed, w - 1) >= p * NumSims)
  BY <1>2, <1>3, <1>5, <1>6
<1>7. p \in DOMAIN WeeksForecast <=> 100 * AtMost(completed, MaxValue) >= p * NumSims
  BY <1>2, <1>3, <1>4
<1> QED
  BY <1>6, <1>7 DEF w

LEMMA ItemsForecastFacts ==
  ASSUME PopulationInv, NEW p \in DOMAIN ItemsForecast
  PROVE  LET rank == ((100 - p) * (Total(completed) - 1)) \div 100 + 1
         IN /\ p \in Published
            /\ Total(completed) \in Nat \ {0}
            /\ rank \in 1 .. Total(completed)
            /\ 100 * (rank - 1) <= (100 - p) * (Total(completed) - 1)
            /\ (100 - p) * (Total(completed) - 1) < 100 * rank
            /\ ItemsForecast[p] = Ranked(completed, rank)
            /\ ItemsForecast[p] \in Values
<1> DEFINE size == Total(completed)
           m == (100 - p) * (size - 1)
           rank == m \div 100 + 1
<1>1. IsDistribution(completed) /\ size \in Nat
  BY AtMostFacts DEF PopulationInv
<1>2. /\ DOMAIN ItemsForecast = IF size = 0 THEN {} ELSE Published
      /\ ItemsForecast[p] = Ranked(completed, rank)
  BY DEF ItemsForecast, items_percentiles
<1>3. p \in Published /\ size \in Nat \ {0}
  BY <1>1, <1>2
<1> HIDE DEF size
<1>4. m \in Nat /\ m <= 50 * (size - 1)
  <2>1. p = 50 \/ p = 70 \/ p = 90
    BY <1>3 DEF Published
  <2> QED
    BY <1>3, <2>1
<1> HIDE DEF m
<1>5. rank \in 1 .. size /\ 100 * (rank - 1) <= m /\ m < 100 * rank
  BY <1>3, <1>4
<1>6. Ranked(completed, rank) \in Values
  <2> HIDE DEF rank
  <2> QED
    BY <1>1, <1>5, RankedFacts DEF size
<1> QED
  BY <1>2, <1>3, <1>5, <1>6 DEF m, size

LEMMA CapacitiesFollow == PopulationInv => CapacitiesAreDelivered
<1> SUFFICES ASSUME PopulationInv, NEW p \in DOMAIN ItemsForecast
             PROVE  LET size == Total(completed)
                        more(v) == size - AtMost(completed, v)
                    IN /\ 100 * more(ItemsForecast[p] - 1) >= p * size
                       /\ 100 * more(ItemsForecast[p]) < p * size + 100 - p
  BY DEF CapacitiesAreDelivered
<1> DEFINE size == Total(completed)
           rank == ((100 - p) * (size - 1)) \div 100 + 1
           v == ItemsForecast[p]
           above == AtMost(completed, v)
           below == AtMost(completed, v - 1)
<1>1. IsDistribution(completed)
  BY DEF PopulationInv
<1>2. /\ p \in Published /\ size \in Nat \ {0} /\ rank \in 1 .. size
      /\ 100 * (rank - 1) <= (100 - p) * (size - 1)
      /\ (100 - p) * (size - 1) < 100 * rank
      /\ v = Ranked(completed, rank) /\ v \in Values
  BY ItemsForecastFacts
<1> HIDE DEF rank
<1>3. above >= rank /\ below < rank
  BY <1>1, <1>2, RankedFacts
<1>4. above \in Nat /\ below \in Nat
  <2>1. v \in Int /\ v - 1 \in Int
    BY <1>2, PopulationAssumption DEF Values
  <2> QED
    BY <1>1, <2>1, AtMostFacts
<1> HIDE DEF v, above, below, size
<1>5. (100 - p) * (size - 1) = 100 * size - p * size - 100 + p
  <2>1. p \in Int /\ size \in Int
    BY <1>2 DEF Published
  <2> QED
    BY <2>1
<1>6. p * size \in Nat /\ p \in 0 .. 100
  <2>1. p = 50 \/ p = 70 \/ p = 90
    BY <1>2 DEF Published
  <2> QED
    BY <1>2, <2>1
<1> DEFINE share == p * size
           product == (100 - p) * (size - 1)
<1>7. product = 100 * size - share - 100 + p /\ share \in Nat
      /\ 100 * (rank - 1) <= product /\ product < 100 * rank
  BY <1>2, <1>5, <1>6
<1> HIDE DEF share, product
<1>8. 100 * (size - below) >= share /\ 100 * (size - above) < share + 100 - p
  BY <1>2, <1>3, <1>4, <1>6, <1>7
<1> QED
  BY <1>8 DEF share, size, above, below, v

\* P90 of a delay is no earlier than its P50, and of a capacity no larger.
LEMMA SpreadIsPositive ==
  ASSUME PopulationInv
  PROVE  /\ {50, 90} \subseteq DOMAIN WeeksForecast
              => WeeksForecast[50] <= WeeksForecast[90]
         /\ {50, 90} \subseteq DOMAIN ItemsForecast
              => ItemsForecast[90] <= ItemsForecast[50]
<1>1. IsDistribution(completed)
  BY DEF PopulationInv
<1>2. ASSUME {50, 90} \subseteq DOMAIN WeeksForecast
      PROVE  WeeksForecast[50] <= WeeksForecast[90]
  <2> DEFINE r == WeeksRank(50, NumSims)
             s == WeeksRank(90, NumSims)
  <2>1. 50 \in Published /\ 90 \in Published
    BY DEF Published
  <2>2. /\ r \in 1 .. Total(completed) /\ s \in 1 .. Total(completed)
        /\ WeeksForecast[50] = Ranked(completed, r)
        /\ WeeksForecast[90] = Ranked(completed, s)
    BY <1>2, <2>1, WeeksForecastFacts
  <2>3. r <= s
    <3>1. NumSims \in Nat
      BY WeeksForecastFacts
    <3> QED
      BY <3>1 DEF WeeksRank
  <2> HIDE DEF r, s
  <2> QED
    BY <1>1, <2>2, <2>3, RankedGrows
<1>3. ASSUME {50, 90} \subseteq DOMAIN ItemsForecast
      PROVE  ItemsForecast[90] <= ItemsForecast[50]
  <2> DEFINE r == ((100 - 90) * (Total(completed) - 1)) \div 100 + 1
             s == ((100 - 50) * (Total(completed) - 1)) \div 100 + 1
  <2>1. /\ r \in 1 .. Total(completed) /\ Total(completed) \in Nat \ {0}
        /\ ItemsForecast[90] = Ranked(completed, r)
    BY <1>3, ItemsForecastFacts
  <2>2. /\ s \in 1 .. Total(completed)
        /\ ItemsForecast[50] = Ranked(completed, s)
    BY <1>3, ItemsForecastFacts
  <2>3. r <= s
    BY <2>1
  <2> HIDE DEF r, s
  <2> QED
    BY <1>1, <2>1, <2>2, <2>3, RankedGrows
<1> QED
  BY <1>2, <1>3

ScoreBounds(mode, forecast, spread) ==
  LET score == RiskScore(mode, forecast)
  IN /\ forecast[50] * (2 * score - 1) <= 20000 * spread
     /\ 20000 * spread < forecast[50] * (2 * score + 1)

\* What ScoreIsNearest says of a pair of percentiles in their order.
LEMMA ScoreOfForecast ==
  ASSUME NEW mode, NEW forecast, NEW spread \in Nat, forecast[50] \in Nat \ {0},
         spread = IF mode = "weeks_to_items" THEN forecast[50] - forecast[90]
                  ELSE forecast[90] - forecast[50]
  PROVE  ScoreBounds(mode, forecast, spread)
<1> DEFINE half == forecast[50]
           score == RoundHalfUp(spread, half)
<1>1. RiskScore(mode, forecast) = score
  BY DEF RiskScore
<1>2. /\ half * (2 * score - 1) <= 2 * (spread * 10000)
      /\ 2 * (spread * 10000) < half * (2 * score + 1)
  <2> HIDE DEF half
  <2> QED
    BY ScoreIsNearest DEF half
<1>3. 2 * (spread * 10000) = 20000 * spread
  OBVIOUS
<1> QED
  BY <1>1, <1>2, <1>3 DEF ScoreBounds

LEMMA ScoresFollow == PopulationInv => RiskScoreIsNearest
<1> SUFFICES ASSUME PopulationInv PROVE RiskScoreIsNearest
  OBVIOUS
<1>1. ASSUME HasRiskScore(WeeksForecast)
      PROVE  ScoreBounds("backlog_to_weeks", WeeksForecast, WeeksForecast[90] - WeeksForecast[50])
  <2>1. WeeksForecast[50] \in Values \ {0} /\ WeeksForecast[90] \in Values
        /\ WeeksForecast[50] <= WeeksForecast[90]
    <3>1. {50, 90} \subseteq DOMAIN WeeksForecast /\ WeeksForecast[50] > 0
      BY <1>1 DEF HasRiskScore
    <3>2. 50 \in Published /\ 90 \in Published
      BY DEF Published
    <3>3. WeeksForecast[50] \in Values /\ WeeksForecast[90] \in Values
      BY <3>1, <3>2, WeeksForecastFacts
    <3> QED
      BY <3>1, <3>3, SpreadIsPositive
  <2>2. WeeksForecast[90] - WeeksForecast[50] \in Nat /\ WeeksForecast[50] \in Nat \ {0}
    BY <2>1, PopulationAssumption DEF Values
  <2> QED
    BY <2>2, ScoreOfForecast
<1>2. ASSUME HasRiskScore(ItemsForecast)
      PROVE  ScoreBounds("weeks_to_items", ItemsForecast, ItemsForecast[50] - ItemsForecast[90])
  <2>1. ItemsForecast[50] \in Values \ {0} /\ ItemsForecast[90] \in Values
        /\ ItemsForecast[90] <= ItemsForecast[50]
    <3>1. {50, 90} \subseteq DOMAIN ItemsForecast /\ ItemsForecast[50] > 0
      BY <1>2 DEF HasRiskScore
    <3>2. ItemsForecast[50] \in Values /\ ItemsForecast[90] \in Values
      BY <3>1, ItemsForecastFacts
    <3> QED
      BY <3>1, <3>2, SpreadIsPositive
  <2>2. ItemsForecast[50] - ItemsForecast[90] \in Nat /\ ItemsForecast[50] \in Nat \ {0}
    BY <2>1, PopulationAssumption DEF Values
  <2> QED
    BY <2>2, ScoreOfForecast
<1> QED
  BY <1>1, <1>2 DEF RiskScoreIsNearest, ScoreBounds

\* A censored simulation raises every rank and leaves the distribution alone.
LEMMA CensoringFollows ==
  ASSUME PopulationInv, PopulationInv', Censor
  PROVE  \A p \in DOMAIN WeeksForecast' :
           p \in DOMAIN WeeksForecast /\ WeeksForecast[p] <= WeeksForecast'[p]
<1> SUFFICES ASSUME NEW p \in DOMAIN WeeksForecast'
             PROVE  p \in DOMAIN WeeksForecast /\ WeeksForecast[p] <= WeeksForecast'[p]
  OBVIOUS
<1> DEFINE r == WeeksRank(p, NumSims)
           s == WeeksRank(p, NumSims')
<1>1. completed' = completed /\ censored' = censored + 1
  BY DEF Censor
<1>2. /\ NumSims \in Nat \ {0} /\ NumSims' = NumSims + 1
      /\ Total(completed) \in Nat /\ IsDistribution(completed)
  BY <1>1, AtMostFacts DEF PopulationInv, NumSims
<1>3. /\ DOMAIN WeeksForecast'
           = {q \in Published : Total(completed) >= WeeksRank(q, NumSims')}
      /\ DOMAIN WeeksForecast
           = {q \in Published : Total(completed) >= WeeksRank(q, NumSims)}
      /\ WeeksForecast'[p] = Ranked(completed, s)
  BY <1>1 DEF WeeksForecast, weeks_percentiles
<1>4. p \in Published /\ Total(completed) >= s
  BY <1>3
<1>5. r \in Nat \ {0} /\ s \in Nat \ {0} /\ r <= s
  <2>1. NumSims + 1 \in Nat \ {0}
    BY <1>2
  <2>2. r \in Nat \ {0} /\ s \in Nat \ {0}
    BY <1>2, <1>4, <2>1, WeeksRankFacts
  <2>3. p = 50 \/ p = 70 \/ p = 90
    BY <1>4 DEF Published
  <2>4. r <= s
    BY <1>2, <2>3 DEF WeeksRank
  <2> QED
    BY <2>2, <2>4
<1>6. p \in DOMAIN WeeksForecast
  BY <1>2, <1>3, <1>4, <1>5
<1>7. WeeksForecast[p] = Ranked(completed, r)
  BY <1>6 DEF WeeksForecast, weeks_percentiles
<1> HIDE DEF r, s
<1>8. Ranked(completed, r) <= Ranked(completed, s)
  <2>1. r \in 1 .. Total(completed) /\ s \in 1 .. Total(completed)
    BY <1>2, <1>4, <1>5
  <2> QED
    BY <1>2, <1>5, <2>1, RankedGrows
<1> QED
  BY <1>3, <1>6, <1>7, <1>8

\* For populations of any size and any values: a delay percentile is present
\* exactly when its share of the simulations has completed, and is the first
\* week by which it has (weeks_percentiles).
THEOREM DelaysArePromised == PopulationSpec => []DelaysAreReached
<1> QED
  BY PopulationInitInv, PopulationStepInv, DelaysFollow, PTL DEF PopulationSpec

\* A capacity percentile is delivered by its share of the simulations, and
\* nothing above it is (items_percentiles).
THEOREM CapacitiesArePromised == PopulationSpec => []CapacitiesAreDelivered
<1> QED
  BY PopulationInitInv, PopulationStepInv, CapacitiesFollow, PTL DEF PopulationSpec

\* The score published about a population is the nearest ten-thousandth.
THEOREM ScoresArePublished == PopulationSpec => []RiskScoreIsNearest
<1> QED
  BY PopulationInitInv, PopulationStepInv, ScoresFollow, PTL DEF PopulationSpec

\* One more censored simulation brings no percentile back and lowers none.
THEOREM CensoredNeverHelp == PopulationSpec => CensoringNeverHelps
<1>1. PopulationInv /\ PopulationInv' /\ [PopulationNext]_populationVars
        => [Censor => \A p \in DOMAIN WeeksForecast' :
              p \in DOMAIN WeeksForecast
              /\ WeeksForecast[p] <= WeeksForecast'[p]]_populationVars
  BY CensoringFollows
<1> QED
  BY PopulationInitInv, PopulationStepInv, <1>1, PTL DEF PopulationSpec, CensoringNeverHelps

LEMMA SumCovers ==
  ASSUME NEW d, NEW S, IsFiniteSet(S), \A x \in S : d[x] \in Nat, NEW y \in S
  PROVE  d[y] <= Sum(d, S)
<1>1. Sum(d, S) = d[y] + Sum(d, S \ {y})
  BY SumRemove
<1>2. Sum(d, S \ {y}) \in Nat
  BY FS_RemoveElement, SumNat
<1> QED
  BY <1>1, <1>2

\* Zeros add nothing.
LEMMA SumOfZeros ==
  ASSUME NEW d, NEW S, IsFiniteSet(S), \A x \in S : d[x] = 0
  PROVE  Sum(d, S) = 0
<1>1. Sum(d, S) \in Nat
  BY SumNat
<1>2. SUFFICES ASSUME Sum(d, S) # 0 PROVE FALSE
  OBVIOUS
<1>3. S # {}
  BY <1>2, SumEmpty
<1> DEFINE G == {n \in Nat : \A s \in SUBSET S : Cardinality(s) = n => Sum(d, s) = 0}
<1>4. \A s \in SUBSET S : IsFiniteSet(s) /\ Cardinality(s) \in Nat
  BY FS_Subset, FS_CardinalityType
<1>5. 0 \in G
  BY <1>4, FS_EmptySet, SumEmpty
<1>6. ASSUME NEW n \in Nat, n \in G PROVE n + 1 \in G
  <2>1. ASSUME NEW s \in SUBSET S, Cardinality(s) = n + 1 PROVE Sum(d, s) = 0
    <3>1. s # {} /\ IsFiniteSet(s)
      BY <1>4, <2>1, FS_EmptySet
    <3>2. Pick(s) \in s /\ Cardinality(s \ {Pick(s)}) = Cardinality(s) - 1
      BY <3>1, PickFacts
    <3>3. Sum(d, s \ {Pick(s)}) = 0
      BY <1>6, <2>1, <3>2
    <3>4. Sum(d, s) = d[Pick(s)] + Sum(d, s \ {Pick(s)})
      BY <3>1, SumPick
    <3> QED
      BY <3>2, <3>3, <3>4
  <2> QED
    BY <2>1
<1>7. Cardinality(S) \in G
  <2> HIDE DEF G
  <2> QED
    BY <1>5, <1>6, FS_CardinalityType, NatSetInduction
<1> QED
  BY <1>2, <1>7

\* Grouping loses nothing: the sums of the groups of S whose key is in K add up
\* to the sum of these groups' elements.
LEMMA SumByKey ==
  ASSUME NEW d, NEW S, IsFiniteSet(S), \A x \in S : d[x] \in Nat,
         NEW key, NEW K, IsFiniteSet(K)
  PROVE  Sum([i \in K |-> Sum(d, {x \in S : key[x] = i})], K)
           = Sum(d, {x \in S : key[x] \in K})
<1> DEFINE f == [i \in K |-> Sum(d, {x \in S : key[x] = i})]
           group(L) == {x \in S : key[x] \in L}
           G == {n \in Nat : \A L \in SUBSET K :
                   Cardinality(L) = n => Sum(f, L) = Sum(d, group(L))}
<1>1. \A L \in SUBSET K : IsFiniteSet(L) /\ Cardinality(L) \in Nat
  BY FS_Subset, FS_CardinalityType
<1>2. \A L : IsFiniteSet(group(L)) /\ Sum(d, group(L)) \in Nat
  <2>1. ASSUME NEW L PROVE IsFiniteSet(group(L)) /\ Sum(d, group(L)) \in Nat
    <3>1. group(L) \in SUBSET S /\ \A x \in group(L) : d[x] \in Nat
      OBVIOUS
    <3> HIDE DEF group
    <3>2. IsFiniteSet(group(L))
      BY <3>1, FS_Subset
    <3> QED
      BY <3>1, <3>2, SumNat
  <2> QED
    BY <2>1
<1>3. \A i \in K : f[i] = Sum(d, group({i})) /\ f[i] \in Nat
  <2>1. ASSUME NEW i \in K PROVE f[i] = Sum(d, group({i}))
    <3>1. {x \in S : key[x] = i} = group({i})
      OBVIOUS
    <3> QED
      BY <3>1
  <2> QED
    BY <1>2, <2>1
<1>4. 0 \in G
  <2>1. \A L \in SUBSET K : Cardinality(L) = 0 => L = {}
    BY <1>1, FS_EmptySet
  <2>2. group({}) = {}
    OBVIOUS
  <2> HIDE DEF group, f
  <2> QED
    BY <2>1, <2>2, SumEmpty
<1>5. ASSUME NEW n \in Nat, n \in G PROVE n + 1 \in G
  <2>1. ASSUME NEW L \in SUBSET K, Cardinality(L) = n + 1
        PROVE  Sum(f, L) = Sum(d, group(L))
    <3> DEFINE i == Pick(L)
    <3>1. L # {} /\ IsFiniteSet(L)
      BY <1>1, <2>1, FS_EmptySet
    <3>2. i \in L /\ Cardinality(L \ {i}) = Cardinality(L) - 1
      BY <3>1, PickFacts
    <3>3. Sum(f, L) = f[i] + Sum(f, L \ {i})
      <4> HIDE DEF f
      <4> QED
        BY <3>1, SumPick
    <3> HIDE DEF i
    <3>4. /\ group({i}) \cap group(L \ {i}) = {}
          /\ group({i}) \cup group(L \ {i}) = group(L)
          /\ \A x \in group({i}) \cup group(L \ {i}) : d[x] \in Nat
      BY <3>2
    <3>5. Sum(f, L \ {i}) = Sum(d, group(L \ {i}))
      BY <1>5, <2>1, <3>2
    <3> HIDE DEF group, f
    <3>6. Sum(d, group({i}) \cup group(L \ {i}))
            = Sum(d, group({i})) + Sum(d, group(L \ {i}))
      <4>1. IsFiniteSet(group({i})) /\ IsFiniteSet(group(L \ {i}))
        BY <1>2
      <4> QED
        BY <3>4, <4>1, SumUnion, ZenonT(60)
    <3> QED
      BY <1>3, <3>2, <3>3, <3>4, <3>5, <3>6
  <2> QED
    BY <2>1
<1>6. Cardinality(K) \in G
  <2> HIDE DEF G
  <2> QED
    BY <1>4, <1>5, FS_CardinalityType, NatSetInduction
<1>7. Sum(f, K) = Sum(d, group(K))
  BY <1>6
<1> QED
  BY <1>7

LEMMA ExtremesFacts ==
  ASSUME NEW d, IsDistribution(d), Observed(d) # {}
  PROVE  /\ Lowest(d) \in Observed(d) /\ Highest(d) \in Observed(d)
         /\ \A v \in Observed(d) : v \in Lowest(d) .. Highest(d)
         /\ Observed(d) \subseteq Values
<1>1. Observed(d) = {v \in Values : d[v] > 0}
  BY DEF Observed, IsDistribution
<1>2. \A v \in Observed(d) : v \in Nat /\ v <= MaxValue
  BY <1>1, PopulationAssumption DEF Values
<1>3. \E v \in Observed(d) : \A w \in Observed(d) : v <= w
  BY <1>2, LeastNatural
<1>4. \E v \in Observed(d) : \A w \in Observed(d) : v >= w
  <2> DEFINE gaps == {MaxValue - v : v \in Observed(d)}
  <2>1. gaps \subseteq Nat /\ gaps # {}
    BY <1>2, PopulationAssumption
  <2>2. PICK g \in gaps : \A k \in gaps : g <= k
    <3> HIDE DEF gaps
    <3> QED
      BY <2>1, LeastNatural
  <2>3. PICK v \in Observed(d) : g = MaxValue - v
    OBVIOUS
  <2>4. \A w \in Observed(d) : v >= w
    <3>1. ASSUME NEW w \in Observed(d) PROVE v >= w
      <4>1. MaxValue - v <= MaxValue - w
        BY <2>2, <2>3
      <4> QED
        BY <1>2, <4>1, PopulationAssumption
    <3> QED
      BY <3>1
  <2> QED
    BY <2>4
<1>5. Lowest(d) \in Observed(d) /\ \A w \in Observed(d) : Lowest(d) <= w
  BY <1>3 DEF Lowest
<1>6. Highest(d) \in Observed(d) /\ \A w \in Observed(d) : Highest(d) >= w
  BY <1>4 DEF Highest
<1> QED
  BY <1>1, <1>2, <1>5, <1>6

\* A histogram that shows every value as it is.
LEMMA DirectHistogram ==
  ASSUME PopulationInv, Cardinality(Observed(completed)) <= MaxBuckets
  PROVE  HistogramIsFaithful
<1> DEFINE d == completed
           O == Observed(d)
           histogram == [v \in O |-> [x |-> v, count |-> d[v]]]
           counts == [v \in O |-> histogram[v].count]
<1>1. IsDistribution(d)
  BY DEF PopulationInv
<1>2. O = {v \in Values : d[v] > 0}
  BY <1>1 DEF Observed, IsDistribution
<1>3. build_histogram(d) = histogram
  BY DEF build_histogram
<1>4. FoldFunction(+, 0, counts) = Sum(counts, O)
  BY DEF FoldFunction, Sum
<1>5. Sum(counts, O) = Total(d)
  <2>1. \A v \in O : counts[v] = d[v]
    OBVIOUS
  <2>2. IsFiniteSet(O) /\ IsFiniteSet(Values \ O) /\ O \cap (Values \ O) = {}
        /\ O \cup (Values \ O) = Values
    BY <1>2, ValuesAreFinite
  <2>3. \A v \in Values : d[v] \in Nat
    BY <1>1 DEF IsDistribution
  <2>4. \A v \in Values \ O : d[v] = 0
    BY <1>2, <2>3
  <2> HIDE DEF O, counts, d
  <2>5. Sum(counts, O) = Sum(d, O)
    BY <2>1, <2>2, SumSame
  <2>6. Sum(d, Values \ O) = 0
    BY <2>2, <2>4, SumOfZeros
  <2>7. Sum(d, O \cup (Values \ O)) = Sum(d, O) + Sum(d, Values \ O)
    <3>1. \A v \in O \cup (Values \ O) : d[v] \in Nat
      BY <2>2, <2>3
    <3> QED
      BY <2>2, <3>1, SumUnion
  <2>8. Sum(d, O) \in Nat
    <3>1. \A v \in O : d[v] \in Nat
      BY <2>2, <2>3
    <3> QED
      BY <2>2, <3>1, SumNat
  <2> QED
    BY <1>1, <2>2, <2>5, <2>6, <2>7, <2>8, AtMostFacts
<1>6. ASSUME NEW v \in O
      PROVE  /\ v \in Lowest(d) .. Highest(d)
             /\ v - v \in 1 - Width(Lowest(d), Highest(d)) .. Width(Lowest(d), Highest(d)) - 1
  <2> DEFINE low == Lowest(d)
             high == Highest(d)
  <2>1. v \in low .. high /\ low \in Values /\ high \in Values
    BY <1>1, ExtremesFacts
  <2> HIDE DEF low, high
  <2>2. low \in Int /\ high \in Int /\ v \in Int /\ low <= high
    BY <2>1, PopulationAssumption DEF Values
  <2>3. Width(low, high) \in Int /\ Width(low, high) >= 1
    <3>1. \A a \in Nat, b \in Nat \ {0} : a \div b \in Nat
      OBVIOUS
    <3>2. high - low \in Nat
      BY <2>2
    <3> QED
      BY <3>1, <3>2, BucketAssumption DEF Width
  <2> QED
    BY <2>1, <2>2, <2>3 DEF low, high
<1>7. \A v, w \in O : v < w => histogram[v].x < histogram[w].x
  OBVIOUS
<1>8. \A v \in O : histogram[v].count > 0 /\ histogram[v].x = v
  BY <1>2
<1>9. DOMAIN histogram = O
  OBVIOUS
<1>10. [i \in DOMAIN histogram |-> histogram[i].count] = counts
  BY <1>9
<1>a. Cardinality(DOMAIN histogram) <= MaxBuckets
  BY <1>9
<1> HIDE DEF histogram, counts, O
<1>11. \A v \in O : \E i \in O :
         histogram[i].x - v \in 1 - Width(Lowest(d), Highest(d))
                                  .. Width(Lowest(d), Highest(d)) - 1
  BY <1>6, <1>8
<1>12. \A i \in O : histogram[i].x \in Lowest(d) .. Highest(d)
  BY <1>6, <1>8
<1>13. FoldFunction(+, 0, [i \in DOMAIN histogram |-> histogram[i].count]) = Total(d)
  BY <1>4, <1>5, <1>10
<1> QED
  BY <1>3, <1>7, <1>8, <1>9, <1>a, <1>11, <1>12, <1>13 DEF HistogramIsFaithful, O

\* Two intervals of an aggregated histogram: the abscissa of the first is smaller.
LEMMA IntervalsFollow ==
  ASSUME NEW lowest \in Int, NEW highest \in Int,
         NEW v \in lowest .. highest, NEW w \in lowest .. highest,
         BucketOf(v, lowest, Width(lowest, highest))
           < BucketOf(w, lowest, Width(lowest, highest))
  PROVE  Representative(BucketOf(v, lowest, Width(lowest, highest)),
                        lowest, highest, Width(lowest, highest))
           < Representative(BucketOf(w, lowest, Width(lowest, highest)),
                            lowest, highest, Width(lowest, highest))
<1> DEFINE width == Width(lowest, highest)
           i == BucketOf(v, lowest, width)
           j == BucketOf(w, lowest, width)
           r == Representative(i, lowest, highest, width)
           s == Representative(j, lowest, highest, width)
<1>1. width \in Int /\ width >= 1
  <2>1. \A a \in Nat, b \in Nat \ {0} : a \div b \in Nat
    OBVIOUS
  <2>2. highest - lowest \in Nat
    OBVIOUS
  <2> QED
    BY <2>1, <2>2, BucketAssumption DEF Width
<1>2. /\ i \in 0 .. MaxBuckets - 1
      /\ r \in LeftOf(i, lowest, width) .. RightOf(i, lowest, highest, width)
  BY IntervalsCover
<1>3. /\ j \in 0 .. MaxBuckets - 1
      /\ s \in LeftOf(j, lowest, width) .. RightOf(j, lowest, highest, width)
  BY IntervalsCover
<1>4. i < j
  OBVIOUS
<1> HIDE DEF width, i, j, r, s
<1>5. /\ LeftOf(j, lowest, width) \in Int
      /\ RightOf(i, lowest, highest, width) < LeftOf(j, lowest, width)
  <2>1. i \in Int /\ j \in Int /\ i + 1 <= j
    BY <1>2, <1>3, <1>4, BucketAssumption
  <2>2. j * width >= (i + 1) * width
    <3>1. (j - (i + 1)) * width >= 0
      BY <1>1, <2>1
    <3>2. (j - (i + 1)) * width = j * width - (i + 1) * width
      BY <1>1, <2>1
    <3>3. j * width \in Int /\ (i + 1) * width \in Int
      BY <1>1, <2>1
    <3> QED
      BY <3>1, <3>2, <3>3
  <2>3. (i + 1) * width = i * width + width /\ i * width \in Int /\ j * width \in Int
    BY <1>1, <2>1
  <2>4. RightOf(i, lowest, highest, width) <= lowest + i * width + width - 1
        /\ RightOf(i, lowest, highest, width) \in Int
    BY <1>1, <2>3 DEF RightOf, LeftOf
  <2> QED
    BY <1>1, <2>2, <2>3, <2>4 DEF LeftOf
<1>6. r < s
  <2>1. RightOf(i, lowest, highest, width) \in Int /\ LeftOf(i, lowest, width) \in Int
        /\ RightOf(j, lowest, highest, width) \in Int
    <3>1. i * width \in Int /\ j * width \in Int
      BY <1>1, <1>2, <1>3, BucketAssumption
    <3> QED
      BY <1>1, <3>1 DEF RightOf, LeftOf
  <2> QED
    BY <1>2, <1>3, <1>5, <2>1
<1> QED
  BY <1>6 DEF r, s, i, j, width

\* A histogram that groups the values into intervals.
LEMMA AggregatedHistogram ==
  ASSUME PopulationInv, ~(Cardinality(Observed(completed)) <= MaxBuckets)
  PROVE  HistogramIsFaithful
<1> DEFINE d == completed
           O == Observed(d)
           low == Lowest(d)
           high == Highest(d)
           width == Width(low, high)
           key == [v \in O |-> BucketOf(v, low, width)]
           K == {BucketOf(v, low, width) : v \in O}
           members(index) == {v \in O : BucketOf(v, low, width) = index}
           histogram == [index \in K |->
                           [x     |-> Representative(index, low, high, width),
                            count |-> FoldFunctionOnSet(+, 0, d, members(index))]]
           counts == [index \in DOMAIN histogram |-> histogram[index].count]
<1>1. IsDistribution(d)
  BY DEF PopulationInv
<1>2. build_histogram(d) = histogram
  BY DEF build_histogram
<1>3. O # {}
  <2>1. SUFFICES ASSUME O = {} PROVE FALSE
    OBVIOUS
  <2>2. Cardinality(O) = 0
    BY <2>1, FS_EmptySet
  <2> QED
    BY <2>2, BucketAssumption
<1>4. /\ low \in O /\ high \in O /\ O \subseteq Values
      /\ \A v \in O : v \in low .. high
  BY <1>1, <1>3, ExtremesFacts
<1>5. low \in Int /\ high \in Int /\ (\A v \in O : v \in Int)
  BY <1>4, PopulationAssumption DEF Values
<1>6. O = {v \in Values : d[v] > 0} /\ \A v \in Values : d[v] \in Nat
  BY <1>1 DEF Observed, IsDistribution
<1>7. IsFiniteSet(O) /\ IsFiniteSet(Values \ O)
      /\ \A index : IsFiniteSet(members(index)) /\ members(index) \subseteq O
  BY <1>4, ValuesAreFinite
<1> HIDE DEF low, high, O, d
<1>8. \A v \in O :
        /\ BucketOf(v, low, width) \in 0 .. MaxBuckets - 1
        /\ v \in LeftOf(BucketOf(v, low, width), low, width)
                   .. RightOf(BucketOf(v, low, width), low, high, width)
        /\ Representative(BucketOf(v, low, width), low, high, width)
             \in LeftOf(BucketOf(v, low, width), low, width)
                   .. RightOf(BucketOf(v, low, width), low, high, width)
  BY <1>4, <1>5, IntervalsCover
<1>9. width \in Int /\ width >= 1
  <2>1. \A a \in Nat, b \in Nat \ {0} : a \div b \in Nat
    OBVIOUS
  <2>2. high - low \in Nat
    BY <1>4, <1>5
  <2> QED
    BY <2>1, <2>2, BucketAssumption DEF Width
<1>10. \A v \in O : LET i == BucketOf(v, low, width)
                    IN /\ LeftOf(i, low, width) \in Int /\ low <= LeftOf(i, low, width)
                       /\ RightOf(i, low, high, width) \in Int
                       /\ RightOf(i, low, high, width) <= high
                       /\ RightOf(i, low, high, width) <= LeftOf(i, low, width) + width - 1
  <2>1. ASSUME NEW i \in 0 .. MaxBuckets - 1
        PROVE  /\ LeftOf(i, low, width) \in Int /\ low <= LeftOf(i, low, width)
               /\ RightOf(i, low, high, width) \in Int
               /\ RightOf(i, low, high, width) <= high
               /\ RightOf(i, low, high, width) <= LeftOf(i, low, width) + width - 1
    <3> HIDE DEF width
    <3>1. i * width \in Int /\ i * width >= 0
      BY <1>9, BucketAssumption
    <3> QED
      BY <1>5, <1>9, <3>1 DEF LeftOf, RightOf
  <2> HIDE DEF width
  <2> QED
    BY <1>8, <2>1
<1> HIDE DEF width
<1>11. Cardinality(K) <= MaxBuckets /\ IsFiniteSet(K)
  <2>1. IsFiniteSet(0 .. MaxBuckets - 1) /\ Cardinality(0 .. MaxBuckets - 1) = MaxBuckets
    BY FS_Interval, BucketAssumption
  <2>2. K \in SUBSET (0 .. MaxBuckets - 1)
    BY <1>8
  <2> QED
    BY <2>1, <2>2, FS_Subset, ZenonT(60)
<1>12. \A i \in K : FoldFunctionOnSet(+, 0, d, members(i)) = Sum(d, members(i))
  BY DEF Sum
<1>13. \A i \in K : histogram[i].count = Sum(d, members(i))
                    /\ histogram[i].x = Representative(i, low, high, width)
  BY <1>12
<1>14. DOMAIN histogram = K
  OBVIOUS
<1>15. \A i \in K : histogram[i].count > 0
  <2>1. ASSUME NEW i \in K PROVE Sum(d, members(i)) > 0
    <3>1. PICK v \in O : i = BucketOf(v, low, width)
      OBVIOUS
    <3>2. v \in members(i) /\ \A x \in members(i) : d[x] \in Nat
      BY <1>4, <1>6, <3>1
    <3>3. d[v] \in Nat /\ d[v] > 0
      BY <1>6
    <3> HIDE DEF members
    <3>4. d[v] <= Sum(d, members(i)) /\ Sum(d, members(i)) \in Nat
      BY <1>7, <3>2, SumCovers, SumNat
    <3> QED
      BY <3>3, <3>4
  <2> HIDE DEF histogram, K
  <2> QED
    BY <1>13, <2>1
<1>16. FoldFunction(+, 0, counts) = Total(d)
  <2> DEFINE groups == [i \in K |-> Sum(d, {x \in O : key[x] = i})]
  <2>1. FoldFunction(+, 0, counts) = Sum(counts, K)
    BY DEF FoldFunction, Sum
  <2>2. \A i \in K : counts[i] = groups[i]
    <3>1. ASSUME NEW i \in K PROVE counts[i] = groups[i]
      <4>1. members(i) = {x \in O : key[x] = i}
        OBVIOUS
      <4>2. counts[i] = Sum(d, members(i))
        <5> HIDE DEF histogram, K, members
        <5> QED
          BY <1>13, <1>14
      <4>3. groups[i] = Sum(d, {x \in O : key[x] = i})
        <5> HIDE DEF K, key
        <5> QED
          OBVIOUS
      <4> HIDE DEF counts, groups, members, key
      <4> QED
        BY <4>1, <4>2, <4>3
    <3> QED
      BY <3>1
  <2>3. {x \in O : key[x] \in K} = O
    OBVIOUS
  <2>4. \A x \in O : d[x] \in Nat
    BY <1>4, <1>6
  <2> HIDE DEF counts, K, key, members, histogram
  <2>5. Sum(groups, K) = Sum(d, {x \in O : key[x] \in K})
    BY <1>7, <1>11, <2>4, SumByKey
  <2> HIDE DEF groups
  <2>6. Sum(counts, K) = Sum(groups, K)
    BY <1>11, <2>2, SumSame
  <2>7. Sum(d, Values \ O) = 0
    <3>1. \A x \in Values \ O : d[x] = 0
      BY <1>6
    <3> QED
      BY <1>7, <3>1, SumOfZeros
  <2>8. Sum(d, O \cup (Values \ O)) = Sum(d, O) + Sum(d, Values \ O)
    <3>1. O \cap (Values \ O) = {} /\ \A x \in O \cup (Values \ O) : d[x] \in Nat
      BY <1>4, <1>6
    <3> QED
      BY <1>7, <3>1, SumUnion
  <2>9. Sum(d, O) \in Nat /\ O \cup (Values \ O) = Values /\ Total(d) = Sum(d, Values)
    BY <1>1, <1>4, <1>7, <2>4, SumNat, AtMostFacts
  <2>10. Sum(counts, K) = Sum(d, O)
    BY <2>3, <2>5, <2>6
  <2>11. Sum(d, O) = Total(d)
    <3>1. Sum(d, Values) = Sum(d, O) + 0
      BY <2>7, <2>8, <2>9, Zenon
    <3> QED
      BY <2>9, <3>1
  <2> QED
    BY <2>1, <2>10, <2>11, Zenon
<1>17. \A i, j \in K : i < j => histogram[i].x < histogram[j].x
  <2>1. ASSUME NEW i \in K, NEW j \in K, i < j
        PROVE  Representative(i, low, high, width) < Representative(j, low, high, width)
    <3>1. PICK v \in O : i = BucketOf(v, low, width)
      OBVIOUS
    <3>2. PICK w \in O : j = BucketOf(w, low, width)
      OBVIOUS
    <3> QED
      BY <1>4, <1>5, <2>1, <3>1, <3>2, IntervalsFollow DEF width
  <2> HIDE DEF histogram, K
  <2> QED
    BY <1>13, <2>1
<1>18. \A i \in K : histogram[i].x \in low .. high
  <2>1. ASSUME NEW i \in K PROVE Representative(i, low, high, width) \in low .. high
    <3>1. PICK v \in O : i = BucketOf(v, low, width)
      OBVIOUS
    <3> QED
      BY <1>5, <1>8, <1>10, <3>1
  <2> HIDE DEF histogram, K
  <2> QED
    BY <1>13, <2>1
<1>19. \A v \in O : \E i \in K : histogram[i].x - v \in 1 - width .. width - 1
  <2>1. ASSUME NEW v \in O
        PROVE  /\ BucketOf(v, low, width) \in K
               /\ Representative(BucketOf(v, low, width), low, high, width) - v
                    \in 1 - width .. width - 1
    BY <1>5, <1>8, <1>9, <1>10
  <2> HIDE DEF histogram, K
  <2> QED
    BY <1>13, <2>1
<1> HIDE DEF histogram, K
<1>20. /\ Cardinality(DOMAIN histogram) <= MaxBuckets
       /\ \A i \in DOMAIN histogram : histogram[i].count > 0
       /\ \A i, j \in DOMAIN histogram : i < j => histogram[i].x < histogram[j].x
       /\ FoldFunction(+, 0, [i \in DOMAIN histogram |-> histogram[i].count]) = Total(d)
       /\ \A i \in DOMAIN histogram : histogram[i].x \in low .. high
       /\ \A v \in O : \E i \in DOMAIN histogram :
            histogram[i].x - v \in 1 - width .. width - 1
  BY <1>11, <1>14, <1>15, <1>16, <1>17, <1>18, <1>19
<1> QED
  BY <1>2, <1>20 DEF HistogramIsFaithful, d, O, low, high, width

\* However many simulations and values, a histogram loses no simulation, keeps its
\* order and stands for every value within the width of a bucket (build_histogram).
THEOREM HistogramsAreFaithful == PopulationSpec => []HistogramIsFaithful
<1>1. PopulationInv => HistogramIsFaithful
  BY DirectHistogram, AggregatedHistogram
<1> QED
  BY PopulationInitInv, PopulationStepInv, <1>1, PTL DEF PopulationSpec

(******************** what simulation i is owed ****************************)
\* Forecast's operators as functions of the command, for both engines.
RowOf(c, i) ==
  [week \in 1 .. Slots(c) |-> Sample(c, Advance(c.seed, (i - 1) * Slots(c) + week))]

Reached(c, row) == {week \in DOMAIN row : Sum(row, 1 .. week) >= c.target}

OutcomeOf(c, row) ==
  IF c.mode = "backlog_to_weeks"
  THEN IF Reached(c, row) = {} THEN 0
       ELSE CHOOSE week \in Reached(c, row) : \A other \in Reached(c, row) : week <= other
  ELSE Sum(row, 1 .. c.target)

Dropped(c, week) == c.mode = "backlog_to_weeks" /\ week = 0

\* The equation of the recursion that keeps the outcomes.
IsKept(f, c, s) ==
  f = [n \in 0 .. Len(s) |->
         IF n = 0 THEN <<>>
         ELSE IF Dropped(c, s[n]) THEN f[n - 1]
         ELSE Append(f[n - 1], s[n])]

KeptOf(c, s) == (CHOOSE f : IsKept(f, c, s))[Len(s)]

LEMMA BatchOperators ==
  /\ \A i : BatchForecast!Row(i) = RowOf(command, i)
  /\ \A row : BatchForecast!Outcome(row) = OutcomeOf(command, row)
  /\ \A s : BatchForecast!Kept(s) = KeptOf(command, s)
<1>1. \A i : BatchForecast!Row(i) = RowOf(command, i)
  BY Zenon DEF BatchForecast!Row, RowOf, BatchForecast!Slots, Slots,
        BatchForecast!Advance, Advance, BatchForecast!Sample, Sample,
        BatchForecast!SampleIndex, SampleIndex
<1>2. \A row, week : BatchForecast!Delivered(row, week) = Sum(row, 1 .. week)
  BY DEF BatchForecast!Delivered, BatchForecast!FoldFunctionOnSet,
        BatchForecast!MapThenFoldSet, Sum, FoldFunctionOnSet, MapThenFoldSet
<1>3. ASSUME NEW row PROVE BatchForecast!Outcome(row) = OutcomeOf(command, row)
  <2> DEFINE first == CHOOSE week \in Reached(command, row) :
                        \A other \in Reached(command, row) : week <= other
  <2>1. BatchForecast!CompletionWeek(row)
          = IF Reached(command, row) = {} THEN 0 ELSE first
    <3>1. Reached(command, row)
            = {week \in DOMAIN row : BatchForecast!Delivered(row, week) >= command.target}
      BY <1>2 DEF Reached
    <3> QED
      BY <3>1 DEF BatchForecast!CompletionWeek, BatchForecast!Censored
  <2>2. OutcomeOf(command, row)
          = IF command.mode = "backlog_to_weeks"
            THEN IF Reached(command, row) = {} THEN 0 ELSE first
            ELSE Sum(row, 1 .. command.target)
    BY Zenon DEF OutcomeOf
  <2> HIDE DEF first
  <2> QED
    BY <1>2, <2>1, <2>2 DEF BatchForecast!Outcome
<1>4. \A s : BatchForecast!Kept(s) = KeptOf(command, s)
  BY DEF BatchForecast!Kept, KeptOf, IsKept, Dropped, BatchForecast!Censored
<1> QED
  BY <1>1, <1>3, <1>4

LEMMA SlotOperators ==
  /\ \A i : SlotForecast!Row(i) = RowOf(command, i)
  /\ \A row : SlotForecast!Outcome(row) = OutcomeOf(command, row)
  /\ \A s : SlotForecast!Kept(s) = KeptOf(command, s)
<1>1. \A i : SlotForecast!Row(i) = RowOf(command, i)
  BY Zenon DEF SlotForecast!Row, RowOf, SlotForecast!Slots, Slots,
        SlotForecast!Advance, Advance, SlotForecast!Sample, Sample,
        SlotForecast!SampleIndex, SampleIndex
<1>2. \A row, week : SlotForecast!Delivered(row, week) = Sum(row, 1 .. week)
  BY DEF SlotForecast!Delivered, SlotForecast!FoldFunctionOnSet,
        SlotForecast!MapThenFoldSet, Sum, FoldFunctionOnSet, MapThenFoldSet
<1>3. ASSUME NEW row PROVE SlotForecast!Outcome(row) = OutcomeOf(command, row)
  <2> DEFINE first == CHOOSE week \in Reached(command, row) :
                        \A other \in Reached(command, row) : week <= other
  <2>1. SlotForecast!CompletionWeek(row)
          = IF Reached(command, row) = {} THEN 0 ELSE first
    <3>1. Reached(command, row)
            = {week \in DOMAIN row : SlotForecast!Delivered(row, week) >= command.target}
      BY <1>2 DEF Reached
    <3> QED
      BY <3>1 DEF SlotForecast!CompletionWeek, SlotForecast!Censored
  <2>2. OutcomeOf(command, row)
          = IF command.mode = "backlog_to_weeks"
            THEN IF Reached(command, row) = {} THEN 0 ELSE first
            ELSE Sum(row, 1 .. command.target)
    BY Zenon DEF OutcomeOf
  <2> HIDE DEF first
  <2> QED
    BY <1>2, <2>1, <2>2 DEF SlotForecast!Outcome
<1>4. \A s : SlotForecast!Kept(s) = KeptOf(command, s)
  BY DEF SlotForecast!Kept, KeptOf, IsKept, Dropped, SlotForecast!Censored
<1> QED
  BY <1>1, <1>3, <1>4

(*************************** kept outcomes *********************************)
KeptStep(f, c, s, n) ==
  IF n = 0 THEN <<>>
  ELSE IF Dropped(c, s[n]) THEN f[n - 1]
  ELSE Append(f[n - 1], s[n])

\* A function that follows the recursion up to n.
KeepsTo(f, c, s, n) == f = [k \in 0 .. n |-> KeptStep(f, c, s, k)]

LEMMA KeptSolves ==
  ASSUME NEW c, NEW s, Len(s) \in Nat
  PROVE  \E f : KeepsTo(f, c, s, Len(s)) /\ KeptOf(c, s) = f[Len(s)]
<1> DEFINE G == {n \in Nat : \E f : KeepsTo(f, c, s, n)}
<1>1. 0 \in G
  <2> DEFINE f == [k \in 0 .. 0 |-> <<>>]
  <2>1. KeepsTo(f, c, s, 0)
    BY DEF KeepsTo, KeptStep
  <2> QED
    BY <2>1
<1>2. ASSUME NEW n \in Nat, n \in G PROVE n + 1 \in G
  <2>1. PICK f : KeepsTo(f, c, s, n)
    BY <1>2
  <2> DEFINE g == [k \in 0 .. n + 1 |-> KeptStep(f, c, s, k)]
  <2>2. \A k \in 0 .. n : f[k] = KeptStep(f, c, s, k)
    <3> DEFINE h(k) == KeptStep(f, c, s, k)
    <3>1. f = [k \in 0 .. n |-> h(k)]
      BY <2>1 DEF KeepsTo
    <3> HIDE DEF h
    <3>2. \A k \in 0 .. n : f[k] = h(k)
      BY <3>1
    <3> QED
      BY <3>2 DEF h
  <2>3. \A k \in 0 .. n : g[k] = f[k]
    BY <2>2
  <2>4. \A k \in 0 .. n + 1 : g[k] = KeptStep(g, c, s, k)
    <3>1. ASSUME NEW k \in 0 .. n + 1 PROVE KeptStep(f, c, s, k) = KeptStep(g, c, s, k)
      <4>1. k = 0 \/ (k # 0 /\ k - 1 \in 0 .. n)
        OBVIOUS
      <4> HIDE DEF g
      <4> QED
        BY <2>3, <4>1 DEF KeptStep
    <3> QED
      BY <3>1
  <2>5. g = [k \in 0 .. n + 1 |-> g[k]]
    OBVIOUS
  <2> HIDE DEF g
  <2>6. KeepsTo(g, c, s, n + 1)
    BY <2>4, <2>5 DEF KeepsTo
  <2> QED
    BY <2>6
<1>3. Len(s) \in G
  <2> HIDE DEF G
  <2> QED
    BY <1>1, <1>2, NatSetInduction
<1>4. \A f : KeepsTo(f, c, s, Len(s)) <=> IsKept(f, c, s)
  BY DEF KeepsTo, IsKept, KeptStep
<1> QED
  BY <1>3, <1>4 DEF KeptOf

\* The values of such a function, one by one.
LEMMA KeepsStep ==
  ASSUME NEW f, NEW c, NEW s, NEW n \in Nat, KeepsTo(f, c, s, n)
  PROVE  /\ f[0] = <<>>
         /\ \A k \in 1 .. n :
              f[k] = IF Dropped(c, s[k]) THEN f[k - 1] ELSE Append(f[k - 1], s[k])
<1> DEFINE h(k) == KeptStep(f, c, s, k)
<1>1. f = [k \in 0 .. n |-> h(k)]
  BY DEF KeepsTo
<1> HIDE DEF h
<1>2. \A k \in 0 .. n : f[k] = h(k)
  BY <1>1
<1> QED
  BY <1>2 DEF h, KeptStep

LEMMA AppendToConcat ==
  ASSUME NEW a \in Seq(Nat), NEW b \in Seq(Nat), NEW x \in Nat
  PROVE  Append(a \o b, x) = a \o Append(b, x)
<1>1. a \o b \in Seq(Nat)
  BY ConcatProperties
<1>2. <<x>> \in Seq(Nat)
  OBVIOUS
<1>3. Append(a \o b, x) = (a \o b) \o <<x>> /\ Append(b, x) = b \o <<x>>
  BY <1>1, AppendIsConcat
<1>4. (a \o b) \o <<x>> = a \o (b \o <<x>>)
  BY <1>2, ConcatAssociative
<1> QED
  BY <1>3, <1>4

\* What is kept of two runs of simulations is what is kept of each.
LEMMA KeptConcat ==
  ASSUME NEW c, NEW s \in Seq(Nat), NEW t \in Seq(Nat)
  PROVE  /\ KeptOf(c, s) \in Seq(Nat)
         /\ KeptOf(c, s \o t) = KeptOf(c, s) \o KeptOf(c, t)
<1> DEFINE u == s \o t
           m == Len(s)
           l == Len(t)
<1>1. /\ m \in Nat /\ l \in Nat /\ Len(u) = m + l
      /\ \A k \in 1 .. m : u[k] = s[k] /\ s[k] \in Nat
      /\ \A k \in 1 .. l : u[m + k] = t[k] /\ t[k] \in Nat
  OBVIOUS
<1> HIDE DEF u, m, l
<1>2. m + l \in Nat
  BY <1>1
<1>3. PICK f : KeepsTo(f, c, u, m + l) /\ KeptOf(c, u) = f[m + l]
  BY <1>1, <1>2, KeptSolves, ZenonT(60)
<1>4. PICK g : KeepsTo(g, c, s, m) /\ KeptOf(c, s) = g[m]
  BY <1>1, KeptSolves DEF m
<1>5. PICK h : KeepsTo(h, c, t, l) /\ KeptOf(c, t) = h[l]
  BY <1>1, KeptSolves DEF l
<1>6. /\ f[0] = <<>>
      /\ \A k \in 1 .. m + l :
           f[k] = IF Dropped(c, u[k]) THEN f[k - 1] ELSE Append(f[k - 1], u[k])
  BY <1>2, <1>3, KeepsStep
<1>7. /\ g[0] = <<>>
      /\ \A k \in 1 .. m :
           g[k] = IF Dropped(c, s[k]) THEN g[k - 1] ELSE Append(g[k - 1], s[k])
  BY <1>1, <1>4, KeepsStep
<1>8. /\ h[0] = <<>>
      /\ \A k \in 1 .. l :
           h[k] = IF Dropped(c, t[k]) THEN h[k - 1] ELSE Append(h[k - 1], t[k])
  BY <1>1, <1>5, KeepsStep
<1>9. <<>> \in Seq(Nat) /\ \A a \in Seq(Nat), x \in Nat : Append(a, x) \in Seq(Nat)
  BY EmptySeq, AppendProperties
<1>10. g[m] \in Seq(Nat) /\ f[m] = g[m]
  <2> DEFINE G == {n \in Nat : n <= m => g[n] \in Seq(Nat) /\ f[n] = g[n]}
  <2>1. 0 \in G
    <3>1. g[0] \in Seq(Nat) /\ f[0] = g[0]
      BY <1>6, <1>7, <1>9
    <3> QED
      BY <3>1
  <2>2. ASSUME NEW n \in Nat, n \in G PROVE n + 1 \in G
    <3>1. ASSUME n + 1 <= m PROVE g[n + 1] \in Seq(Nat) /\ f[n + 1] = g[n + 1]
      <4>1. n + 1 \in 1 .. m /\ n + 1 \in 1 .. m + l /\ (n + 1) - 1 = n
        BY <1>1, <3>1
      <4>2. g[n] \in Seq(Nat) /\ f[n] = g[n]
        BY <1>1, <2>2, <3>1
      <4>3. u[n + 1] = s[n + 1] /\ s[n + 1] \in Nat
        BY <1>1, <4>1
      <4>4. g[n + 1] = IF Dropped(c, s[n + 1]) THEN g[n] ELSE Append(g[n], s[n + 1])
        BY <1>7, <4>1
      <4>5. f[n + 1] = IF Dropped(c, u[n + 1]) THEN f[n] ELSE Append(f[n], u[n + 1])
        BY <1>6, <4>1
      <4> QED
        BY <1>9, <4>2, <4>3, <4>4, <4>5
    <3> QED
      BY <3>1
  <2>3. m \in G
    <3> HIDE DEF G
    <3> QED
      BY <1>1, <2>1, <2>2, NatSetInduction
  <2> QED
    BY <1>1, <2>3
<1>11. f[m + l] = g[m] \o h[l]
  <2> DEFINE joined(n) == h[n] \in Seq(Nat) /\ f[m + n] = g[m] \o h[n]
             G == {n \in Nat : n <= l => joined(n)}
  <2>1. 0 \in G
    <3>1. m + 0 = m /\ h[0] \in Seq(Nat)
      BY <1>1, <1>8, <1>9
    <3>2. g[m] \o <<>> = g[m]
      BY <1>10, ConcatEmptySeq
    <3>3. f[m + 0] = g[m] \o h[0]
      BY <1>8, <1>10, <3>1, <3>2
    <3>4. joined(0)
      BY <3>1, <3>3
    <3> HIDE DEF joined
    <3> QED
      BY <3>4
  <2>2. ASSUME NEW n \in Nat, n \in G PROVE n + 1 \in G
    <3>1. ASSUME n + 1 <= l PROVE joined(n + 1)
      <4> DEFINE k == m + (n + 1)
      <4>1. n + 1 \in 1 .. l /\ k \in 1 .. m + l /\ (n + 1) - 1 = n /\ k - 1 = m + n
        BY <1>1, <3>1
      <4>2. h[n] \in Seq(Nat) /\ f[m + n] = g[m] \o h[n]
        <5>1. joined(n)
          <6> HIDE DEF joined
          <6> QED
            BY <1>1, <2>2, <3>1
        <5> QED
          BY <5>1
      <4>3. u[k] = t[n + 1] /\ t[n + 1] \in Nat
        BY <1>1, <4>1
      <4> HIDE DEF k
      <4>4. h[n + 1] = IF Dropped(c, t[n + 1]) THEN h[n] ELSE Append(h[n], t[n + 1])
        BY <1>8, <4>1
      <4>5. f[k] = IF Dropped(c, u[k]) THEN f[m + n] ELSE Append(f[m + n], u[k])
        BY <1>6, <4>1
      <4>6. Append(g[m] \o h[n], t[n + 1]) = g[m] \o Append(h[n], t[n + 1])
        BY <1>10, <4>2, <4>3, AppendToConcat
      <4>7. h[n + 1] \in Seq(Nat)
        BY <1>9, <4>2, <4>3, <4>4
      <4>8. f[k] = g[m] \o h[n + 1]
        BY <4>2, <4>3, <4>4, <4>5, <4>6, Zenon
      <4> QED
        BY <4>7, <4>8 DEF k
    <3> HIDE DEF joined
    <3> QED
      BY <3>1
  <2>3. l \in G
    <3> HIDE DEF G
    <3> QED
      BY <1>1, <2>1, <2>2, NatSetInduction
  <2>4. joined(l)
    <3> HIDE DEF joined
    <3> QED
      BY <1>1, <2>3
  <2> QED
    BY <2>4
<1> QED
  BY <1>3, <1>4, <1>5, <1>10, <1>11 DEF u

LEMMA KeptSingle ==
  ASSUME NEW c, NEW s, Len(s) = 1
  PROVE  KeptOf(c, s) = IF Dropped(c, s[1]) THEN <<>> ELSE Append(<<>>, s[1])
<1>1. PICK f : KeepsTo(f, c, s, 1) /\ KeptOf(c, s) = f[1]
  <2>1. Len(s) \in Nat
    OBVIOUS
  <2> QED
    BY <2>1, KeptSolves
<1>2. /\ f[0] = <<>>
      /\ \A k \in 1 .. 1 :
           f[k] = IF Dropped(c, s[k]) THEN f[k - 1] ELSE Append(f[k - 1], s[k])
  BY <1>1, KeepsStep
<1>3. f[1] = IF Dropped(c, s[1]) THEN f[0] ELSE Append(f[0], s[1])
  <2>1. 1 \in 1 .. 1 /\ 1 - 1 = 0
    OBVIOUS
  <2> QED
    BY <1>2, <2>1
<1> QED
  BY <1>1, <1>2, <1>3

LEMMA KeptNone ==
  ASSUME NEW c PROVE KeptOf(c, <<>>) = <<>>
<1>1. Len(<<>>) = 0
  OBVIOUS
<1>2. PICK f : KeepsTo(f, c, <<>>, 0) /\ KeptOf(c, <<>>) = f[0]
  BY <1>1, KeptSolves
<1> QED
  BY <1>2, KeepsStep

(**************************** rows of draws ********************************)
\* A draw is one of the samples: the index never leaves them.
LEMMA SampleFacts ==
  ASSUME NEW c \in Commands, NEW k \in Nat
  PROVE  Sample(c, Advance(c.seed, k)) \in Nat
<1> DEFINE count == Len(c.usable)
           word == Mix[Advance(c.seed, k)]
<1>1. c \in CommandType
  BY McaAssumption
<1>2. c.usable \in Seq(Nat) /\ c.usable # <<>> /\ c.seed \in Nat
  BY <1>1, McaAssumption DEF CommandType, Word
<1>3. count \in Nat \ {0}
  BY <1>2
<1>4. word \in Nat /\ word < WordSize
  <2>1. \A a \in Nat : a % WordSize \in 0 .. WordSize - 1
    BY McaAssumption
  <2>2. c.seed + k * StateIncrement \in Nat
    <3>1. k * StateIncrement \in Nat
      BY McaAssumption
    <3> QED
      BY <1>2, <3>1
  <2>3. Advance(c.seed, k) \in Word
    BY <2>1, <2>2 DEF Advance, Word
  <2>4. word \in Word
    BY <2>3, McaAssumption
  <2> QED
    BY <2>4, McaAssumption DEF Word
<1> HIDE DEF count, word
<1>5. (word * count) \div WordSize \in 0 .. count - 1
  <2> DEFINE p == word * count
             q == p \div WordSize
             r == p % WordSize
  <2>1. p \in Nat
    BY <1>3, <1>4
  <2>2. p < WordSize * count
    <3>1. (WordSize - word) * count > 0
      BY <1>3, <1>4, McaAssumption
    <3>2. (WordSize - word) * count = WordSize * count - word * count
      BY <1>3, <1>4, McaAssumption
    <3>3. WordSize * count \in Int
      BY <1>3, McaAssumption
    <3> QED
      BY <2>1, <3>1, <3>2, <3>3
  <2> HIDE DEF p
  <2>3. q \in Int /\ q >= 0 /\ r \in 0 .. WordSize - 1 /\ p = WordSize * q + r
    BY <2>1, McaAssumption
  <2> HIDE DEF q, r
  <2>4. q < count
    <3>1. SUFFICES ASSUME q >= count PROVE FALSE
      BY <1>3, <2>3
    <3>2. WordSize * (q - count) >= 0
      BY <1>3, <2>3, <3>1, McaAssumption
    <3>3. WordSize * (q - count) = WordSize * q - WordSize * count
      BY <1>3, <2>3, McaAssumption
    <3>4. WordSize * q \in Int /\ WordSize * count \in Int
      BY <1>3, <2>3, McaAssumption
    <3> QED
      BY <2>1, <2>2, <2>3, <3>2, <3>3, <3>4
  <2> QED
    BY <1>3, <2>3, <2>4 DEF q, p
<1>6. (word * count) \div WordSize + 1 \in 1 .. Len(c.usable)
  BY <1>3, <1>5 DEF count
<1>7. Sample(c, Advance(c.seed, k)) = c.usable[(word * count) \div WordSize + 1]
  BY DEF Sample, SampleIndex, word, count
<1> QED
  BY <1>2, <1>6, <1>7

LEMMA RowFacts ==
  ASSUME NEW c \in Commands, NEW i \in Nat \ {0}
  PROVE  /\ RowOf(c, i) \in [1 .. Slots(c) -> Nat]
         /\ \A week \in 1 .. Slots(c) :
              RowOf(c, i)[week] = Sample(c, Advance(c.seed, (i - 1) * Slots(c) + week))
<1>1. Slots(c) \in Nat
  BY CommandShape
<1>2. ASSUME NEW week \in 1 .. Slots(c)
      PROVE  Sample(c, Advance(c.seed, (i - 1) * Slots(c) + week)) \in Nat
  <2>1. (i - 1) * Slots(c) + week \in Nat
    <3>1. (i - 1) * Slots(c) \in Nat
      BY <1>1
    <3> QED
      BY <1>1, <3>1
  <2> QED
    BY <2>1, SampleFacts
<1> QED
  BY <1>2 DEF RowOf

\* What a row has delivered after one more week.
LEMMA RowGrows ==
  ASSUME NEW c \in Commands, NEW i \in Nat \ {0}
  PROVE  /\ Sum(RowOf(c, i), 1 .. 0) = 0
         /\ \A week \in 0 .. Slots(c) : Sum(RowOf(c, i), 1 .. week) \in Nat
         /\ \A week \in 1 .. Slots(c) :
              Sum(RowOf(c, i), 1 .. week)
                = Sum(RowOf(c, i), 1 .. week - 1) + RowOf(c, i)[week]
<1> DEFINE row == RowOf(c, i)
<1>1. Slots(c) \in Nat /\ row \in [1 .. Slots(c) -> Nat]
  BY CommandShape, RowFacts
<1> HIDE DEF row
<1>2. Sum(row, 1 .. 0) = 0
  <2>1. 1 .. 0 = {}
    OBVIOUS
  <2> QED
    BY <2>1, SumEmpty
<1>3. ASSUME NEW week \in 0 .. Slots(c)
      PROVE  IsFiniteSet(1 .. week) /\ (\A x \in 1 .. week : row[x] \in Nat)
             /\ Sum(row, 1 .. week) \in Nat
  <2>1. IsFiniteSet(1 .. week)
    BY <1>1, FS_Interval
  <2>2. \A x \in 1 .. week : row[x] \in Nat
    BY <1>1
  <2> QED
    BY <2>1, <2>2, SumNat
<1>4. ASSUME NEW week \in 1 .. Slots(c)
      PROVE  Sum(row, 1 .. week) = Sum(row, 1 .. week - 1) + row[week]
  <2>1. week \in 0 .. Slots(c) /\ week - 1 \in 0 .. Slots(c) /\ week \in 1 .. week
    BY <1>1
  <2>2. (1 .. week) \ {week} = 1 .. week - 1
    BY <1>1
  <2>3. Sum(row, 1 .. week) = row[week] + Sum(row, (1 .. week) \ {week})
    <3>1. IsFiniteSet(1 .. week) /\ \A x \in 1 .. week : row[x] \in Nat
      BY <1>3, <2>1
    <3> QED
      BY <2>1, <3>1, SumRemove, SMTT(60)
  <2>4. Sum(row, 1 .. week - 1) \in Nat /\ row[week] \in Nat
    BY <1>1, <1>3, <2>1
  <2>5. Sum(row, (1 .. week) \ {week}) = Sum(row, 1 .. week - 1)
    BY <2>2
  <2> QED
    BY <2>3, <2>4, <2>5
<1> QED
  BY <1>2, <1>3, <1>4 DEF row

(******************** what each engine has computed ************************)
OutcomesFrom(c, n, k) == [i \in 1 .. k |-> OutcomeOf(c, RowOf(c, n + i))]

LEMMA OutcomeFacts ==
  ASSUME NEW c \in Commands, NEW i \in Nat \ {0}
  PROVE  OutcomeOf(c, RowOf(c, i)) \in Nat
<1> DEFINE row == RowOf(c, i)
<1>1. c.mode \in Modes /\ c.target \in Nat \ {0} /\ Slots(c) \in Nat
      /\ row \in [1 .. Slots(c) -> Nat]
  BY CommandShape, RowFacts
<1>2. CASE c.mode = "backlog_to_weeks" /\ Reached(c, row) # {}
  <2>1. Reached(c, row) \subseteq Nat
    BY <1>1 DEF Reached
  <2>2. \E week \in Reached(c, row) : \A other \in Reached(c, row) : week <= other
    BY <1>2, <2>1, LeastNatural
  <2> DEFINE first == CHOOSE week \in Reached(c, row) :
                        \A other \in Reached(c, row) : week <= other
  <2>3. first \in Reached(c, row)
    BY <2>2
  <2>4. OutcomeOf(c, row) = first
    BY <1>2 DEF OutcomeOf
  <2> QED
    BY <2>1, <2>3, <2>4
<1>3. CASE c.mode = "backlog_to_weeks" /\ Reached(c, row) = {}
  BY <1>3 DEF OutcomeOf
<1>4. CASE c.mode # "backlog_to_weeks"
  <2>1. Slots(c) = c.target /\ c.target \in 0 .. Slots(c)
    BY <1>1, <1>4 DEF Slots
  <2>2. Sum(row, 1 .. c.target) \in Nat
    BY <2>1, RowGrows
  <2> QED
    BY <1>4, <2>2 DEF OutcomeOf
<1> QED
  BY <1>2, <1>3, <1>4

LEMMA OutcomesFacts ==
  ASSUME NEW c \in Commands, NEW n \in Nat, NEW k \in Nat
  PROVE  OutcomesFrom(c, n, k) \in Seq(Nat) /\ Len(OutcomesFrom(c, n, k)) = k
<1> DEFINE o(i) == OutcomeOf(c, RowOf(c, n + i))
<1>1. \A i \in 1 .. k : o(i) \in Nat
  BY OutcomeFacts
<1> HIDE DEF o
<1>2. [i \in 1 .. k |-> o(i)] \in Seq(Nat) /\ Len([i \in 1 .. k |-> o(i)]) = k
  BY <1>1
<1> QED
  BY <1>2 DEF o, OutcomesFrom

LEMMA OutcomesExtend ==
  ASSUME NEW c \in Commands, NEW n \in Nat, NEW k \in Nat
  PROVE  OutcomesFrom(c, 0, n + k) = OutcomesFrom(c, 0, n) \o OutcomesFrom(c, n, k)
<1> DEFINE o(i) == OutcomeOf(c, RowOf(c, i))
           a == [i \in 1 .. n |-> o(i)]
           b == [i \in 1 .. k |-> o(n + i)]
           u == [i \in 1 .. n + k |-> o(i)]
<1>1. \A i \in Nat : 0 + i = i
  OBVIOUS
<1>2. a = OutcomesFrom(c, 0, n) /\ b = OutcomesFrom(c, n, k) /\ u = OutcomesFrom(c, 0, n + k)
  BY <1>1 DEF OutcomesFrom
<1>3. /\ a \in Seq(Nat) /\ Len(a) = n /\ b \in Seq(Nat) /\ Len(b) = k
      /\ u \in Seq(Nat) /\ Len(u) = n + k
  <2>1. 0 \in Nat /\ n + k \in Nat
    OBVIOUS
  <2>2. OutcomesFrom(c, 0, n) \in Seq(Nat) /\ Len(OutcomesFrom(c, 0, n)) = n
    BY <2>1, OutcomesFacts
  <2>3. OutcomesFrom(c, n, k) \in Seq(Nat) /\ Len(OutcomesFrom(c, n, k)) = k
    BY OutcomesFacts
  <2>4. OutcomesFrom(c, 0, n + k) \in Seq(Nat) /\ Len(OutcomesFrom(c, 0, n + k)) = n + k
    BY <2>1, OutcomesFacts
  <2> HIDE DEF a, b, u
  <2> QED
    BY <1>2, <2>2, <2>3, <2>4
<1>4. \A i \in 1 .. n + k : u[i] = IF i <= n THEN a[i] ELSE b[i - n]
  <2>1. ASSUME NEW i \in 1 .. n + k PROVE u[i] = IF i <= n THEN a[i] ELSE b[i - n]
    <3> HIDE DEF o
    <3>1. u[i] = o(i)
      OBVIOUS
    <3>2. CASE i <= n
      BY <3>1, <3>2
    <3>3. CASE ~(i <= n)
      <4>1. i - n \in 1 .. k /\ n + (i - n) = i
        BY <3>3
      <4>2. b[i - n] = o(n + (i - n))
        BY <4>1
      <4> QED
        BY <3>1, <3>3, <4>1, <4>2
    <3> QED
      BY <3>2, <3>3
  <2> QED
    BY <2>1
<1> HIDE DEF a, b, u
<1>5. /\ a \o b \in Seq(Nat) /\ Len(a \o b) = n + k
      /\ \A i \in 1 .. n + k : (a \o b)[i] = IF i <= n THEN a[i] ELSE b[i - n]
  BY <1>3, ConcatProperties
<1>6. u = a \o b
  <2>1. \A i \in 1 .. n + k : u[i] = (a \o b)[i]
    BY <1>4, <1>5
  <2> QED
    BY <1>3, <1>5, <2>1, SeqEqual
<1> QED
  BY <1>2, <1>6

\* The results after k more simulations.
LEMMA KeptExtend ==
  ASSUME NEW c \in Commands, NEW n \in Nat, NEW k \in Nat
  PROVE  KeptOf(c, OutcomesFrom(c, 0, n + k))
           = KeptOf(c, OutcomesFrom(c, 0, n)) \o KeptOf(c, OutcomesFrom(c, n, k))
<1>1. OutcomesFrom(c, 0, n) \in Seq(Nat) /\ OutcomesFrom(c, n, k) \in Seq(Nat)
  BY OutcomesFacts
<1> QED
  <2>1. KeptOf(c, OutcomesFrom(c, 0, n) \o OutcomesFrom(c, n, k))
          = KeptOf(c, OutcomesFrom(c, 0, n)) \o KeptOf(c, OutcomesFrom(c, n, k))
    BY <1>1, KeptConcat
  <2> QED
    BY <2>1, OutcomesExtend

CurrentRow == RowOf(command, slot.done + 1)

\* How far the week-by-week engine is in its simulation: it has delivered what the
\* row has, and no earlier week had reached the backlog.
Progress ==
  /\ slot.delivered = Sum(CurrentRow, 1 .. slot.weeks)
  /\ command.mode = "backlog_to_weeks" =>
       \A week \in 1 .. slot.weeks - 1 : Sum(CurrentRow, 1 .. week) < command.target

\* The results of each engine are what its simulations are owed.
OwnResults ==
  /\ batch.results = KeptOf(command, OutcomesFrom(command, 0, batch.done))
  /\ slot.results = KeptOf(command, OutcomesFrom(command, 0, slot.done))

EnginesInv == Inv /\ Progress /\ OwnResults

LEMMA EnginesInitInv == Init => EnginesInv
<1> SUFFICES ASSUME Init PROVE EnginesInv
  OBVIOUS
<1>1. Inv
  BY InitInv
<1>2. /\ command \in Commands /\ batch.results = <<>> /\ batch.done = 0
      /\ slot.results = <<>> /\ slot.done = 0 /\ slot.weeks = 0 /\ slot.delivered = 0
  BY DEF Init
<1>3. KeptOf(command, OutcomesFrom(command, 0, 0)) = <<>>
  <2>1. OutcomesFrom(command, 0, 0) = <<>>
    BY <1>2, OutcomesFacts, EmptySeq
  <2> QED
    BY <2>1, KeptNone
<1>4. Sum(CurrentRow, 1 .. 0) = 0
  BY <1>2, RowGrows DEF CurrentRow
<1>5. Progress
  BY <1>2, <1>4 DEF Progress
<1> QED
  BY <1>1, <1>2, <1>3, <1>5 DEF EnginesInv, OwnResults

\* Everything that the frame of an engine's step leaves alone.
LEMMA EnginesFacts ==
  ASSUME EnginesInv
  PROVE  /\ command \in Commands /\ command.mode \in Modes
         /\ command.target \in Nat \ {0} /\ Slots(command) \in Nat \ {0}
         /\ batch.done \in Nat /\ slot.done \in Nat /\ slot.done + 1 \in Nat \ {0}
         /\ slot.weeks \in 0 .. Slots(command)
         /\ slot.delivered = Sum(CurrentRow, 1 .. slot.weeks)
         /\ slot.delivered \in Nat
<1>1. Inv /\ Progress
  BY DEF EnginesInv
<1>2. /\ command \in Commands /\ batch.done \in Nat /\ slot.done \in Nat
      /\ slot.weeks \in 0 .. Slots(command)
  BY <1>1, McaAssumption DEF Inv, Loops
<1>3. slot.done + 1 \in Nat \ {0}
  BY <1>2
<1>4. Sum(CurrentRow, 1 .. slot.weeks) \in Nat
  BY <1>2, <1>3, RowGrows DEF CurrentRow
<1> QED
  BY <1>1, <1>2, <1>3, <1>4, CommandShape DEF Progress

LEMMA BatchStepResults ==
  ASSUME EnginesInv, RunBatch
  PROVE  Progress' /\ OwnResults'
<1> DEFINE n == CurrentBatch
<1>1. Inv
  BY DEF EnginesInv
<1>2. n \in 1 .. NSims
  BY <1>1, BatchFits DEF RunBatch
<1>3. /\ batch'.done = batch.done + n
      /\ batch'.results = batch.results
           \o BatchForecast!Kept([i \in 1 .. n |-> BatchOutcome(DrawnRow(i))])
      /\ UNCHANGED <<command, slot>>
  BY <1>1 DEF RunBatch, Inv, Loops
<1> HIDE DEF n
<1>4. [i \in 1 .. n |-> BatchOutcome(DrawnRow(i))] = OutcomesFrom(command, batch.done, n)
  <2>1. \A i \in 1 .. n : BatchOutcome(DrawnRow(i))
                            = OutcomeOf(command, RowOf(command, batch.done + i))
    <3>1. ASSUME NEW i \in 1 .. n
          PROVE  BatchOutcome(DrawnRow(i))
                   = OutcomeOf(command, RowOf(command, batch.done + i))
      <4>1. i \in Nat \ {0}
        BY <1>2
      <4>2. DrawnRow(i) = RowOf(command, batch.done + i)
        BY <1>1, <4>1, RowsMatch, BatchOperators
      <4> QED
        BY <4>2, BatchOutcomes, BatchOperators
    <3> QED
      BY <3>1
  <2> QED
    BY <2>1, Zenon DEF OutcomesFrom
<1>5. batch'.results = batch.results \o KeptOf(command, OutcomesFrom(command, batch.done, n))
  BY <1>3, <1>4, BatchOperators
<1>6. batch'.results = KeptOf(command, OutcomesFrom(command, 0, batch.done + n))
  <2>1. command \in Commands /\ batch.done \in Nat /\ n \in Nat
    BY <1>2, EnginesFacts
  <2> QED
    BY <1>5, <2>1, KeptExtend DEF EnginesInv, OwnResults
<1>7. OwnResults'
  BY <1>3, <1>6 DEF EnginesInv, OwnResults
<1>8. Progress'
  BY <1>3 DEF EnginesInv, Progress, CurrentRow
<1> QED
  BY <1>7, <1>8

LEMMA DrawStepResults ==
  ASSUME EnginesInv, DrawWeek
  PROVE  Progress' /\ OwnResults'
<1> DEFINE first == slot.done * Slots(command)
           week == slot.weeks + 1
           row == CurrentRow
<1>1. /\ command \in Commands /\ command.mode \in Modes /\ command.target \in Nat \ {0}
      /\ Slots(command) \in Nat /\ slot.done \in Nat /\ slot.done + 1 \in Nat \ {0}
      /\ slot.weeks \in 0 .. Slots(command)
      /\ slot.delivered = Sum(row, 1 .. slot.weeks) /\ slot.delivered \in Nat
  BY EnginesFacts
<1>2. week \in 1 .. Slots(command)
  BY <1>1 DEF DrawWeek, Unfinished, Slots, Modes
<1>3. /\ slot'.weeks = week
      /\ slot'.done = slot.done
      /\ slot'.delivered = slot.delivered + Sample(command, drawSampleIndex(slot.state))
      /\ slot'.results = slot.results
      /\ UNCHANGED <<command, batch>>
  BY DEF DrawWeek, EnginesInv, Inv, Loops
<1>4. drawSampleIndex(slot.state) = Advance(command.seed, first + week)
  <2>1. Inv' /\ first + week = slot'.done * Slots(command) + slot'.weeks
    BY <1>3, DrawWeekInv DEF EnginesInv
  <2>2. slot'.state = drawSampleIndex(slot.state)
    BY DEF DrawWeek, EnginesInv, Inv, Loops
  <2>3. slot'.state = Advance(command.seed, slot'.done * Slots(command) + slot'.weeks)
    BY <1>3, <2>1 DEF Inv, EnginesAligned, Slots, Advance
  <2> QED
    BY <2>1, <2>2, <2>3
<1>5. row[week] = Sample(command, drawSampleIndex(slot.state))
  <2>1. ((slot.done + 1) - 1) * Slots(command) = first
    BY <1>1
  <2>2. row[week] = Sample(command,
                      Advance(command.seed, ((slot.done + 1) - 1) * Slots(command) + week))
    <3> HIDE DEF week
    <3> QED
      BY <1>1, <1>2, RowFacts DEF CurrentRow
  <2> QED
    BY <1>4, <2>1, <2>2
<1>6. Sum(row, 1 .. week) = Sum(row, 1 .. slot.weeks) + row[week]
  <2>1. week - 1 = slot.weeks
    BY <1>1
  <2>2. Sum(row, 1 .. week) = Sum(row, 1 .. week - 1) + row[week]
    <3> HIDE DEF week
    <3> QED
      BY <1>1, <1>2, RowGrows DEF CurrentRow
  <2> QED
    BY <2>1, <2>2
<1>7. slot'.delivered = Sum(row, 1 .. week)
  BY <1>1, <1>3, <1>5, <1>6
<1>8. command.mode = "backlog_to_weeks" =>
        \A other \in 1 .. week - 1 : Sum(row, 1 .. other) < command.target
  <2>1. SUFFICES ASSUME command.mode = "backlog_to_weeks", NEW other \in 1 .. week - 1
                 PROVE  Sum(row, 1 .. other) < command.target
    OBVIOUS
  <2>2. slot.delivered < command.target
    BY <2>1 DEF DrawWeek, Unfinished
  <2>3. other = slot.weeks \/ other \in 1 .. slot.weeks - 1
    BY <1>1
  <2> QED
    BY <1>1, <2>1, <2>2, <2>3 DEF EnginesInv, Progress
<1>9. CurrentRow' = row
  BY <1>3 DEF CurrentRow
<1>10. Progress'
  <2> HIDE DEF row, week
  <2> QED
    BY <1>3, <1>7, <1>8, <1>9 DEF Progress
<1>11. OwnResults'
  BY <1>3 DEF EnginesInv, OwnResults
<1> QED
  BY <1>10, <1>11

\* A simulation that ends has the outcome its own row has.
LEMMA FinishedOutcome ==
  ASSUME EnginesInv, ~Unfinished
  PROVE  /\ command.mode = "backlog_to_weeks" =>
              OutcomeOf(command, CurrentRow)
                = IF slot.delivered >= command.target THEN slot.weeks ELSE 0
         /\ command.mode = "backlog_to_weeks" /\ slot.delivered >= command.target
              => slot.weeks # 0
         /\ command.mode = "weeks_to_items" =>
              OutcomeOf(command, CurrentRow) = slot.delivered
<1> DEFINE row == CurrentRow
           slots == Slots(command)
<1>1. /\ command \in Commands /\ command.target \in Nat \ {0} /\ slots \in Nat \ {0}
      /\ slot.done + 1 \in Nat \ {0} /\ slot.weeks \in 0 .. slots
      /\ slot.delivered = Sum(row, 1 .. slot.weeks) /\ slot.delivered \in Nat
  BY EnginesFacts
<1>2. DOMAIN row = 1 .. slots
  BY <1>1, RowFacts DEF CurrentRow
<1>3. Sum(row, 1 .. 0) = 0
  BY <1>1, RowGrows DEF CurrentRow
<1>4. ASSUME command.mode = "backlog_to_weeks"
      PROVE  \A week \in 1 .. slot.weeks - 1 : Sum(row, 1 .. week) < command.target
  BY <1>4 DEF EnginesInv, Progress
<1>5. Reached(command, row) = {week \in 1 .. slots : Sum(row, 1 .. week) >= command.target}
  BY <1>2 DEF Reached
<1>6. ASSUME command.mode = "backlog_to_weeks", slot.delivered >= command.target
      PROVE  slot.weeks # 0 /\ OutcomeOf(command, row) = slot.weeks
  <2>1. slot.weeks # 0
    BY <1>1, <1>3, <1>6
  <2> HIDE DEF row, slots
  <2>2. slot.weeks \in Reached(command, row)
    BY <1>1, <1>5, <1>6, <2>1
  <2>3. \A week \in 1 .. slots : week < slot.weeks => Sum(row, 1 .. week) < command.target
    BY <1>1, <1>4, <1>6
  <2>4. \A week \in 0 .. slots : Sum(row, 1 .. week) \in Nat
    BY <1>1, RowGrows DEF row, CurrentRow, slots
  <2>5. \A week \in Reached(command, row) : slot.weeks <= week /\ week \in Nat
    <3>1. ASSUME NEW week \in Reached(command, row) PROVE slot.weeks <= week /\ week \in Nat
      <4>1. week \in 1 .. slots /\ Sum(row, 1 .. week) >= command.target
        BY <1>5
      <4>2. Sum(row, 1 .. week) \in Nat
        BY <1>1, <2>4, <4>1
      <4>3. ~(Sum(row, 1 .. week) < command.target)
        BY <1>1, <4>1, <4>2
      <4> QED
        BY <1>1, <2>3, <4>1, <4>3
    <3> QED
      BY <3>1
  <2> DEFINE first == CHOOSE week \in Reached(command, row) :
                        \A other \in Reached(command, row) : week <= other
  <2>6. first \in Reached(command, row)
        /\ \A other \in Reached(command, row) : first <= other
    BY <2>2, <2>5, Zenon
  <2>7. OutcomeOf(command, row) = first
    BY <1>6, <2>2 DEF OutcomeOf
  <2> HIDE DEF first
  <2>8. first = slot.weeks
    BY <1>1, <2>2, <2>5, <2>6
  <2> QED
    BY <2>1, <2>7, <2>8
<1>7. ASSUME command.mode = "backlog_to_weeks", ~(slot.delivered >= command.target)
      PROVE  OutcomeOf(command, row) = 0
  <2>1. slot.weeks = slots
    BY <1>1, <1>7, McaAssumption DEF Unfinished, Slots
  <2>2. \A week \in 1 .. slots : ~(Sum(row, 1 .. week) >= command.target)
    <3>1. ASSUME NEW week \in 1 .. slots PROVE ~(Sum(row, 1 .. week) >= command.target)
      <4>1. week \in 1 .. slot.weeks - 1 \/ week = slot.weeks
        BY <1>1, <2>1
      <4>2. Sum(row, 1 .. week) \in Nat
        <5>1. week \in 0 .. slots
          BY <1>1
        <5> QED
          BY <1>1, <5>1, RowGrows DEF CurrentRow
      <4> HIDE DEF row, slots
      <4>3. CASE week \in 1 .. slot.weeks - 1
        <5>1. Sum(row, 1 .. week) < command.target
          BY <1>4, <1>7, <4>3
        <5> QED
          BY <1>1, <4>2, <5>1
      <4>4. CASE week = slot.weeks
        BY <1>1, <1>7, <4>4
      <4> QED
        BY <4>1, <4>3, <4>4
    <3> QED
      BY <3>1
  <2>3. Reached(command, row) = {}
    <3> HIDE DEF row, slots
    <3> QED
      BY <1>5, <2>2
  <2> QED
    BY <1>7, <2>3 DEF OutcomeOf
<1>8. ASSUME command.mode = "weeks_to_items"
      PROVE  OutcomeOf(command, row) = slot.delivered
  <2>1. slots = command.target
    BY <1>8 DEF Slots
  <2>2. slot.weeks = command.target
    BY <1>1, <1>8, <2>1 DEF Unfinished
  <2> QED
    BY <1>1, <1>8, <2>2 DEF OutcomeOf
<1> QED
  BY <1>6, <1>7, <1>8

\* What a finished simulation adds to the results.
LEMMA KeptOne ==
  ASSUME EnginesInv
  PROVE  KeptOf(command, OutcomesFrom(command, slot.done, 1))
           = IF Dropped(command, OutcomeOf(command, CurrentRow)) THEN <<>>
             ELSE Append(<<>>, OutcomeOf(command, CurrentRow))
<1> DEFINE s == OutcomesFrom(command, slot.done, 1)
<1>1. command \in Commands /\ slot.done \in Nat
  BY EnginesFacts
<1>2. Len(s) = 1
  BY <1>1, OutcomesFacts
<1>3. s[1] = OutcomeOf(command, CurrentRow)
  <2>1. 1 \in 1 .. 1
    OBVIOUS
  <2> QED
    BY <2>1, Zenon DEF OutcomesFrom, CurrentRow
<1> HIDE DEF s
<1>4. KeptOf(command, s) = IF Dropped(command, s[1]) THEN <<>> ELSE Append(<<>>, s[1])
  BY <1>2, KeptSingle
<1> QED
  BY <1>3, <1>4 DEF s

LEMMA ResultsAreNats ==
  ASSUME EnginesInv
  PROVE  slot.results \in Seq(Nat)
<1>1. command \in Commands /\ slot.done \in Nat
  BY EnginesFacts
<1>2. OutcomesFrom(command, 0, slot.done) \in Seq(Nat)
  BY <1>1, OutcomesFacts
<1>3. KeptOf(command, OutcomesFrom(command, 0, slot.done)) \in Seq(Nat)
  <2>1. <<>> \in Seq(Nat)
    OBVIOUS
  <2> QED
    BY <1>2, <2>1, KeptConcat
<1> QED
  BY <1>3 DEF EnginesInv, OwnResults

\* Either way of finishing adds what is kept of the simulation's own outcome.
LEMMA FinishAppends ==
  ASSUME EnginesInv, FinishBacklog \/ FinishItems
  PROVE  /\ slot.done < NSims
         /\ slot'.results
              = slot.results \o KeptOf(command, OutcomesFrom(command, slot.done, 1))
         /\ slot'.done = slot.done + 1
         /\ slot'.weeks = 0
         /\ slot'.delivered = 0
         /\ UNCHANGED <<command, batch>>
<1> DEFINE o == OutcomeOf(command, CurrentRow)
           kept == KeptOf(command, OutcomesFrom(command, slot.done, 1))
<1>1. /\ slot.done < NSims /\ ~Unfinished
      /\ slot'.done = slot.done + 1 /\ slot'.weeks = 0 /\ slot'.delivered = 0
      /\ UNCHANGED <<command, batch>>
  BY DEF FinishBacklog, FinishItems, FinishedWith
<1>2. kept = IF Dropped(command, o) THEN <<>> ELSE Append(<<>>, o)
  BY KeptOne
<1>3. slot.results \in Seq(Nat) /\ slot.weeks \in Nat /\ slot.delivered \in Nat
  BY EnginesFacts, ResultsAreNats
<1>4. slot.results \o <<>> = slot.results
  BY <1>3, ConcatEmptySeq
<1>5. \A x \in Nat : Append(slot.results, x) = slot.results \o Append(<<>>, x)
  <2>1. ASSUME NEW x \in Nat
        PROVE  Append(slot.results, x) = slot.results \o Append(<<>>, x)
    <3>1. <<>> \in Seq(Nat)
      OBVIOUS
    <3>2. Append(slot.results \o <<>>, x) = slot.results \o Append(<<>>, x)
      BY <1>3, <3>1, AppendToConcat
    <3> QED
      BY <1>4, <3>2
  <2> QED
    BY <2>1
<1> HIDE DEF o, kept
<1>6. CASE FinishBacklog
  <2>1. /\ command.mode = "backlog_to_weeks"
        /\ slot'.results = IF slot.delivered >= command.target
                           THEN Append(slot.results, slot.weeks) ELSE slot.results
    BY <1>6 DEF FinishBacklog, FinishedWith
  <2>2. /\ o = IF slot.delivered >= command.target THEN slot.weeks ELSE 0
        /\ slot.delivered >= command.target => slot.weeks # 0
    BY <1>1, <2>1, FinishedOutcome DEF o
  <2>3. CASE slot.delivered >= command.target
    <3>1. kept = Append(<<>>, slot.weeks)
      BY <1>2, <2>2, <2>3 DEF Dropped
    <3> QED
      BY <1>1, <1>3, <1>5, <2>1, <2>3, <3>1 DEF kept
  <2>4. CASE ~(slot.delivered >= command.target)
    <3>1. kept = <<>>
      BY <1>2, <2>1, <2>2, <2>4 DEF Dropped
    <3> QED
      BY <1>1, <1>4, <2>1, <2>4, <3>1 DEF kept
  <2> QED
    BY <2>3, <2>4
<1>7. CASE FinishItems
  <2>1. /\ command.mode = "weeks_to_items"
        /\ slot'.results = Append(slot.results, slot.delivered)
    BY <1>7 DEF FinishItems, FinishedWith
  <2>2. o = slot.delivered
    BY <1>1, <2>1, FinishedOutcome DEF o
  <2>3. kept = Append(<<>>, slot.delivered)
    BY <1>2, <2>1, <2>2 DEF Dropped
  <2> QED
    BY <1>1, <1>3, <1>5, <2>1, <2>3 DEF kept
<1> QED
  BY <1>6, <1>7

LEMMA FinishStepResults ==
  ASSUME EnginesInv, FinishBacklog \/ FinishItems
  PROVE  Progress' /\ OwnResults'
<1>1. /\ slot'.results
           = slot.results \o KeptOf(command, OutcomesFrom(command, slot.done, 1))
      /\ slot'.done = slot.done + 1 /\ slot'.weeks = 0 /\ slot'.delivered = 0
      /\ UNCHANGED <<command, batch>>
  BY FinishAppends
<1>2. command \in Commands /\ slot.done \in Nat /\ (slot.done + 1) + 1 \in Nat \ {0}
  BY EnginesFacts
<1>3. slot'.results = KeptOf(command, OutcomesFrom(command, 0, slot'.done))
  <2>1. slot.results = KeptOf(command, OutcomesFrom(command, 0, slot.done))
    BY DEF EnginesInv, OwnResults
  <2>2. KeptOf(command, OutcomesFrom(command, 0, slot.done + 1))
          = KeptOf(command, OutcomesFrom(command, 0, slot.done))
            \o KeptOf(command, OutcomesFrom(command, slot.done, 1))
    BY <1>2, KeptExtend
  <2> QED
    BY <1>1, <2>1, <2>2
<1>4. OwnResults'
  BY <1>1, <1>3 DEF EnginesInv, OwnResults
<1>5. Progress'
  <2>1. CurrentRow' = RowOf(command, (slot.done + 1) + 1)
    BY <1>1 DEF CurrentRow
  <2>2. Sum(CurrentRow', 1 .. 0) = 0
    BY <1>2, <2>1, RowGrows
  <2> QED
    BY <1>1, <2>2 DEF Progress
<1> QED
  BY <1>4, <1>5

LEMMA EnginesStepInv == EnginesInv /\ [Next]_vars => EnginesInv'
<1> SUFFICES ASSUME EnginesInv, [Next]_vars PROVE EnginesInv'
  OBVIOUS
<1>1. Inv'
  BY StepInv DEF EnginesInv
<1>2. CASE RunBatch
  BY <1>1, <1>2, BatchStepResults DEF EnginesInv
<1>3. CASE DrawWeek
  BY <1>1, <1>3, DrawStepResults DEF EnginesInv
<1>4. CASE FinishBacklog \/ FinishItems
  BY <1>1, <1>4, FinishStepResults DEF EnginesInv
<1>5. CASE UNCHANGED vars
  BY <1>1, <1>5 DEF vars, EnginesInv, Progress, OwnResults, CurrentRow
<1> QED
  BY <1>2, <1>3, <1>4, <1>5 DEF Next

LEMMA FinishSimulates ==
  ASSUME EnginesInv, FinishBacklog \/ FinishItems
  PROVE  SlotForecast!Next
<1>1. /\ slot.done < NSims /\ slot'.done = slot.done + 1 /\ UNCHANGED command
      /\ slot'.results
           = slot.results \o KeptOf(command, OutcomesFrom(command, slot.done, 1))
  BY FinishAppends
<1>2. slot.done \in Nat /\ NSims \in Nat \ {0}
  BY EnginesFacts, McaAssumption
<1>3. OutcomesFrom(command, slot.done, 1)
        = [i \in 1 .. 1 |-> SlotForecast!Outcome(SlotForecast!Row(slot.done + i))]
  <2>1. \A i : SlotForecast!Outcome(SlotForecast!Row(slot.done + i))
                 = OutcomeOf(command, RowOf(command, slot.done + i))
    BY SlotOperators, Zenon
  <2> QED
    BY <2>1, Zenon DEF OutcomesFrom
<1>4. slot'.results = slot.results \o SlotForecast!Kept(
        [i \in 1 .. 1 |-> SlotForecast!Outcome(SlotForecast!Row(slot.done + i))])
  BY <1>1, <1>3, SlotOperators, Zenon
<1>5. slot.done + 1 <= NSims /\ 1 \in 1 .. NSims
  BY <1>1, <1>2
<1>6. SlotForecast!Simulate(1)
  BY <1>1, <1>4, <1>5 DEF SlotForecast!Simulate
<1> QED
  BY <1>5, <1>6 DEF SlotForecast!Next

LEMMA SlotStepSimulates ==
  EnginesInv /\ [Next]_vars => [SlotForecast!Next]_SlotForecast!vars
<1> SUFFICES ASSUME EnginesInv, [Next]_vars PROVE [SlotForecast!Next]_SlotForecast!vars
  OBVIOUS
<1>1. CASE RunBatch
  BY <1>1 DEF RunBatch, SlotForecast!vars
<1>2. CASE DrawWeek
  BY <1>2 DEF DrawWeek, SlotForecast!vars
<1>3. CASE FinishBacklog \/ FinishItems
  BY <1>3, FinishSimulates
<1>4. CASE UNCHANGED vars
  BY <1>4 DEF vars, SlotForecast!vars
<1> QED
  BY <1>1, <1>2, <1>3, <1>4 DEF Next

\* TypeScript, with its early stops and its skipped draws, gives every simulation
\* the outcome of its own draws (simulateBacklogToWeeks, simulateWeeksToItems).
THEOREM SlotRefinement == Spec => SlotImplementsForecast
<1>1. Init => SlotForecast!Init
  BY DEF Init, SlotForecast!Init
<1> QED
  BY EnginesInitInv, EnginesStepInv, SlotStepSimulates, <1>1, PTL
     DEF Spec, SlotForecast!Spec, SlotImplementsForecast

\* The published durations are finitely many, and so are their counts.
LEMMA DistributionTotal ==
  ASSUME NEW results \in Seq(Nat)
  PROVE  Total(Distribution(results)) \in Nat
<1> DEFINE indices == 1 .. Len(results)
           values == Range(results)
           d == Distribution(results)
<1>1. IsFiniteSet(indices) /\ DOMAIN results = indices
  BY FS_Interval
<1>2. IsFiniteSet(values)
  <2>1. results \in Surjection(indices, values)
    BY <1>1 DEF Surjection, Range
  <2> HIDE DEF indices, values
  <2> QED
    BY <1>1, <2>1, FS_Surjection
<1>3. DOMAIN d = values /\ \A v \in values : d[v] = Cardinality({i \in indices : results[i] = v})
  BY <1>1 DEF Distribution
<1>4. \A v \in values : d[v] \in Nat
  <2>1. ASSUME NEW v \in values PROVE Cardinality({i \in indices : results[i] = v}) \in Nat
    <3> DEFINE those == {i \in indices : results[i] = v}
    <3>1. those \in SUBSET indices
      OBVIOUS
    <3> HIDE DEF those, indices
    <3>2. Cardinality(those) \in Nat
      BY <1>1, <3>1, FS_Subset, FS_CardinalityType
    <3> QED
      BY <3>2 DEF those
  <2> HIDE DEF values, d
  <2> QED
    BY <1>3, <2>1
<1> HIDE DEF values, d
<1>5. Sum(d, values) \in Nat
  BY <1>2, <1>4, SumNat
<1>6. Total(d) = Sum(d, values)
  BY <1>3 DEF Total, FoldFunction, Sum
<1> QED
  BY <1>5, <1>6 DEF d

LEMMA ResultsAgree ==
  ASSUME EnginesInv, batch.done = NSims, slot.done = NSims
  PROVE  batch.results = slot.results
BY DEF EnginesInv, OwnResults

\* For every command and seed both engines publish the same durations and the same
\* percentiles, whatever the batches of one and the early stops of the other.
THEOREM EnginesPublishTheSame == Spec => []EnginesAgree
<1>1. EnginesInv => EnginesAgree
  <2> SUFFICES ASSUME EnginesInv, batch.done = NSims, slot.done = NSims
               PROVE  /\ batch.results = slot.results
                      /\ weeks_percentiles(Distribution(batch.results), NSims)
                           = discreteWeeksPercentiles(Distribution(slot.results), NSims)
    BY DEF EnginesAgree
  <2> DEFINE d == Distribution(batch.results)
  <2>1. batch.results = slot.results
    BY ResultsAgree
  <2>2. \A p \in Published : WeeksRank(p, NSims) = CeilDiv(p * NSims, 100)
    BY RanksAgree, McaAssumption
  <2>3. weeks_percentiles(d, NSims) = discreteWeeksPercentiles(d, NSims)
    <3>1. Total(d) \in Nat
      BY <2>1, ResultsAreNats, DistributionTotal
    <3> HIDE DEF d
    <3>2. \A p \in Published : WeeksRank(p, NSims) \in Nat
      BY McaAssumption, WeeksRankFacts
    <3>3. {q \in Published : Total(d) >= WeeksRank(q, NSims)}
            = {q \in Published : ~(Total(d) < CeilDiv(q * NSims, 100))}
      BY <2>2, <3>1, <3>2
    <3> QED
      BY <2>2, <3>3 DEF weeks_percentiles, discreteWeeksPercentiles
  <2> QED
    BY <2>1, <2>3
<1> QED
  BY EnginesInitInv, EnginesStepInv, <1>1, PTL DEF Spec
=============================================================================
