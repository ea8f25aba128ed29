------------------------------ MODULE Forecast ------------------------------
(***************************************************************************)
(* What an engine promises, whatever its batches and its loops: simulation  *)
(* number i owns the draws (i-1)*Slots+1 .. i*Slots of the stream of the    *)
(* seed, and nothing else.  Simulations are added in order, any number at   *)
(* a time, and a simulation that does not reach the backlog within the      *)
(* horizon leaves no duration.                                              *)
(***************************************************************************)
EXTENDS McaPrng, Functions

VARIABLES command, done, results

vars == <<command, done, results>>

\* Stands for a simulation censored at the horizon.
Censored == 0

\* The draws that belong to simulation i, week by week.
Row(i) ==
  [week \in 1 .. Slots(command) |->
     Sample(command, Advance(command.seed, (i - 1) * Slots(command) + week))]

Delivered(row, week) == FoldFunctionOnSet(+, 0, row, 1 .. week)

\* Week in which the row reaches the backlog, or Censored.
CompletionWeek(row) ==
  LET reached == {week \in DOMAIN row : Delivered(row, week) >= command.target}
  IN IF reached = {} THEN Censored
     ELSE CHOOSE week \in reached : \A other \in reached : week <= other

Outcome(row) ==
  IF command.mode = "backlog_to_weeks" THEN CompletionWeek(row)
  ELSE Delivered(row, command.target)

\* The outcomes that enter the distribution, in their order.
Kept(outcomes) ==
  LET dropped(n) == command.mode = "backlog_to_weeks" /\ outcomes[n] = Censored
      kept[n \in 0 .. Len(outcomes)] ==
        IF n = 0 THEN <<>>
        ELSE IF dropped(n) THEN kept[n - 1]
        ELSE Append(kept[n - 1], outcomes[n])
  IN kept[Len(outcomes)]

Init ==
  /\ command \in Commands
  /\ done = 0
  /\ results = <<>>

Simulate(k) ==
  /\ done + k <= NSims
  /\ done' = done + k
  /\ results' = results \o Kept([i \in 1 .. k |-> Outcome(Row(done + i))])
  /\ UNCHANGED command

Next == \E k \in 1 .. NSims : Simulate(k)

Spec == Init /\ [][Next]_vars
=============================================================================
