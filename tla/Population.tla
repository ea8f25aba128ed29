----------------------------- MODULE Population -----------------------------
(***************************************************************************)
(* A population of simulations that grows one simulation at a time, to      *)
(* check the statistics published about it against what the statistical     *)
(* standard of the repository says they mean, after every simulation.       *)
(***************************************************************************)
EXTENDS Statistics

CONSTANTS
  MaxValue,  \* largest duration, or number of items, of a simulation
  MaxSims    \* bound: simulations of a population

ASSUME PopulationAssumption == MaxValue \in Nat /\ MaxSims \in Nat

Values == 0 .. MaxValue

VARIABLES
  completed,  \* for each value, how many simulations ended there
  censored    \* how many simulations did not complete

populationVars == <<completed, censored>>

NumSims == Total(completed) + censored

\* The first simulation: censored, or completed with some value.
PopulationInit ==
  \/ /\ completed = [v \in Values |-> 0]
     /\ censored = 1
  \/ \E first \in Values :
       /\ completed = [v \in Values |-> IF v = first THEN 1 ELSE 0]
       /\ censored = 0

Complete(v) ==
  /\ NumSims < MaxSims
  /\ completed' = [completed EXCEPT ![v] = @ + 1]
  /\ UNCHANGED censored

Censor ==
  /\ NumSims < MaxSims
  /\ censored' = censored + 1
  /\ UNCHANGED completed

PopulationNext == Censor \/ \E v \in Values : Complete(v)

PopulationSpec == PopulationInit /\ [][PopulationNext]_populationVars

WeeksForecast == weeks_percentiles(completed, NumSims)
ItemsForecast == items_percentiles(completed)

(******************************* properties ********************************)
\* STAT-PAR-021 and 022: a delay percentile is present exactly when that share
\* of all the simulations, censored ones included, has completed; it is then
\* the first week by which they have.
DelaysAreReached ==
  \A p \in Published :
    LET reachedBy(v) == 100 * AtMost(completed, v) >= p * NumSims
    IN /\ p \in DOMAIN WeeksForecast <=> reachedBy(MaxValue)
       /\ p \in DOMAIN WeeksForecast =>
            /\ reachedBy(WeeksForecast[p])
            /\ ~reachedBy(WeeksForecast[p] - 1)

\* STAT-PAR-023: at least p % of the simulations deliver Pp items or more, and
\* fewer than p % (give or take one simulation) deliver strictly more.
CapacitiesAreDelivered ==
  \A p \in DOMAIN ItemsForecast :
    LET size == Total(completed)
        more(v) == size - AtMost(completed, v)
    IN /\ 100 * more(ItemsForecast[p] - 1) >= p * size
       /\ 100 * more(ItemsForecast[p]) < p * size + 100 - p

\* STAT-PAR-026 to 028: a score exists only over a positive P50, and it is the
\* closest number of ten-thousandths to the relative spread, ties upwards.
RiskScoreIsNearest ==
  \A mode \in {"backlog_to_weeks", "weeks_to_items"} :
    LET forecast == IF mode = "weeks_to_items" THEN ItemsForecast ELSE WeeksForecast
        spread == IF mode = "weeks_to_items" THEN forecast[50] - forecast[90]
                  ELSE forecast[90] - forecast[50]
        score == RiskScore(mode, forecast)
    IN HasRiskScore(forecast) =>
         /\ forecast[50] * (2 * score - 1) <= 20000 * spread
         /\ 20000 * spread < forecast[50] * (2 * score + 1)

\* STAT-PAR-037 to 039, which Histogram.create enforces: at most MaxBuckets
\* buckets, none empty, strictly increasing abscissas, no simulation lost, and
\* every value within a bucket's width of the abscissa that stands for it.
HistogramIsFaithful ==
  LET histogram == build_histogram(completed)
  IN /\ Cardinality(DOMAIN histogram) <= MaxBuckets
     /\ \A i \in DOMAIN histogram : histogram[i].count > 0
     /\ \A i, j \in DOMAIN histogram : i < j => histogram[i].x < histogram[j].x
     /\ FoldFunction(+, 0, [i \in DOMAIN histogram |-> histogram[i].count])
          = Total(completed)
     /\ \A i \in DOMAIN histogram :
          histogram[i].x \in Lowest(completed) .. Highest(completed)
     /\ \A v \in Observed(completed) :
          LET width == Width(Lowest(completed), Highest(completed))
          IN \E i \in DOMAIN histogram :
               histogram[i].x - v \in 1 - width .. width - 1

\* A simulation that never delivers the backlog makes no promise better: it
\* brings no percentile back and lowers none.
CensoringNeverHelps ==
  [][Censor =>
       \A p \in DOMAIN WeeksForecast' :
         p \in DOMAIN WeeksForecast /\ WeeksForecast[p] <= WeeksForecast'[p]]_populationVars
=============================================================================
