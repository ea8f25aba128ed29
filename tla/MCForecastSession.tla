-------------------------- MODULE MCForecastSession --------------------------
(* Two projects with a team of the same name, one set of filters, and a       *)
(* history left by earlier versions of the application: an entry that has a   *)
(* seed but misses what a restored result needs, and one without a seed.      *)
EXTENDS ForecastSession

CONSTANTS alpha, beta, bugs

MCTeamName(s) == "team"

MCParams == [scope |-> alpha, filters |-> bugs, mode |-> "weeks_to_items",
             backlogSize |-> 1, targetWeeks |-> 1]

\* The application opens in its default mode; editing reaches the others.
MCPreferences == {[MCParams EXCEPT !.mode = "backlog_to_weeks"]}

MCLegacy == <<[params |-> MCParams, seed |-> 77, reusable |-> FALSE,
               result |-> Forecast(MCParams, 77)],
              [params |-> [MCParams EXCEPT !.mode = "backlog_to_weeks"], seed |-> None,
               reusable |-> FALSE,
               result |-> Forecast([MCParams EXCEPT !.mode = "backlog_to_weeks"], None)]>>
=============================================================================
