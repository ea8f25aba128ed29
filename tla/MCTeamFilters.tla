---------------------------- MODULE MCTeamFilters ----------------------------
(* Two teams whose processes share a type and a state; the second one gets   *)
(* no states for its type, so that the fallback of the hook applies.  The    *)
(* history holds two entries of the same types and one of more, with states  *)
(* that neither team offers for them, and there is room for one of a run.    *)
EXTENDS TeamFilters, TLC

CONSTANTS alpha, beta, bug, story, done, closed, a1, a2, a3, a4

MCReply ==
  alpha :> [types |-> {bug, story}, states |-> (bug :> {done, closed} @@ story :> {closed})]
  @@ beta :> [types |-> {bug}, states |-> <<>>]

Entry(a, ts, ss) == [array |-> a, types |-> ts, states |-> ss]

MCSaved ==
  {Entry(a1, {story}, {done, closed}), Entry(a2, {story}, {done}),
   Entry(a3, {bug, story}, {done})}
=============================================================================
