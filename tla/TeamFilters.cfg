SPECIFICATION Spec
CONSTANTS
  alpha = alpha
  beta = beta
  bug = bug
  story = story
  done = done
  closed = closed
  Teams = {alpha, beta}
  NoTeam = NoTeam
  Types = {bug, story}
  States = {done, closed}
  DefaultTypes = {bug}
  DefaultStates = {done}
  Reply <- MCReply
  NoFilters = NoFilters
  a1 = a1
  a2 = a2
  a3 = a3
  a4 = a4
  Arrays = {a1, a2, a3, a4}
  NoArray = NoArray
  Saved <- MCSaved
  MaxHistory = 4
  MaxVisits = 4
  MaxEdits = 3
INVARIANTS
  OptionsMatchTeam
  LoadingIsHonest
PROPERTIES
  HiddenStatesAreRestored
CHECK_DEADLOCK FALSE
