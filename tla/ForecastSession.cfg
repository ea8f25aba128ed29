SPECIFICATION FairSpec
CONSTANTS
  alpha = alpha
  beta = beta
  bugs = bugs
  Scopes = {alpha, beta}
  NoScope = NoScope
  TeamName <- MCTeamName
  Filters = {bugs}
  NoFilters = NoFilters
  Backlogs = {1, 2}
  Weeks = {1}
  Preferences <- MCPreferences
  Legacy <- MCLegacy
  None = None
  MaxHistory = 2
  MaxRuns = 3
  MaxEdits = 3
INVARIANTS
  ResultAnswersTheScreen
  SeedsAreNotShared
PROPERTIES
  LoadingEnds
CHECK_DEADLOCK FALSE
