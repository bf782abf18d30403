SPECIFICATION FairSpec
CONSTANTS
  day = day
  workspace = workspace
  Operations = {o1, o2}
  Policies = {day, workspace}
  Applies <- BothScopes
  Limit <- LimitTwo
  ScopeRank <- DayFirst
  IdRank <- WorkspaceFirst
  Amounts <- OneOrTwo
  MaxFaults = 0
  Unpriced = Unpriced
  Nobody = Nobody
CHECK_DEADLOCK FALSE
INVARIANTS
  SuccessfulCallsReconciled
