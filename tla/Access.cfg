\* One script, again and again: as many grants as one authorization creates.
SPECIFICATION FairSpec
CONSTANTS
  Scripts = {s1}
  Grants = {g1, g2}
  Requests = {r1}
  OwnerScopes = {"*"}
  None = None
INVARIANTS TypeOK RunningIsCovered ApprovalsAreBacked TombstonesHold InactiveRunsNothing
PROPERTIES WithdrawalHolds TemporaryRunsEnd
CHECK_DEADLOCK FALSE
