CONSTANTS
  p1 = p1
  p2 = p2
  r1 = r1
  r2 = r2
  Plans = {p1}
  Replicas = {r1}
  LadderLen = 3
  Hold <- MCHold
  AutoPromote = {p1}
  MaxAge = 2
  ListLimit = 1
  MaxOps = 2
  MaxFaults = 2
SPECIFICATION FairSpec
INVARIANT AnnouncedIsCommitted
PROPERTIES AdvancesAfterHold TerminalUntilOperator HealthyIsPromoted RegressionRollsBack
