CONSTANTS
  p1 = p1
  p2 = p2
  r1 = r1
  r2 = r2
  Plans = {p1}
  Replicas = {r1, r2}
  LadderLen = 2
  Hold <- MCHold
  AutoPromote = {p1}
  MaxAge = 2
  ListLimit = 1
  MaxOps = 0
  MaxFaults = 0
SPECIFICATION Spec
PROPERTY TerminalUntilOperator
