CONSTANTS
  g1 = g1
  g2 = g2
  g3 = g3
  g4 = g4
  s1 = s1
  s2 = s2
  r1 = r1
  r2 = r2
  o1 = o1
  o2 = o2
  Gates = {g1, g2}
  Deciders = {o1}
  MaxRequests = 1
  Sessions = {s1, s2}
  Runs = {r1, r2}
  ToolTiers = {2, 3}
  MaxTier = 2
  MaxSteps = 2
  MaxCalls = 1
  MaxFaults = 2
SPECIFICATION Spec
INVARIANTS StepsAreAccountedFor WaitsForOwnGate
CHECK_DEADLOCK FALSE
SYMMETRY MCSymmetry
