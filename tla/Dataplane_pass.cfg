CONSTANTS
  Gpus = {1, 2}
  Specs <- MCSpecs
  Requests <- MCRequests
  Anyone = ""
  NoPref = ""
  MaxPlacements = 3
  MaxBoots = 2
  Pipelines = {"p1", "p2"}
  Redacting = {"p2"}
  Chains = {1, 2, 3}
  RingCap = 2
  MaxPuts = 3
  Classes = {"person"}
  Places = {1, 2, 3}
  BoxWidth = 2
  Threshold = 10
  MaxMissing = 1
  Rules <- MCRules
  MaxTicks = 7
  Urns = {"f1", "f2"}
  Plans <- MCPlans
  FrameOf <- MCFrameOf
  AnyTenant = ""
  Tasks = {t1, t2}
  WindowDur = 2
  MaxPending = 1
  MaxTime = 3
SPECIFICATION Spec
INVARIANTS DetectsItsOwnPixels DwellFiresOncePerStay ObservationsAddUp
PROPERTY LedgerImplementsAllocator
CHECK_DEADLOCK FALSE
