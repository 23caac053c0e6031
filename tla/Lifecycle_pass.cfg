\* Every service, two pieces of work; three frames through a chain of buffer one.
\* A process and a chain stop for good: no deadlock check.
SPECIFICATION Spec
CONSTANTS
  Profiles <- AllServices
  MaxWork = 2
  Ops <- MCSampled
  BufferSize = 1
  Frames = 3
  Step = 2
  MaxUnsent = 1
CHECK_DEADLOCK FALSE
INVARIANTS RequestsKeepTheirResources AcceptedRequestsAreAnswered EveryCloserRuns
PROPERTIES StopsEventually StreamEndsClean
