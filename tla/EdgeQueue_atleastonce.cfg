CONSTANTS
  m1 = m1
  m2 = m2
  ticker = ticker
  flush = flush
  Msgs = {m1}
  Size <- Sizes
  SubjectLen = 9
  Drainers = {ticker}
  MaxItems = 2
  MaxBytes = 4
  BatchSize = 2
  MaxFaults = 1
SPECIFICATION Spec
INVARIANT AtLeastOnce
