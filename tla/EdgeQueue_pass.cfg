CONSTANTS
  m1 = m1
  m2 = m2
  ticker = ticker
  flush = flush
  Msgs = {m1, m2}
  Size <- Sizes
  SubjectLen = 9
  Drainers = {ticker, flush}
  MaxItems = 2
  MaxBytes = 600
  BatchSize = 2
  MaxFaults = 2
SPECIFICATION FairSpec
INVARIANTS NoSilentLoss BytesAccounted MemoryMatchesDisk
PROPERTY EventuallyForwarded
CHECK_DEADLOCK FALSE
