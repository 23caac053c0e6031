CONSTANTS
  nightly = nightly
  drift = drift
  driftB = driftB
  a = a
  b = b
  wide = wide
  narrow = narrow
  onDrift = onDrift
  onSlo = onSlo
  sig = sig
  other = other
  q1 = q1
  q2 = q2
  f1 = f1
  f2 = f2
  Schedules = {nightly, drift}
  Cron = {nightly}
  Tenants = {a}
  Tenant <- MCTenant
  Prefixes = {wide}
  Prefix <- MCPrefix
  PrefixLen <- MCPrefixLen
  Signals = {sig, other}
  Covers <- MCCovers
  Subs = {onDrift, onSlo}
  SubOf <- MCSubOf
  Rank <- MCRank
  Posts = {q1}
  Slots = {f1, f2}
  MaxPosts = 2
  MaxFires = 2
  MaxFaults = 1
SPECIFICATION FairSpec
INVARIANTS EntryGuard SessionsAreRecorded
PROPERTIES PostsComplete RunsSettle
CHECK_DEADLOCK FALSE
