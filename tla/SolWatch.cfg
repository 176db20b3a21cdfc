\* Three transactions, a fork, a cut tick, and a page cap of two signatures.
SPECIFICATION Spec
CONSTANTS
  t1 = t1
  t2 = t2
  t3 = t3
  i1 = i1
  i2 = i2
  a1 = a1
  a2 = a2
  NoTx = NoTx
  Txs = {t1, t2, t3}
  MayFail = {t2}
  Invoices = {i1}
  Existing = {}
  Addresses = {a1}
  Direct <- ToI1
  Claims <- NoClaims
  WatchAddresses <- OwnAddress
  Names <- T1NamesBoth
  Rank <- InOrder
  Requested <- Two
  RequiredLevel <- OnDetected
  Value <- UnitValue
  Expiring = {}
  Lifetime = 1
  MaxSlot = 3
  MaxForks = 1
  MaxLapses = 0
  MaxAborts = 1
  MAX_TX_PER_BATCH = 1
  MAX_SIGS = 2
  RECENT_STATUS_WINDOW_SLOTS = 1
INVARIANT CursorSafe
INVARIANT FinalIsReal
INVARIANT OrphanIsGone
INVARIANT FinishedWasFunded
