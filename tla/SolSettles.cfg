\* Two invoices, a transaction that pays both, an expiry, a fork, a failed call.
SPECIFICATION FairSpec
CONSTANTS
  t1 = t1
  t2 = t2
  t3 = t3
  i1 = i1
  i2 = i2
  a1 = a1
  a2 = a2
  NoTx = NoTx
  Txs = {t1, t2}
  MayFail = {}
  Invoices = {i1, i2}
  Existing = {i1, i2}
  Addresses = {a1, a2}
  Direct <- ToI1
  Claims <- T1ClaimedByI2
  WatchAddresses <- OwnAddress
  Names <- T1NamesBoth
  Rank <- InOrder
  Requested <- Two
  RequiredLevel <- OnDetected
  Value <- UnitValue
  Expiring = {i2}
  Lifetime = 1
  MaxSlot = 3
  MaxForks = 1
  MaxLapses = 1
  MaxAborts = 0
  MAX_TX_PER_BATCH = 1
  MAX_SIGS = 3
  RECENT_STATUS_WINDOW_SLOTS = 1
INVARIANT SolTypeOK
INVARIANT CursorSafe
INVARIANT ChangesTold
PROPERTY TotalsConverge
PROPERTY EventuallyFinal
