\* A cut between crediting and recomputing.
SPECIFICATION FairSpec
CONSTANTS
  t1 = t1
  t2 = t2
  t3 = t3
  i1 = i1
  i2 = i2
  a1 = a1
  a2 = a2
  NoTx = NoTx
  Txs = {t1}
  MayFail = {}
  Invoices = {i1}
  Existing = {i1}
  Addresses = {a1}
  Direct <- ToI1
  Claims <- NoClaims
  WatchAddresses <- OwnAddress
  Names <- T1NamesBoth
  Rank <- InOrder
  Requested <- Two
  RequiredLevel <- OnDetected
  Value <- UnitValue
  Expiring = {}
  Lifetime = 1
  MaxSlot = 4
  MaxForks = 0
  MaxLapses = 0
  MaxAborts = 1
  MAX_TX_PER_BATCH = 1
  MAX_SIGS = 3
  RECENT_STATUS_WINDOW_SLOTS = 1
PROPERTY TotalsConverge
