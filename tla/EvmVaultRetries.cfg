\* The vault scanner, one cut tick, a gap in the scan plan, no reorganisation.
SPECIFICATION Spec
CONSTANTS
  t1 = t1
  t2 = t2
  i1 = i1
  i2 = i2
  NoTx = NoTx
  Txs = {t1, t2}
  Invoices = {i1, i2}
  Existing = {i1}
  InvoiceOf <- OwnInvoice
  Requested <- One
  Required <- One
  Value <- UnitValue
  Kind <- AllVault
  Services = {"logs"}
  Expiring = {}
  MaxTip = 7
  MaxReorgs = 0
  MaxReorgSpan = 2
  MaxAborts = 1
  FINAL_CONFIRMATIONS = 2
  MAX_REORG_DEPTH = 4
  MAX_BLOCKS_PER_TICK = 4
  MAX_LOG_BLOCK_RANGE = 2
INVARIANT ScanComplete
INVARIANT TotalsBehindCursor
PROPERTY SkipsOnlyDeadSpace
