\* Both services, one of which orphans what the other has selected.
SPECIFICATION Spec
CONSTANTS
  t1 = t1
  t2 = t2
  i1 = i1
  i2 = i2
  NoTx = NoTx
  Txs = {t1}
  Invoices = {i1}
  Existing = {i1}
  InvoiceOf <- SameInvoice
  Requested <- One
  Required <- One
  Value <- UnitValue
  Kind <- AllNative
  Services = {"addresses", "logs"}
  Expiring = {}
  MaxTip = 4
  MaxReorgs = 1
  MaxReorgSpan = 2
  MaxAborts = 0
  FINAL_CONFIRMATIONS = 3
  MAX_REORG_DEPTH = 4
  MAX_BLOCKS_PER_TICK = 2
  MAX_LOG_BLOCK_RANGE = 2
PROPERTY OrphansStayOut
