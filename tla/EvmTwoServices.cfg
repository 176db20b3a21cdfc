\* Both services, interleaved at every await; it takes two payments to settle.
SPECIFICATION Spec
CONSTANTS
  t1 = t1
  t2 = t2
  i1 = i1
  i2 = i2
  NoTx = NoTx
  Txs = {t1, t2}
  Invoices = {i1}
  Existing = {i1}
  InvoiceOf <- SameInvoice
  Requested <- Two
  Required <- Two
  Value <- UnitValue
  Kind <- AllErc20
  Services = {"addresses", "logs"}
  Expiring = {}
  MaxTip = 3
  MaxReorgs = 1
  MaxReorgSpan = 2
  MaxAborts = 0
  FINAL_CONFIRMATIONS = 2
  MAX_REORG_DEPTH = 4
  MAX_BLOCKS_PER_TICK = 1
  MAX_LOG_BLOCK_RANGE = 1
SYMMETRY Payers
INVARIANT PaymentsAnnounced
INVARIANT PromotionsAnnounced
INVARIANT FinishedWasFunded
