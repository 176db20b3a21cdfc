\* The address scanner alone, two payments, an expiry, one reorganisation.
SPECIFICATION FairSpec
CONSTANTS
  t1 = t1
  t2 = t2
  i1 = i1
  i2 = i2
  NoTx = NoTx
  Txs = {t1, t2}
  Invoices = {i1}
  Existing = {i1}
  InvoiceOf <- SameInvoice
  Requested <- Two
  Required <- One
  Value <- UnitValue
  Kind <- AllNative
  Services = {"addresses"}
  Expiring = {i1}
  MaxTip = 5
  MaxReorgs = 1
  MaxReorgSpan = 3
  MaxAborts = 0
  FINAL_CONFIRMATIONS = 3
  MAX_REORG_DEPTH = 4
  MAX_BLOCKS_PER_TICK = 2
  MAX_LOG_BLOCK_RANGE = 2
INVARIANT TypeOK
INVARIANT ScanComplete
INVARIANT NoPhantom
INVARIANT ConfirmedBeforeFinalized
INVARIANT PromotionsAnnounced
PROPERTY PromotionIsDeep
PROPERTY TotalsConverge
PROPERTY EventuallyFinal
