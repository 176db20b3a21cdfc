\* Two invoices of one merchant, each settled by a transaction of its own.
SPECIFICATION Spec
CONSTANTS
  t1 = t1
  t2 = t2
  i1 = i1
  i2 = i2
  m1 = m1
  m2 = m2
  NoPay = NoPay
  Txs = {t1, t2}
  Invoices = {i1, i2}
  Merchants = {m1}
  MerchantOf <- OneMerchant
  Pays <- ToOwn
  Requested <- One
  Required <- One
  Value <- UnitValue
  Age <- I1First
  Expiring = {}
  MaxTip = 3
  MaxReorgs = 0
  MaxReorgSpan = 0
  MaxFaults = 0
  FINAL_CONFIRMATIONS = 2
  ORPHAN_STRIKES = 2
  REORG_DEPTH = 2
  MAX_BLOCKS_PER_TICK = 2
  HEADER_PAGE = 1
  SEEN_BLOCK_RETENTION = 2
  ADDRESS_TX_PAGE_SATURATED = 3
  MAX_WATCHED_INVOICES = 2
INVARIANT SettledAnnounced
