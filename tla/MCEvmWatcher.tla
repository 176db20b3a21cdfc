----------------------------- MODULE MCEvmWatcher -----------------------------
(***************************************************************************)
(* Values for the constants of EvmWatcher.  The .cfg files pick from them; *)
(* the real thresholds (FINAL_CONFIRMATIONS 48, MAX_REORG_DEPTH 64,        *)
(* MAX_BLOCKS_PER_TICK 250, MAX_LOG_BLOCK_RANGE 10) are scaled down.       *)
(***************************************************************************)
EXTENDS EvmWatcher, TLC

CONSTANTS t1, t2, i1, i2

\* InvoiceOf: both transactions pay i1, or each its own invoice.
SameInvoice == [t \in Txs |-> i1]
OwnInvoice == [t \in Txs |-> IF t = t1 THEN i1 ELSE i2]

\* Requested and Required.
One == [i \in Invoices |-> 1]
Two == [i \in Invoices |-> 2]

\* Value: every transaction is worth one unit.
UnitValue == [S \in SUBSET Txs |-> Cardinality(S)]

\* Kind.
AllNative == [t \in Txs |-> "native"]
AllErc20 == [t \in Txs |-> "erc20"]
AllVault == [t \in Txs |-> "vault"]

\* Payments of the same invoice, worth and kind are interchangeable.
Payers == Permutations(Txs)
=============================================================================
