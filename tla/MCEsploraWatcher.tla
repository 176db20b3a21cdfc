--------------------------- MODULE MCEsploraWatcher ---------------------------
(***************************************************************************)
(* Values for the constants of EsploraWatcher.  The real thresholds        *)
(* (FINAL_CONFIRMATIONS 6, ORPHAN_STRIKES 3, REORG_DEPTH 12, HEADER_PAGE   *)
(* 10, MAX_BLOCKS_PER_TICK 200) are scaled down.                           *)
(***************************************************************************)
EXTENDS EsploraWatcher, TLC

CONSTANTS t1, t2, i1, i2, m1, m2

\* Pays: each transaction pays i1, or each its own invoice.
ToI1 == Txs \X {i1}
ToOwn == {<<t1, i1>>, <<t2, i2>>} \cap (Txs \X Invoices)

OneMerchant == [i \in Invoices |-> m1]
OwnMerchant == [i \in Invoices |-> IF i = i1 THEN m1 ELSE m2]

One == [i \in Invoices |-> 1]
Two == [i \in Invoices |-> 2]

UnitValue == [S \in SUBSET Pays |-> Cardinality(S)]

I1First == [i \in Invoices |-> IF i = i1 THEN 0 ELSE 1]

Payers == Permutations(Txs)
=============================================================================
