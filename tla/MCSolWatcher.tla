----------------------------- MODULE MCSolWatcher -----------------------------
(***************************************************************************)
(* Values for the constants of SolWatcher.  The .cfg files pick from them; *)
(* the real limits (MAX_TX_PER_BATCH 50, 20 pages of 1000 signatures,      *)
(* RECENT_STATUS_WINDOW_SLOTS 300, blockhashes of 150 slots) are scaled    *)
(* down.                                                                   *)
(***************************************************************************)
EXTENDS SolWatcher

CONSTANTS t1, t2, t3, i1, i2, a1, a2

\* Direct and Claims: every transaction goes to the deposit address of i1; t1
\* also pays i2, at its deposit address or by its reference.
ToI1 == [t \in Txs |-> {i1}]
T1ToBoth == [t \in Txs |-> IF t = t1 THEN {i1, i2} ELSE {i1}]
NoClaims == [t \in Txs |-> {}]
T1ClaimedByI2 == [t \in Txs |-> IF t = t1 THEN {{i2}} ELSE {}]

\* WatchAddresses: each invoice its own.  Names: only t1 pays i2, so it alone
\* names the address of i2.
OwnAddress == [i \in Invoices |-> IF i = i1 THEN {a1} ELSE {a2}]
T1NamesBoth == [t \in Txs |-> IF t = t1 THEN Addresses ELSE {a1}]

\* In a slot they share, t1 comes before t2 and t2 before t3.
InOrder == [t \in Txs |-> CASE t = t1 -> 1 [] t = t2 -> 2 [] t = t3 -> 3]

\* Requested, RequiredLevel and Value.
Two == [i \in Invoices |-> 2]
OnDetected == [i \in Invoices |-> "detected"]
UnitValue == [S \in SUBSET Txs |-> Cardinality(S)]
=============================================================================
