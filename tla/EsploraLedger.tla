----------------------------- MODULE EsploraLedger -----------------------------
(***************************************************************************)
(* The payments, invoices and webhook_events rows of an EsploraNetwork and *)
(* the database transactions of esplora.rs that change them.  Unlike the   *)
(* EVM and Solana watchers, esplora.rs writes a payment, the total of its  *)
(* invoice and the webhooks about both in one transaction, which holds the *)
(* lock of the payment row and then of the invoice row until it commits:   *)
(* each is one step here.                                                  *)
(***************************************************************************)
EXTENDS EsploraChain

CONSTANTS
  Invoices,
  Merchants,
  MerchantOf,           \* invoice -> its merchant
  Pays,                 \* the pairs <<transaction, invoice>>: outputs to its address
  Requested,            \* invoice -> amount_requested
  Required,             \* invoice -> required_confirmations
  Value,                \* set of Pays -> SUM(amount) of their rows
  Age,                  \* invoice -> rank by created_at, the newest first
  FINAL_CONFIRMATIONS,
  MAX_WATCHED_INVOICES

ASSUME EsploraLedgerAssumption ==
  /\ Pays \subseteq Txs \X Invoices
  /\ MerchantOf \in [Invoices -> Merchants]
  /\ Requested \in [Invoices -> Nat \ {0}]
  /\ Required \in [Invoices -> Nat]
  /\ Value \in [SUBSET Pays -> Nat]
  /\ Value[{}] = 0
  /\ \A S \in SUBSET Pays : \A T \in SUBSET S : Value[T] <= Value[S]
  /\ Age \in [Invoices -> Nat]
  /\ FINAL_CONFIRMATIONS \in Nat \ {0}
  /\ MAX_WATCHED_INVOICES \in Nat

VARIABLES
  payments,  \* Pays -> its row; status "absent" when there is none
  invoices,  \* invoice -> its row
  events     \* webhook_events: <<event_type, dedupe suffix, invoice>>

ledgerVars == <<payments, invoices, events>>

-----------------------------------------------------------------------------
\* Rows.

PaymentStatuses ==
  {"absent", "detected", "merchant_confirmed", "system_confirmed", "orphaned"}
InvoiceStatuses == {"pending", "underpaid", "paid", "overpaid", "expired"}

\* Where now stands: before the token handler wrote the address, before
\* expires_at, within WATCH_GRACE_MINUTES of it, later.
Clocks == {"unset", "open", "grace", "over"}

PaymentRows == [status : PaymentStatuses, block : Heights]
InvoiceRows == [status : InvoiceStatuses, received : Nat, clock : Clocks]

\* The suffix that maybe_finish gives every payment.finished.
InvoiceKey == "invoice"
TxEvents == {"payment.detected", "payment.confirmed", "payment.finalized", "payment.orphaned"}
Events == (TxEvents \X Txs \X Invoices)
          \cup ({"payment.finished"} \X {InvoiceKey} \X Invoices)

NoPayment == [status |-> "absent", block |-> Unmined]

LedgerTypeOK ==
  /\ payments \in [Pays -> PaymentRows]
  /\ invoices \in [Invoices -> InvoiceRows]
  /\ events \subseteq Events

LedgerInit ==
  /\ payments = [p \in Pays |-> NoPayment]
  /\ invoices = [i \in Invoices |-> [status |-> "pending", received |-> 0, clock |-> "unset"]]
  /\ events = {}

-----------------------------------------------------------------------------
\* Queries.

CREDIT_UNCONFIRMED == TRUE

PaymentsOf(i) == {p \in Pays : p[2] = i}
Credited(rows, i) ==
  {p \in PaymentsOf(i) : /\ rows[p].status \notin {"absent", "orphaned"}
                         /\ rows[p].block # Unmined \/ CREDIT_UNCONFIRMED}
Open(p) == payments[p].status \in {"detected", "merchant_confirmed"}

\* Mutant: an invoice is forgotten once its window is over.
WatchableWhileOpen(i) ==
  invoices[i].clock \in {"open", "grace"} /\ invoices[i].status # "expired"

\* load_watch_set, the WHERE.
Watchable(i) ==
  /\ invoices[i].clock # "unset"
  /\ \/ invoices[i].status # "expired" /\ invoices[i].clock # "over"
     \/ \E p \in PaymentsOf(i) : Open(p)

\* load_watch_set, ORDER BY created_at DESC LIMIT.
WatchSet ==
  {i \in Invoices :
     /\ Watchable(i)
     /\ Cardinality({j \in Invoices : Watchable(j) /\ Age[j] < Age[i]}) < MAX_WATCHED_INVOICES}

\* confirmations_for: a block above the tip in memory still counts as one.
Confirmations(block, at) == IF at >= block THEN at - block + 1 ELSE 1

-----------------------------------------------------------------------------
\* promote, settle_invoice, maybe_finish and enqueue_webhook: the parts of
\* every transaction.

\* The two latches of promote, as guards of their UPDATEs and as the status
\* they leave behind.
Confirms(i, status, confs) == status = "detected" /\ confs >= Required[i]
Finalizes(status, confs) ==
  status \in {"detected", "merchant_confirmed"} /\ confs >= FINAL_CONFIRMATIONS
Promoted(i, status, confs) ==
  IF Finalizes(status, confs) THEN "system_confirmed"
  ELSE IF Confirms(i, status, confs) THEN "merchant_confirmed" ELSE status
Latches(i, t, status, confs) ==
  (IF Confirms(i, status, confs) THEN {<<"payment.confirmed", t>>} ELSE {})
  \cup (IF Finalizes(status, confs) THEN {<<"payment.finalized", t>>} ELSE {})

StatusFor(i, received) ==
  IF received = 0 THEN "pending"
  ELSE IF received < Requested[i] THEN "underpaid"
  ELSE IF received = Requested[i] THEN "paid" ELSE "overpaid"

Total(rows, i) == Value[Credited(rows, i)]

\* Mutant: a late payment takes the invoice out of "expired".
SettledAnyway(rows, i) ==
  [invoices EXCEPT ![i].received = Total(rows, i), ![i].status = StatusFor(i, Total(rows, i))]

\* settle_invoice: a full recompute over the rows of the transaction.
Settled(rows, i) ==
  [invoices EXCEPT ![i].received = Total(rows, i),
     ![i].status = IF @ = "expired" THEN @ ELSE StatusFor(i, Total(rows, i))]
FinishedNow(rows, i) ==
  /\ invoices[i].status # "expired"
  /\ invoices[i].received < Requested[i]
  /\ Total(rows, i) >= Requested[i]
Finish(rows, i) ==
  IF FinishedNow(rows, i) THEN {<<"payment.finished", InvoiceKey>>} ELSE {}

\* enqueue_webhook: ON CONFLICT (merchant_id, dedupe_key) DO NOTHING.
Taken(i, key) ==
  \E j \in Invoices : MerchantOf[j] = MerchantOf[i] /\ <<key[1], key[2], j>> \in events
Announce(i, keys) ==
  events' = events \cup {<<key[1], key[2], i>> : key \in {k \in keys : ~Taken(i, k)}}

-----------------------------------------------------------------------------
\* Transactions.  v is the height the caller holds for the tip.

\* insert_payment: a transaction that is first seen deep is promoted at once.
InsertPayment(p, at, v) ==
  LET i == p[2]
      confs == IF at = Unmined THEN 0 ELSE Confirmations(at, v)
      status == IF at = Unmined THEN "detected" ELSE Promoted(i, "detected", confs)
      rows == [payments EXCEPT ![p] = [status |-> status, block |-> at]]
      latches == IF at = Unmined THEN {} ELSE Latches(i, p[1], "detected", confs)
  IN  IF payments[p].status = "absent"
      THEN /\ payments' = rows
           /\ invoices' = Settled(rows, i)
           /\ Announce(i, {<<"payment.detected", p[1]>>} \cup latches \cup Finish(rows, i))
      ELSE UNCHANGED ledgerVars

\* apply_chain_state, the transaction is mined at height at.  row is what the
\* caller read of the payment; the UPDATEs are guarded on the row as it is.
ApplyMined(p, row, at, v) ==
  LET i == p[2]
      confs == Confirmations(at, v)
      resurrected == payments[p].status = "orphaned"
      status == IF resurrected THEN "detected" ELSE payments[p].status
      promoted == Promoted(i, status, confs) # status
      rows == [payments EXCEPT ![p] = [status |-> Promoted(i, status, confs), block |-> at]]
  IN  IF row.status = "system_confirmed" /\ row.block = at
      THEN UNCHANGED ledgerVars
      ELSE /\ payments' = rows
           /\ IF resurrected \/ promoted
              THEN /\ invoices' = Settled(rows, i)
                   /\ Announce(i, Latches(i, p[1], status, confs) \cup Finish(rows, i))
              ELSE UNCHANGED <<invoices, events>>

\* Mutant: the row is orphaned and nobody is told.
OrphanQuietly(p) ==
  IF payments[p].status # "orphaned"
  THEN LET rows == [payments EXCEPT ![p].status = "orphaned"]
       IN  payments' = rows /\ invoices' = Settled(rows, p[2]) /\ UNCHANGED events
  ELSE UNCHANGED ledgerVars

\* Mutant: the row is orphaned and the total keeps it.
OrphanUnsettled(p) ==
  IF payments[p].status # "orphaned"
  THEN /\ payments' = [payments EXCEPT ![p].status = "orphaned"]
       /\ UNCHANGED invoices
       /\ Announce(p[2], {<<"payment.orphaned", p[1]>>})
  ELSE UNCHANGED ledgerVars

\* orphan_payment.
OrphanPayment(p) ==
  LET i == p[2]
      rows == [payments EXCEPT ![p].status = "orphaned"]
  IN  IF payments[p].status # "orphaned"
      THEN /\ payments' = rows
           /\ invoices' = Settled(rows, i)
           /\ Announce(i, {<<"payment.orphaned", p[1]>>})
      ELSE UNCHANGED ledgerVars

\* Mutant: a transaction that fell back into the mempool is left alone.
ApplyMempoolIgnored(p, row, at, v) ==
  CASE at \in Heights \ {Unmined} -> ApplyMined(p, row, at, v)
    [] at = Unmined -> UNCHANGED ledgerVars
    [] at = Gone -> OrphanPayment(p)

\* apply_chain_state: mined, known but not mined, or denied.
ApplyChainState(p, row, at, v) ==
  CASE at \in Heights \ {Unmined} -> ApplyMined(p, row, at, v)
    [] at = Unmined -> IF row.block # Unmined THEN OrphanPayment(p) ELSE UNCHANGED ledgerVars
    [] at = Gone -> OrphanPayment(p)

\* expire_invoices: only those that hold nothing.
Unpaid(i) == /\ invoices[i].status = "pending"
             /\ invoices[i].received = 0
             /\ \A p \in PaymentsOf(i) : payments[p].status \in {"absent", "orphaned"}
ExpireInvoices ==
  /\ invoices' = [i \in Invoices |->
       IF Unpaid(i) /\ invoices[i].clock \in {"grace", "over"}
       THEN [invoices[i] EXCEPT !.status = "expired"] ELSE invoices[i]]
  /\ UNCHANGED <<payments, events>>

-----------------------------------------------------------------------------
\* Rows change outside the watcher too.

\* create_invoice_payment of the bitcoin handler: the UPDATE that gives the
\* invoice its address and network_type makes it watchable.
RegisterInvoice(i) ==
  /\ invoices[i].clock = "unset"
  /\ invoices' = [invoices EXCEPT ![i].clock = "open"]
  /\ UNCHANGED <<payments, events>>

\* now() passes expires_at, and then the grace period.
PassTime(i) ==
  /\ invoices[i].clock \in {"open", "grace"}
  /\ invoices' = [invoices EXCEPT ![i].clock = IF @ = "open" THEN "grace" ELSE "over"]
  /\ UNCHANGED <<payments, events>>
=============================================================================
