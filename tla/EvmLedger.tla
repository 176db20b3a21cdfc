------------------------------ MODULE EvmLedger ------------------------------
(***************************************************************************)
(* The rows an EVMNetwork keeps in PostgreSQL about money: payments,       *)
(* invoices and webhook_events, and the statements of evm.rs that change   *)
(* them.  Each action below is one committed statement or transaction; a   *)
(* handler of evm.rs is a sequence of them (EvmWatcher).                   *)
(*                                                                         *)
(* A payment is identified with its transaction: the unique index on       *)
(* (invoice_id, tx_hash) and single-use deposit addresses make the two the *)
(* same thing as long as a transaction pays one invoice.                   *)
(***************************************************************************)
EXTENDS EvmChain

CONSTANTS
  Invoices,             \* the invoices of one chain
  InvoiceOf,            \* transaction -> the invoice it pays
  Requested,            \* invoice -> amount_requested
  Required,             \* invoice -> required_confirmations
  Value,                \* set of transactions -> what they add up to
  Existing,             \* the invoices registered before the run begins
  FINAL_CONFIRMATIONS

\* Value stands for SUM(amount): all that is assumed of it is that more
\* payments never add up to less.
ASSUME LedgerAssumption ==
  /\ InvoiceOf \in [Txs -> Invoices]
  /\ Requested \in [Invoices -> Nat \ {0}]
  /\ Required \in [Invoices -> Nat]
  /\ Existing \subseteq Invoices
  /\ FINAL_CONFIRMATIONS \in Nat
  /\ Value \in [SUBSET Txs -> Nat]
  /\ \A S, T \in SUBSET Txs : S \subseteq T => Value[S] <= Value[T]

VARIABLES
  payments,  \* transaction -> its row; status "absent" when there is none
  invoices,  \* invoice -> its row
  events     \* webhook_events: the pairs <<event_type, dedupe suffix>>

ledgerVars == <<payments, invoices, events>>

-----------------------------------------------------------------------------
\* Rows.

PaymentStatuses ==
  {"absent", "detected", "merchant_confirmed", "system_confirmed", "orphaned"}
InvoiceStatuses == {"pending", "underpaid", "paid", "overpaid", "expired"}

PaymentRows == [status : PaymentStatuses, block : Heights,
                hash : Hashes \cup {NoHash}, confs : 0 .. MaxTip]

\* created is created_block, Unmined until the token handler has written the
\* row; expired is "expires_at has passed", which is not a status.
InvoiceRows == [status : InvoiceStatuses, received : Nat,
                created : Heights, expired : BOOLEAN]

Events == ({"payment.detected", "payment.confirmed", "payment.finalized",
            "payment.orphaned"} \X Txs)
          \cup ({"payment.finished"} \X (Invoices \X InvoiceStatuses))

NoPayment == [status |-> "absent", block |-> Unmined, hash |-> NoHash, confs |-> 0]

LedgerTypeOK ==
  /\ payments \in [Txs -> PaymentRows]
  /\ invoices \in [Invoices -> InvoiceRows]
  /\ events \subseteq Events

LedgerInit ==
  /\ payments = [t \in Txs |-> NoPayment]
  /\ invoices = [i \in Invoices |->
                   [status |-> "pending", received |-> 0, expired |-> FALSE,
                    created |-> IF i \in Existing THEN tip ELSE Unmined]]
  /\ events = {}

-----------------------------------------------------------------------------
\* Queries.

PaymentsOf(i) == {t \in Txs : InvoiceOf[t] = i}
Open(t) == payments[t].status \in {"detected", "merchant_confirmed"}
OpenPayments(i) == {t \in PaymentsOf(i) : Open(t)}
Credited(i) == {t \in PaymentsOf(i) : payments[t].status \notin {"absent", "orphaned"}}

Registered(i) == invoices[i].created # Unmined
Live(i) == /\ Registered(i)
           /\ invoices[i].status \in {"pending", "underpaid"}
           /\ ~invoices[i].expired

\* Mutant: the watch set without its second arm.
WatchedWhileLive == {i \in Invoices : Live(i)}

\* load_watched_invoices: still waiting for money, or still counting.
WatchedInvoices == {i \in Invoices : Registered(i) /\ (Live(i) \/ OpenPayments(i) # {})}

\* load_scan_plan: the heights that can hold money of a watched invoice.  The
\* merged, sorted ranges of the code are the maximal runs of this set.
PlanOf(i) ==
  LET paid == {payments[t].block : t \in OpenPayments(i)}
  IN  IF Live(i)
      THEN {h \in Heights : \E b \in paid \cup {invoices[i].created} : b <= h}
      ELSE {h \in Heights : /\ \E b \in paid : b <= h
                            /\ \E b \in paid : h <= b + FINAL_CONFIRMATIONS + 1}
ScanPlan == UNION {PlanOf(i) : i \in WatchedInvoices}

Settled(status) == status \in {"paid", "overpaid"}

\* Mutant: an invoice short of one base unit counts as paid.
StatusForShort(i, received) ==
  IF received + 1 >= Requested[i]
  THEN IF received > Requested[i] THEN "overpaid" ELSE "paid"
  ELSE IF received > 0 THEN "underpaid" ELSE "pending"

\* The status a total gives an invoice (recompute_invoice_totals).
StatusFor(i, received) ==
  IF received >= Requested[i]
  THEN IF received > Requested[i] THEN "overpaid" ELSE "paid"
  ELSE IF received > 0 THEN "underpaid" ELSE "pending"

-----------------------------------------------------------------------------
\* Statements.

\* enqueue_webhook: ON CONFLICT (merchant_id, dedupe_key) DO NOTHING.
Enqueue(type, suffix) == events' = events \cup {<<type, suffix>>}

\* INSERT INTO payments and its payment.detected, in one transaction.
InsertPayment(t, block, hash) ==
  /\ payments[t].status = "absent"
  /\ payments' = [payments EXCEPT ![t] = [status |-> "detected", block |-> block,
                                          hash |-> hash, confs |-> 0]]
  /\ Enqueue("payment.detected", t)
  /\ UNCHANGED invoices

\* The row exists: its location follows the block, an orphaned one comes back.
\* Neither the amount nor the confirmations are touched.
RelocatePayment(t, block, hash) ==
  /\ payments[t].status # "absent"
  /\ payments' = IF payments[t].hash # hash \/ payments[t].status = "orphaned"
                 THEN [payments EXCEPT ![t].block = block, ![t].hash = hash,
                         ![t].status = IF @ = "orphaned" THEN "detected" ELSE @]
                 ELSE payments
  /\ UNCHANGED <<invoices, events>>

\* handle_reorg, the transaction is mined: location, counter and status reset.
ResetPayment(t, block, hash) ==
  /\ payments' = [payments EXCEPT ![t] = [status |-> "detected", block |-> block,
                                          hash |-> hash, confs |-> 0]]
  /\ UNCHANGED <<invoices, events>>

\* Mutant: the row is orphaned and nobody is told.
OrphanQuietly(t) ==
  /\ payments' = [payments EXCEPT ![t].status = "orphaned", ![t].confs = 0]
  /\ UNCHANGED <<invoices, events>>

\* handle_reorg, the transaction is not mined: the row and payment.orphaned.
OrphanPayment(t) ==
  /\ payments' = [payments EXCEPT ![t].status = "orphaned", ![t].confs = 0]
  /\ Enqueue("payment.orphaned", t)
  /\ UNCHANGED invoices

\* Mutant: nothing keeps the count from going below zero when the payment moved
\* above the tip of the tick.
DepthUnclamped(at, block) == at - block + 1

\* refresh_confirmations: a payment in the tip block has one confirmation.
Depth(at, block) == IF at >= block THEN at - block + 1 ELSE 0

\* The bulk UPDATE of the counters.
CountConfirmations(watched, at) ==
  /\ payments' = [t \in Txs |->
       IF InvoiceOf[t] \in watched /\ Open(t)
       THEN [payments[t] EXCEPT !.confs = Depth(at, payments[t].block)]
       ELSE payments[t]]
  /\ UNCHANGED <<invoices, events>>

\* The guarded UPDATEs of the two promotions: whether a row matched decides
\* what follows.
MayConfirm(t) == payments[t].status = "detected"
MayFinalize(t) == payments[t].status # "system_confirmed"
Promote(t, may, status) ==
  /\ payments' = IF may THEN [payments EXCEPT ![t].status = status] ELSE payments
  /\ UNCHANGED <<invoices, events>>

\* The guarded UPDATE of recompute_invoice_totals.  It touches the row only
\* when something changes, and never takes an invoice out of "expired".
TotalChanges(i, received) ==
  \/ invoices[i].received # received
  \/ invoices[i].status \notin {StatusFor(i, received), "expired"}
WriteTotal(i, received) ==
  /\ invoices' = IF TotalChanges(i, received)
                 THEN [invoices EXCEPT ![i].received = received,
                         ![i].status = IF @ = "expired" THEN @ ELSE StatusFor(i, received)]
                 ELSE invoices
  /\ UNCHANGED <<payments, events>>

\* Whether that UPDATE is followed by payment.finished.
Finishes(i, received) ==
  /\ TotalChanges(i, received)
  /\ Settled(StatusFor(i, received))
  /\ ~Settled(invoices[i].status)

-----------------------------------------------------------------------------
\* Rows change outside the watchers too.

\* create_invoice_payment of the token handler: the UPDATE that gives the
\* invoice its address, chain and created_block makes it watchable.
RegisterInvoice(i) ==
  /\ ~Registered(i)
  /\ invoices' = [invoices EXCEPT ![i].created = tip]
  /\ UNCHANGED <<payments, events>>

\* The clock passes expires_at.  No EVM code writes the status "expired".
PassExpiry(i) ==
  /\ Registered(i)
  /\ ~invoices[i].expired
  /\ invoices' = [invoices EXCEPT ![i].expired = TRUE]
  /\ UNCHANGED <<payments, events>>

-----------------------------------------------------------------------------
\* Properties of the rows alone; EvmWatcher checks them.

\* The merchant has been told of every payment on record, and of every one
\* that is orphaned now: the row and the event are one transaction in
\* apply_block, apply_erc20_transfers, apply_payment_log and handle_reorg.
PaymentsAnnounced ==
  \A t \in Txs :
    /\ payments[t].status # "absent" => <<"payment.detected", t>> \in events
    /\ payments[t].status = "orphaned" => <<"payment.orphaned", t>> \in events

\* payment.finished only ever goes out for an invoice whose payments, those
\* orphaned since included, add up to what was requested: a total read from
\* the database before other payments came or went never settles an invoice
\* that was short of money all along (recompute_invoice_totals).
EverRecorded(i) == {t \in PaymentsOf(i) : payments[t].status # "absent"}
FinishedWasFunded ==
  \A i \in Invoices, status \in InvoiceStatuses :
    <<"payment.finished", <<i, status>>>> \in events => Value[EverRecorded(i)] >= Requested[i]
=============================================================================
