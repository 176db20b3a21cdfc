------------------------------ MODULE SolLedger ------------------------------
(***************************************************************************)
(* The rows a SolanaNetwork keeps in PostgreSQL about money, and the       *)
(* statements of sol.rs that change them; each action is one committed     *)
(* statement or transaction.  Unlike on an EVM chain, one transaction may  *)
(* pay several invoices, so a payment is a pair <<invoice, transaction>>,  *)
(* the unique index on (invoice_id, tx_hash).                              *)
(***************************************************************************)
EXTENDS SolChain

CONSTANTS
  Invoices,
  Direct,         \* transaction -> the invoices whose deposit address it credits
  Claims,         \* transaction -> sets of invoices it references on one credit
  Requested,      \* invoice -> amount_requested
  RequiredLevel,  \* invoice -> the level at which the merchant calls it confirmed
  Value,          \* set of transactions -> what they add up to
  Existing        \* the invoices registered before the run begins

Levels == {"detected", "confirmed", "finalized"}

ASSUME SolLedgerAssumption ==
  /\ Direct \in [Txs -> SUBSET Invoices]
  /\ Claims \in [Txs -> SUBSET SUBSET Invoices]
  /\ Requested \in [Invoices -> Nat \ {0}]
  /\ RequiredLevel \in [Invoices -> Levels]
  /\ Existing \subseteq Invoices
  /\ Value \in [SUBSET Txs -> Nat]
  /\ \A S, T \in SUBSET Txs : S \subseteq T => Value[S] <= Value[T]

VARIABLES
  payments,  \* <<invoice, transaction>> -> its row; "absent" when there is none
  invoices,  \* invoice -> its row
  events     \* webhook_events: the pairs <<event_type, dedupe suffix>>

ledgerVars == <<payments, invoices, events>>

-----------------------------------------------------------------------------
Payments == Invoices \X Txs
PaymentStatuses ==
  {"absent", "detected", "merchant_confirmed", "system_confirmed", "orphaned"}
InvoiceStatuses == {"pending", "underpaid", "paid", "overpaid", "expired"}

PaymentRows == [status : PaymentStatuses, slot : Slots]

\* timeUp is "expires_at has passed"; expire_invoices makes it a status.
InvoiceRows == [status : InvoiceStatuses, received : Nat,
                registered : BOOLEAN, timeUp : BOOLEAN]

Events == ({"payment.detected", "payment.confirmed", "payment.finalized"} \X Payments)
          \cup ({"payment.orphaned"} \X (Payments \X Slots))
          \cup ({"payment.finished"} \X (Invoices \X InvoiceStatuses))
          \cup ({"invoice.expired"} \X Invoices)

LedgerTypeOK ==
  /\ payments \in [Payments -> PaymentRows]
  /\ invoices \in [Invoices -> InvoiceRows]
  /\ events \subseteq Events

LedgerInit ==
  /\ payments = [p \in Payments |-> [status |-> "absent", slot |-> Nowhere]]
  /\ invoices = [i \in Invoices |-> [status |-> "pending", received |-> 0,
                                     registered |-> i \in Existing, timeUp |-> FALSE]]
  /\ events = {}

-----------------------------------------------------------------------------
\* Queries.

Recorded(p) == payments[p].status # "absent"
Booked(p) == payments[p].status \notin {"absent", "orphaned"}

Open(p) == payments[p].status \in {"detected", "merchant_confirmed"}
Credited(i) == {t \in Txs : Booked(<<i, t>>)}

Live(i) == /\ invoices[i].registered
           /\ invoices[i].status \in {"pending", "underpaid"}
           /\ ~invoices[i].timeUp

\* load_watched_invoices: still waiting for money, or still counting.
WatchedInvoices == {i \in Invoices : Live(i) \/ \E t \in Txs : Open(<<i, t>>)}

\* Mutant: the index holds every invoice ever made.
AttributedToAny(t, watched) == Direct[t] \cup UNION Claims[t]

\* classify, with an index of the invoices in watched: the deposit addresses
\* first; then every credit that exactly one watched invoice claims by its
\* reference.  A contested credit goes to nobody.
Attributed(t, watched) ==
  LET direct == Direct[t] \cap watched
      claimants == {(g \cap watched) \ direct : g \in Claims[t]}
  IN  direct \cup UNION {c \in claimants : Cardinality(c) = 1}

Settled(status) == status \in {"paid", "overpaid"}

\* Mutant: an invoice short of one base unit counts as paid.
StatusForShort(i, received) ==
  IF received + 1 >= Requested[i]
  THEN IF received > Requested[i] THEN "overpaid" ELSE "paid"
  ELSE IF received > 0 THEN "underpaid" ELSE "pending"

StatusFor(i, received) ==
  IF received >= Requested[i]
  THEN IF received > Requested[i] THEN "overpaid" ELSE "paid"
  ELSE IF received > 0 THEN "underpaid" ELSE "pending"

-----------------------------------------------------------------------------
\* Statements.

\* apply_transaction: every credit of t in one transaction.  A row that is
\* there is left alone, unless it was orphaned; only a new row is announced.
RecordCredits(t, credits, slot) ==
  /\ payments' = [p \in Payments |->
       IF p[2] = t /\ p[1] \in credits /\ ~Booked(p)
       THEN [status |-> "detected", slot |-> slot] ELSE payments[p]]
  /\ events' = events \cup
       {<<"payment.detected", p>> : p \in {q \in credits \X {t} : ~Recorded(q)}}
  /\ UNCHANGED invoices

\* The guarded UPDATEs of promote_payment.
Promote(p, status) ==
  /\ payments' = [payments EXCEPT ![p].status = status]
  /\ UNCHANGED <<invoices, events>>

\* orphan_payment: the row and payment.orphaned in one transaction.
OrphanPayment(p) ==
  /\ payments' = [payments EXCEPT ![p].status = "orphaned"]
  /\ events' = events \cup {<<"payment.orphaned", <<p, payments[p].slot>>>>}
  /\ UNCHANGED invoices

\* recompute_invoice_totals: the SUM and the guarded UPDATE.  No other task
\* writes payments of this cluster, so the two are one step; an expired
\* invoice stays expired whatever it received.
WriteTotal(i) ==
  LET received == Value[Credited(i)]
  IN  /\ invoices' = [invoices EXCEPT ![i].received = received,
                        ![i].status = IF @ = "expired" THEN @ ELSE StatusFor(i, received)]
      /\ UNCHANGED <<payments, events>>

\* Whether that UPDATE takes the invoice into a settled status.
Finishes(i) ==
  /\ invoices[i].status \notin {"paid", "overpaid", "expired"}
  /\ Settled(StatusFor(i, Value[Credited(i)]))

\* The UPDATE of expire_invoices takes all that are due at once.
Due(i) == /\ invoices[i].registered
          /\ invoices[i].status \in {"pending", "underpaid"}
          /\ invoices[i].timeUp
MarkExpired ==
  /\ invoices' = [i \in Invoices |-> IF Due(i) THEN [invoices[i] EXCEPT !.status = "expired"]
                                     ELSE invoices[i]]
  /\ UNCHANGED <<payments, events>>

-----------------------------------------------------------------------------
\* Rows change outside the watcher too.

\* create_invoice_payment of the token handler gives the invoice its addresses.
RegisterInvoice(i) ==
  /\ ~invoices[i].registered
  /\ invoices' = [invoices EXCEPT ![i].registered = TRUE]
  /\ UNCHANGED <<payments, events>>

\* The clock passes expires_at.
PassExpiry(i) ==
  /\ invoices[i].registered
  /\ ~invoices[i].timeUp
  /\ invoices' = [invoices EXCEPT ![i].timeUp = TRUE]
  /\ UNCHANGED <<payments, events>>
=============================================================================
