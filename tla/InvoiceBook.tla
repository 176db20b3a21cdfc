------------------------------ MODULE InvoiceBook ------------------------------
(***************************************************************************)
(* What the Bitcoin watcher promises about money, with the chain, the two  *)
(* loops, their stale copies and the database left out: a set of payments  *)
(* that count, and for every invoice a total and a status that are right   *)
(* at every moment, with payment.finished announced in the very step in    *)
(* which the requested amount is reached: once per merchant, and not, as   *)
(* enqueue_webhook says, once per invoice.  EsploraWatcher implements it.  *)
(***************************************************************************)
EXTENDS Naturals

CONSTANTS
  Invoices,
  MerchantOf, \* invoice -> its merchant
  Pays,       \* the pairs <<transaction, invoice>>
  Requested,  \* invoice -> amount_requested
  Value       \* set of Pays -> what they add up to

VARIABLES
  counted,    \* the payments on record that are not orphaned
  book,       \* invoice -> its status and amount_received
  announced   \* the invoices whose payment.finished was sent

bookVars == <<counted, book, announced>>

\* settle_invoice: the total and the status of an invoice for which S counts.
TotalOf(S, i) == Value[{p \in S : p[2] = i}]
StatusOf(i, received) ==
  IF received = 0 THEN "pending"
  ELSE IF received < Requested[i] THEN "underpaid"
  ELSE IF received = Requested[i] THEN "paid" ELSE "overpaid"

Init ==
  /\ counted = {}
  /\ book = [i \in Invoices |-> [status |-> "pending", received |-> 0]]
  /\ announced = {}

\* payment.finished has the same dedupe key for all invoices of a merchant.
KeyTaken(i) == \E j \in announced : MerchantOf[j] = MerchantOf[i]

\* The books of i follow the set S; the step in which the total gets to what
\* was requested is the one that announces it.
Rebook(S, i) ==
  /\ counted' = S
  /\ book' = [book EXCEPT ![i] =
                [status |-> IF @.status = "expired" THEN "expired"
                            ELSE StatusOf(i, TotalOf(S, i)),
                 received |-> TotalOf(S, i)]]
  /\ announced' = IF /\ book[i].status # "expired"
                     /\ book[i].received < Requested[i]
                     /\ TotalOf(S, i) >= Requested[i]
                     /\ ~KeyTaken(i)
                  THEN announced \cup {i} ELSE announced

\* A payment is recorded, or comes back.
Count(p) == p \notin counted /\ Rebook(counted \cup {p}, p[2])

\* A payment is orphaned.
Discount(p) == p \in counted /\ Rebook(counted \ {p}, p[2])

\* The clock only ends invoices that hold nothing.
Unpaid(i) == book[i].status = "pending" /\ \A p \in counted : p[2] # i
Close ==
  /\ \E S \in SUBSET {i \in Invoices : Unpaid(i)} :
       book' = [i \in Invoices |->
                  IF i \in S THEN [book[i] EXCEPT !.status = "expired"] ELSE book[i]]
  /\ UNCHANGED <<counted, announced>>

Next ==
  \/ \E p \in Pays : Count(p)
  \/ \E p \in Pays : Discount(p)
  \/ Close

Spec == Init /\ [][Next]_bookVars
=============================================================================
