-------------------------- MODULE EsploraSafetyProofs --------------------------
(***************************************************************************)
(* What the two loops of EsploraWatcher never get wrong, for every value   *)
(* of its constants: the total of an invoice, the depth of a final         *)
(* payment, the announcements, and with them the refinement of InvoiceBook. *)
(***************************************************************************)
EXTENDS EsploraProofs

(***************************************************************************)
(* Seen from the rows, a step is one database transaction or none.  Where  *)
(* it places a payment is where one of the loops was told that it is, and  *)
(* the depth is counted from the tip which that loop holds.                *)
(***************************************************************************)
Said(w, t, at) ==
  \/ \E e \in w.listed : e.tx = t /\ e.block = at
  \/ w.pc = "decide" /\ w.pay[1] = t /\ w.at = at
Holds(t, at, v) ==
  \/ chain.pc = "apply" /\ chain.pay[1] = t /\ chain.at = at /\ v = tip_height
  \/ v = round.tip /\ \E i \in Invoices : Said(worker[i], t, at)

Inserts == \E p \in Pays, at \in Heights, v \in Heights :
             Holds(p[1], at, v) /\ InsertPayment(p, at, v)
Places == \E p \in Present, at \in MinedHeights, v \in Heights :
            Holds(p[1], at, v) /\ \E row : ApplyMined(p, row, at, v)
Orphans == \E p \in Present : OrphanPayment(p)
Clock == ExpireInvoices \/ \E i \in Invoices : RegisterInvoice(i) \/ PassTime(i)
Transaction == UNCHANGED ledgerVars \/ Inserts \/ Places \/ Orphans \/ Clock

LEMMA ChainStateTransaction ==
  ASSUME NEW p \in Present, NEW row, NEW at \in Answers, NEW v \in Heights,
         Holds(p[1], at, v), ApplyChainState(p, row, at, v)
  PROVE  Transaction
<1>1. CASE at \in MinedHeights /\ ApplyMined(p, row, at, v)
  BY <1>1 DEF Transaction, Places
<1>2. CASE OrphanPayment(p)
  BY <1>2 DEF Transaction, Orphans
<1>3. CASE UNCHANGED ledgerVars
  BY <1>3 DEF Transaction
<1>4. QED BY <1>1, <1>2, <1>3, ChainStateCases

LEMMA ChainTransactions ==
  ASSUME TypeInv, ChainStep
  PROVE  Transaction
<1>1. CASE ApplyAboveFork
  <2>1. /\ chain.pay \in Present /\ chain.at \in Answers /\ tip_height \in Heights
        /\ chain.pc = "apply"
    BY <1>1, TypeFacts DEF ApplyAboveFork, ChainAt, ChainOK, ChainLocals
  <2>2. Holds(chain.pay[1], chain.at, tip_height)
    BY <2>1 DEF Holds
  <2>3. QED BY <1>1, <2>1, <2>2, ChainStateTransaction DEF ApplyAboveFork
<1>2. CASE ~ApplyAboveFork
  BY <1>2 DEF ChainStep, ReadTip, CheckCursor, WalkPage, FinishWalk, ForgetAboveFork, Rewind,
              SelectAboveFork, AskAboveFork, LedgerAndRestUnchanged, Transaction
<1>3. QED BY <1>1, <1>2

LEMMA WorkerTransactions ==
  ASSUME TypeInv, NEW i \in Invoices, WorkerStep(i)
  PROVE  Transaction
<1>1. CASE ApplyListed(i)
  <2>1. PICK e \in worker[i].listed :
          \/ InsertPayment(<<e.tx, i>>, e.block, round.tip)
          \/ /\ worker[i].snap[<<e.tx, i>>].status # "absent"
             /\ ApplyChainState(<<e.tx, i>>, worker[i].snap[<<e.tx, i>>], e.block, round.tip)
    BY <1>1 DEF ApplyListed
  <2> DEFINE p == <<e.tx, i>>
  <2>2. /\ p \in Pays /\ e.block \in Heights /\ e.block \in Answers /\ round.tip \in Heights
        /\ worker[i].snap[p].status # "absent" => p \in Present
    BY ListedPayment, TypeFacts DEF RoundLocals
  <2>3. p[1] = e.tx /\ Holds(p[1], e.block, round.tip)
    BY DEF Holds, Said
  <2>4. CASE InsertPayment(p, e.block, round.tip)
    BY <2>2, <2>3, <2>4 DEF Transaction, Inserts
  <2>5. CASE /\ worker[i].snap[p].status # "absent"
             /\ ApplyChainState(p, worker[i].snap[p], e.block, round.tip)
    BY <2>2, <2>3, <2>5, ChainStateTransaction
  <2>6. QED BY <2>1, <2>4, <2>5
<1>2. CASE ApplyUnlisted(i)
  <2>1. /\ worker[i].pay \in Present /\ worker[i].at \in Answers /\ round.tip \in Heights
        /\ worker[i].pc = "decide"
    BY <1>2, TypeFacts DEF ApplyUnlisted, WorkerAt, WorkerOK, WorkerLocals, RoundLocals
  <2>2. Holds(worker[i].pay[1], worker[i].at, round.tip)
    BY <2>1 DEF Holds, Said
  <2>3. QED BY <1>2, <2>1, <2>2, ChainStateTransaction DEF ApplyUnlisted
<1>3. CASE ListAddress(i) \/ LoadPayments(i) \/ AskUnlisted(i)
  BY <1>3 DEF ListAddress, LoadPayments, AskUnlisted, Transaction
<1>4. QED BY <1>1, <1>2, <1>3 DEF WorkerStep

LEMMA NextTransactions ==
  ASSUME TypeInv, [Next]_vars
  PROVE  Transaction
<1>1. CASE RoundStep
  BY <1>1 DEF RoundStep, Sweep, LoadWatchSet, FinishRound, Transaction, Clock
<1>2. ASSUME NEW i \in Invoices, WorkerStep(i) \/ AbortWorker(i) \/ SkipUnlisted(i)
      PROVE  Transaction
  BY <1>2, WorkerTransactions DEF AbortWorker, SkipUnlisted, Transaction
<1>3. CASE AbortChain \/ SkipAboveFork \/ SkipSweep \/ AbortRound \/ Crash
  BY <1>3 DEF AbortChain, SkipAboveFork, SkipSweep, AbortRound, Crash, Transaction
<1>4. CASE PayTx \/ LosePayTx \/ GrowChain \/ ReorgChain \/ UNCHANGED vars
  BY <1>4 DEF PayTx, LosePayTx, GrowChain, ReorgChain, WatcherUnchanged, vars, Transaction
<1>5. CASE CreateInvoice \/ ClockPasses
  BY <1>5, EsploraWatcherAssumption DEF CreateInvoice, ClockPasses, Transaction, Clock
<1>6. QED BY <1>1, <1>2, <1>3, <1>4, <1>5, ChainTransactions DEF Next

-----------------------------------------------------------------------------
(***************************************************************************)
(* Totals.  The books of an invoice follow the payments that count.        *)
(***************************************************************************)
Counts(rows, p) == rows[p].status \notin {"absent", "orphaned"}

LEMMA CreditedCounts ==
  ASSUME NEW rows, NEW i
  PROVE  Credited(rows, i) = {p \in PaymentsOf(i) : Counts(rows, p)}
  BY DEF Credited, CREDIT_UNCONFIRMED, Counts

\* A total only depends on which payments of the invoice count.
LEMMA SameTotal ==
  ASSUME NEW rows, NEW others, NEW i,
         \A p \in PaymentsOf(i) : Counts(rows, p) <=> Counts(others, p)
  PROVE  Credited(rows, i) = Credited(others, i) /\ Total(rows, i) = Total(others, i)
<1>1. Credited(rows, i) = Credited(others, i)
  BY CreditedCounts
<1>2. QED BY <1>1 DEF Total

ExactAt(i) == /\ invoices[i].received = Total(payments, i)
              /\ invoices[i].status \in {"expired", StatusFor(i, Total(payments, i))}

LEMMA SettledExact ==
  ASSUME LedgerTypeOK, TotalsExact, NEW p \in Pays,
         \A q \in Pays \ {p} : payments'[q] = payments[q],
         invoices' = Settled(payments', p[2])
  PROVE  TotalsExact'
<1>1. ASSUME NEW i \in Invoices PROVE ExactAt(i)'
  <2>1. CASE i = p[2]
    <3>1. /\ invoices'[i].received = Total(payments', i)
          /\ invoices'[i].status = IF invoices[i].status = "expired" THEN "expired"
                                   ELSE StatusFor(i, Total(payments', i))
      BY <2>1 DEF Settled, LedgerTypeOK, InvoiceRows
    <3>2. QED BY <3>1 DEF ExactAt
  <2>2. CASE i # p[2]
    <3>1. \A q \in PaymentsOf(i) : Counts(payments', q) <=> Counts(payments, q)
      BY <2>2 DEF PaymentsOf, Counts
    <3>2. Total(payments', i) = Total(payments, i)
      BY <3>1, SameTotal
    <3>3. invoices'[i] = invoices[i]
      BY <2>2 DEF Settled, LedgerTypeOK
    <3>4. QED BY <3>2, <3>3 DEF TotalsExact, ExactAt
  <2>3. QED BY <2>1, <2>2
<1>2. QED BY <1>1 DEF TotalsExact, ExactAt

LEMMA UncountedExact ==
  ASSUME TotalsExact, UNCHANGED invoices,
         \A p \in Pays : Counts(payments', p) <=> Counts(payments, p)
  PROVE  TotalsExact'
<1>1. \A i : Total(payments', i) = Total(payments, i)
  BY SameTotal DEF PaymentsOf
<1>2. QED BY <1>1 DEF TotalsExact

(***************************************************************************)
(* The three transactions that touch a payment, seen from the books: the   *)
(* row of one payment changes, and either its invoice is settled over the  *)
(* new rows, or the payment counts as before and the books stay.           *)
(***************************************************************************)
OnlyRow(p) == \A q \in Pays \ {p} : payments'[q] = payments[q]
Rebooked(p) ==
  /\ invoices' = Settled(payments', p[2])
  /\ \E keys \in SUBSET (TxEvents \X {p[1]}) :
       \/ Announce(p[2], keys \cup Finish(payments', p[2]))
       \/ ~Counts(payments', p) /\ Announce(p[2], keys)
Relocated(p) ==
  /\ UNCHANGED <<invoices, events>>
  /\ Counts(payments', p) <=> Counts(payments, p)

LEMMA InsertBooks ==
  ASSUME LedgerTypeOK, NEW p \in Pays, NEW at, NEW v, InsertPayment(p, at, v),
         ~UNCHANGED ledgerVars
  PROVE  OnlyRow(p) /\ Rebooked(p)
<1> DEFINE confs == IF at = Unmined THEN 0 ELSE Confirmations(at, v)
           latches == IF at = Unmined THEN {} ELSE Latches(p[2], p[1], "detected", confs)
           keys == {<<"payment.detected", p[1]>>} \cup latches
<1>1. /\ invoices' = Settled(payments', p[2]) /\ Announce(p[2], keys \cup Finish(payments', p[2]))
      /\ \E row : payments' = [payments EXCEPT ![p] = row]
  BY DEF InsertPayment
<1>2. OnlyRow(p)
  BY <1>1 DEF OnlyRow, LedgerTypeOK
<1>3. keys \in SUBSET (TxEvents \X {p[1]})
  BY DEF Latches, TxEvents
<1> HIDE DEF keys
<1>4. QED BY <1>1, <1>2, <1>3 DEF Rebooked

LEMMA PlaceBooks ==
  ASSUME LedgerTypeOK, NEW p \in Pays, NEW row, NEW at, NEW v, ApplyMined(p, row, at, v),
         ~UNCHANGED ledgerVars
  PROVE  OnlyRow(p) /\ (Rebooked(p) \/ Relocated(p))
<1> DEFINE confs == Confirmations(at, v)
           status == IF payments[p].status = "orphaned" THEN "detected" ELSE payments[p].status
           new == [status |-> Promoted(p[2], status, confs), block |-> at]
           keys == Latches(p[2], p[1], status, confs)
<1>1. /\ payments' = [payments EXCEPT ![p] = new]
      /\ \/ /\ invoices' = Settled(payments', p[2])
            /\ Announce(p[2], keys \cup Finish(payments', p[2]))
         \/ /\ UNCHANGED <<invoices, events>>
            /\ payments[p].status # "orphaned"
            /\ Promoted(p[2], status, confs) = status
  BY DEF ApplyMined
<1>2. OnlyRow(p) /\ payments'[p] = new
  BY <1>1 DEF OnlyRow, LedgerTypeOK
<1>3. CASE invoices' = Settled(payments', p[2]) /\ Announce(p[2], keys \cup Finish(payments', p[2]))
  <2>1. keys \in SUBSET (TxEvents \X {p[1]})
    BY DEF Latches, TxEvents
  <2> HIDE DEF keys
  <2>2. QED BY <1>2, <1>3, <2>1 DEF Rebooked
<1>4. CASE /\ UNCHANGED <<invoices, events>>
           /\ payments[p].status # "orphaned"
           /\ Promoted(p[2], status, confs) = status
  BY <1>2, <1>4 DEF Relocated, Counts
<1>5. QED BY <1>1, <1>3, <1>4

LEMMA OrphanBooks ==
  ASSUME LedgerTypeOK, NEW p \in Pays, OrphanPayment(p), ~UNCHANGED ledgerVars
  PROVE  OnlyRow(p) /\ Rebooked(p)
<1> DEFINE keys == {<<"payment.orphaned", p[1]>>}
<1>1. /\ payments' = [payments EXCEPT ![p].status = "orphaned"]
      /\ invoices' = Settled(payments', p[2]) /\ Announce(p[2], keys)
  BY DEF OrphanPayment
<1>2. OnlyRow(p) /\ payments'[p].status = "orphaned"
  BY <1>1 DEF OnlyRow, LedgerTypeOK, PaymentRows
<1>3. keys \in SUBSET (TxEvents \X {p[1]}) /\ ~Counts(payments', p)
  BY <1>2 DEF TxEvents, Counts
<1> HIDE DEF keys
<1>4. QED BY <1>1, <1>2, <1>3 DEF Rebooked

LEMMA Bookings ==
  ASSUME TypeInv, [Next]_vars
  PROVE  \/ UNCHANGED ledgerVars
         \/ \E p \in Pays : OnlyRow(p) /\ (Rebooked(p) \/ Relocated(p))
         \/ Clock
  BY NextTransactions, TypeFacts, InsertBooks, PlaceBooks, OrphanBooks
  DEF Transaction, Inserts, Places, Orphans, Present

LEMMA ClockExact ==
  ASSUME LedgerTypeOK, TotalsExact, Clock
  PROVE  TotalsExact'
<1>1. UNCHANGED payments
  BY DEF Clock, ExpireInvoices, RegisterInvoice, PassTime
<1>2. \A i \in Invoices : /\ invoices'[i].received = invoices[i].received
                          /\ invoices'[i].status \in {"expired", invoices[i].status}
  BY DEF Clock, ExpireInvoices, RegisterInvoice, PassTime, LedgerTypeOK, InvoiceRows
<1>3. QED BY <1>1, <1>2 DEF TotalsExact, Total, Credited

LEMMA InitTotals == Init => TotalsExact
<1> SUFFICES ASSUME Init, NEW i \in Invoices PROVE ExactAt(i)
  BY DEF TotalsExact, ExactAt
<1>1. payments = [p \in Pays |-> NoPayment] /\ invoices[i].received = 0
      /\ invoices[i].status = "pending"
  BY DEF Init, LedgerInit
<1>2. Credited(payments, i) = {}
  BY <1>1 DEF Credited, PaymentsOf, NoPayment
<1>3. Total(payments, i) = 0
  BY <1>2, EsploraLedgerAssumption DEF Total
<1>4. QED BY <1>1, <1>3 DEF ExactAt, StatusFor

LEMMA NextTotals == TypeInv /\ TotalsExact /\ [Next]_vars => TotalsExact'
<1> SUFFICES ASSUME TypeInv, TotalsExact, [Next]_vars PROVE TotalsExact'
  OBVIOUS
<1>1. CASE UNCHANGED ledgerVars
  BY <1>1 DEF ledgerVars, TotalsExact, Total, Credited
<1>2. ASSUME NEW p \in Pays, OnlyRow(p), Rebooked(p) PROVE TotalsExact'
  BY <1>2, TypeFacts, SettledExact DEF OnlyRow, Rebooked
<1>3. ASSUME NEW p \in Pays, OnlyRow(p), Relocated(p) PROVE TotalsExact'
  <2>1. \A q \in Pays : Counts(payments', q) <=> Counts(payments, q)
    BY <1>3 DEF OnlyRow, Relocated, Counts
  <2>2. QED BY <1>3, <2>1, UncountedExact DEF Relocated
<1>4. CASE Clock
  BY <1>4, TypeFacts, ClockExact
<1>5. QED BY <1>1, <1>2, <1>3, <1>4, Bookings

\* The total and the status of an invoice are those of its payments at every
\* moment (settle_invoice in the transaction of every change).
THEOREM TotalsAlwaysExact == Spec => []TotalsExact
<1>1. Init => TypeInv /\ TotalsExact
  BY InitType, InitTotals
<1>2. TypeInv /\ TotalsExact /\ [Next]_vars => (TypeInv /\ TotalsExact)'
  BY NextType, NextTotals
<1>3. QED BY <1>1, <1>2, PTL DEF Spec

-----------------------------------------------------------------------------
(***************************************************************************)
(* Depth.  A loop finalizes a payment on what it was told a while ago.     *)
(* That is safe because of an order in time: the tip it counts from was    *)
(* read before the place of the transaction, so a place that is deep by    *)
(* that tip was deep when it was told; and no reorganisation goes so deep. *)
(***************************************************************************)
Deep(t, at) == minedAt[t] = at /\ tip - at + 1 >= FINAL_CONFIRMATIONS

SightingsTrue ==
  \A t \in Txs, at \in MinedHeights, v \in Heights :
    Holds(t, at, v) /\ Confirmations(at, v) >= FINAL_CONFIRMATIONS => Deep(t, at)

WorkersRest ==
  \A i \in Invoices : worker[i].pc = "idle" \/ round.pc # "work" => worker[i] = IdleWorker

TipsBehind ==
  /\ \A t \in Txs : minedAt[t] <= tip
  /\ tip_height <= tip /\ round.tip <= tip

FinalInv == TypeInv /\ TipsBehind /\ WorkersRest /\ SightingsTrue /\ FinalIsBuried

LEMMA ChainChanges ==
  ASSUME [Next]_vars
  PROVE  UNCHANGED chainVars \/ GrowChain \/ ReorgChain
<1>1. CASE ChainStep
  BY <1>1 DEF ChainStep, ReadTip, CheckCursor, WalkPage, FinishWalk, ForgetAboveFork, Rewind,
              SelectAboveFork, AskAboveFork, ApplyAboveFork, esploraChainVars
<1>2. CASE RoundStep
  BY <1>2 DEF RoundStep, Sweep, LoadWatchSet, FinishRound, esploraChainVars
<1>3. ASSUME NEW i \in Invoices, WorkerStep(i) \/ AbortWorker(i) \/ SkipUnlisted(i)
      PROVE  UNCHANGED chainVars
  BY <1>3 DEF WorkerStep, ListAddress, LoadPayments, ApplyListed, AskUnlisted, ApplyUnlisted,
              AbortWorker, SkipUnlisted, esploraChainVars
<1>4. CASE AbortChain \/ SkipAboveFork \/ SkipSweep \/ AbortRound \/ Crash
  BY <1>4 DEF AbortChain, SkipAboveFork, SkipSweep, AbortRound, Crash
<1>5. CASE PayTx \/ LosePayTx \/ CreateInvoice \/ ClockPasses \/ UNCHANGED vars
  BY <1>5 DEF PayTx, LosePayTx, Broadcast, DropTx, CreateInvoice, ClockPasses, vars,
              esploraChainVars
<1>6. QED BY <1>1, <1>2, <1>3, <1>4, <1>5 DEF Next

LEMMA MinedStays ==
  ASSUME TypeInv, TipsBehind, [Next]_vars, NEW t \in Txs
  PROVE  /\ tip \in Nat /\ tip' \in Nat /\ tip <= tip' /\ minedAt'[t] <= tip'
         /\ MaxReorgSpan < FINAL_CONFIRMATIONS =>
              \A at \in MinedHeights : Deep(t, at) => Deep(t, at)'
<1>1. /\ tip \in Nat /\ minedAt[t] \in Nat /\ minedAt[t] <= tip /\ MaxReorgSpan \in Nat
      /\ FINAL_CONFIRMATIONS \in Nat \ {0} /\ minedAt \in [Txs -> Heights] /\ MaxTip \in Nat
      /\ MinedHeights \subseteq Nat \ {0}
  BY TypeFacts, ChainAssumption, EsploraLedgerAssumption
  DEF ChainTypeOK, Heights, TipsBehind, MinedHeights, Unmined
<1>2. CASE UNCHANGED chainVars
  BY <1>1, <1>2 DEF chainVars, Deep
<1>3. CASE GrowChain
  <2>1. PICK included \in SUBSET {u \in known : minedAt[u] = Unmined} :
          minedAt' = [u \in Txs |-> IF u \in included THEN tip + 1 ELSE minedAt[u]]
    BY <1>3 DEF GrowChain, MineKnown, MineBlock
  <2>2. tip' = tip + 1
    BY <1>3 DEF GrowChain, MineKnown, MineBlock
  <2>3. minedAt'[t] = IF t \in included THEN tip + 1 ELSE minedAt[t]
    BY <2>1
  <2>4. QED BY <1>1, <2>1, <2>2, <2>3 DEF Deep, Unmined
<1>4. CASE ReorgChain
  <2>1. PICK fork \in Heights :
          /\ fork < tip /\ tip - fork <= MaxReorgSpan
          /\ \E moved \in [{u \in known : minedAt[u] = Unmined \/ minedAt[u] > fork}
                            -> {Unmined} \cup (fork + 1 .. tip)] :
               minedAt' = [u \in Txs |-> IF u \in DOMAIN moved THEN moved[u] ELSE minedAt[u]]
    BY <1>4 DEF ReorgChain, ReorgKnown, Reorganise
  <2>2. PICK moved \in [{u \in known : minedAt[u] = Unmined \/ minedAt[u] > fork}
                          -> {Unmined} \cup (fork + 1 .. tip)] :
          minedAt' = [u \in Txs |-> IF u \in DOMAIN moved THEN moved[u] ELSE minedAt[u]]
    BY <2>1
  <2>3. tip' = tip /\ fork \in Nat
    BY <1>4, ChainAssumption DEF ReorgChain, ReorgKnown, Reorganise, Heights
  <2>4. minedAt'[t] = IF t \in DOMAIN moved THEN moved[t] ELSE minedAt[t]
    BY <2>2
  <2>5. t \in DOMAIN moved => /\ minedAt[t] = 0 \/ minedAt[t] > fork
                              /\ moved[t] = 0 \/ moved[t] \in fork + 1 .. tip
    BY DEF Unmined
  <2>6. QED BY <1>1, <2>1, <2>3, <2>4, <2>5 DEF Deep
<1>5. QED BY <1>2, <1>3, <1>4, ChainChanges

LEMMA ToldIsDeep ==
  ASSUME TypeInv, TipsBehind, NEW t \in Txs, NEW v \in Heights, v <= tip,
         minedAt[t] \in MinedHeights, Confirmations(minedAt[t], v) >= FINAL_CONFIRMATIONS
  PROVE  Deep(t, minedAt[t])
<1>1. /\ tip \in Nat /\ minedAt[t] \in Nat /\ minedAt[t] <= tip /\ v \in Nat
      /\ FINAL_CONFIRMATIONS \in Nat \ {0}
  BY TypeFacts, ChainAssumption, EsploraLedgerAssumption
  DEF ChainTypeOK, Heights, TipsBehind, MinedHeights
<1>2. QED BY <1>1 DEF Deep, Confirmations

(***************************************************************************)
(* What a loop holds after a step it held before, or was told in the step  *)
(* by a chain that stands still in it.                                     *)
(***************************************************************************)
Told(t, at, v) == at = minedAt[t] /\ v <= tip /\ UNCHANGED chainVars

LEMMA AnswerTold ==
  ASSUME NEW t, NEW at \in MinedHeights, AnswersStatus(t, at)
  PROVE  at = minedAt[t]
  BY ChainAssumption DEF AnswersStatus, MinedHeights, Heights, Gone, Unmined

LEMMA RestsSays ==
  ASSUME NEW w, NEW t, NEW at, Said(Rests(w), t, at)
  PROVE  Said(w, t, at)
  BY DEF Rests, IdleWorker, Said

LEMMA ChainHolds ==
  ASSUME FinalInv, ChainStep \/ AbortChain \/ SkipAboveFork,
         NEW t \in Txs, NEW at \in MinedHeights, NEW v \in Heights, Holds(t, at, v)'
  PROVE  Holds(t, at, v) \/ Told(t, at, v)
<1>1. UNCHANGED <<round, worker>>
  BY DEF ChainStep, ReadTip, CheckCursor, WalkPage, FinishWalk, ForgetAboveFork, Rewind,
         SelectAboveFork, AskAboveFork, ApplyAboveFork, LedgerAndRestUnchanged, AbortChain,
         SkipAboveFork
<1>2. CASE v = round.tip /\ \E i \in Invoices : Said(worker[i], t, at)
  BY <1>2 DEF Holds
<1>3. CASE chain'.pc = "apply" /\ chain'.pay[1] = t /\ chain'.at = at /\ v = tip_height'
  <2>1. chain \in ChainLocals
    BY TypeFacts DEF FinalInv
  <2>2. AskAboveFork
    <3>1. IdleChain.pc = "idle" /\ \A c : ChainRests(c) \in {c, IdleChain}
      BY DEF IdleChain, ChainRests
    <3>2. ~(CheckCursor \/ WalkPage \/ FinishWalk \/ AbortChain)
      BY <1>3, <2>1, <3>1 DEF CheckCursor, WalkPage, FinishWalk, AbortChain, ChainDone, ChainAt,
                               IdleChain, ChainLocals
    <3>3. ~(ReadTip \/ ForgetAboveFork \/ Rewind)
      BY <1>3, <2>1 DEF ReadTip, ForgetAboveFork, Rewind, ChainGo, ChainLocals
    <3>4. ~SelectAboveFork
      BY <1>3, <2>1, <3>1 DEF SelectAboveFork, ChainLocals
    <3>5. ~ApplyAboveFork
      BY <1>3, <2>1, <3>1 DEF ApplyAboveFork, ChainLocals
    <3>6. ~SkipAboveFork
      BY <1>3, <2>1, <3>1 DEF SkipAboveFork, ChainAt, ChainLocals
    <3>7. QED BY <3>2, <3>3, <3>4, <3>5, <3>6 DEF ChainStep
  <2>3. PICK p \in chain.todo, told \in Answers :
          /\ AnswersStatus(p[1], told)
          /\ chain' = [chain EXCEPT !.pc = "apply", !.todo = @ \ {p}, !.pay = p, !.at = told]
    BY <2>2 DEF AskAboveFork
  <2>4. chain'.pay = p /\ chain'.at = told
    BY <2>1, <2>3 DEF ChainLocals
  <2>5. AnswersStatus(t, at)
    BY <1>3, <2>3, <2>4
  <2>6. tip_height <= tip /\ UNCHANGED <<chainVars, tip_height>>
    BY <2>2 DEF FinalInv, TipsBehind, AskAboveFork, scanVars
  <2>7. QED BY <1>3, <2>5, <2>6, AnswerTold DEF Told
<1>4. QED BY <1>1, <1>2, <1>3 DEF Holds, Said

\* One worker moves and says nothing new.
LEMMA WorkerSilent ==
  ASSUME FinalInv, UNCHANGED <<chain, tip_height, round>>, NEW i \in Invoices,
         NEW w, worker' = [worker EXCEPT ![i] = w],
         NEW t, NEW at, NEW v, Said(w, t, at) => Said(worker[i], t, at), Holds(t, at, v)'
  PROVE  Holds(t, at, v)
<1>1. CASE chain.pc = "apply" /\ chain.pay[1] = t /\ chain.at = at /\ v = tip_height
  BY <1>1 DEF Holds
<1>2. ASSUME NEW j \in Invoices, v = round.tip, Said(worker'[j], t, at) PROVE Holds(t, at, v)
  <2>1. worker'[j] = IF j = i THEN w ELSE worker[j]
    BY TypeFacts DEF FinalInv
  <2>2. Said(worker[j], t, at)
    BY <1>2, <2>1
  <2>3. QED BY <1>2, <2>2 DEF Holds
<1>3. QED BY <1>1, <1>2 DEF Holds, Said

\* One worker moves and is told where t is.
LEMMA WorkerTold ==
  ASSUME FinalInv, UNCHANGED <<chain, tip_height, round, chainVars>>, NEW i \in Invoices,
         NEW w, worker' = [worker EXCEPT ![i] = w],
         NEW t, NEW at, NEW v, Said(w, t, at) => Said(worker[i], t, at) \/ at = minedAt[t],
         Holds(t, at, v)'
  PROVE  Holds(t, at, v) \/ Told(t, at, v)
<1>1. CASE chain.pc = "apply" /\ chain.pay[1] = t /\ chain.at = at /\ v = tip_height
  BY <1>1 DEF Holds
<1>2. ASSUME NEW j \in Invoices, v = round.tip, Said(worker'[j], t, at)
      PROVE  Holds(t, at, v) \/ Told(t, at, v)
  <2>1. worker'[j] = IF j = i THEN w ELSE worker[j]
    BY TypeFacts DEF FinalInv
  <2>2. Said(worker[j], t, at) \/ at = minedAt[t]
    BY <1>2, <2>1
  <2>3. round.tip <= tip
    BY DEF FinalInv, TipsBehind
  <2>4. QED BY <1>2, <2>2, <2>3 DEF Holds, Told
<1>3. QED BY <1>1, <1>2 DEF Holds, Said

LEMMA WorkerHolds ==
  ASSUME FinalInv, NEW i \in Invoices, WorkerStep(i) \/ AbortWorker(i) \/ SkipUnlisted(i),
         NEW t \in Txs, NEW at \in MinedHeights, NEW v \in Heights, Holds(t, at, v)'
  PROVE  Holds(t, at, v) \/ Told(t, at, v)
<1>1. UNCHANGED <<chain, tip_height, round, chainVars>>
  BY DEF WorkerStep, ListAddress, LoadPayments, ApplyListed, AskUnlisted, ApplyUnlisted,
         AbortWorker, SkipUnlisted, scanVars, esploraChainVars
<1>2. worker[i] \in WorkerLocals /\ worker \in [Invoices -> WorkerLocals] /\ ChainTypeOK
  BY TypeFacts DEF FinalInv
<1>3. CASE ListAddress(i)
  <2>1. PICK listed \in SUBSET Entries :
          /\ ListsAddress(Paying(i), ADDRESS_TX_PAGE_SATURATED, listed)
          /\ worker' = [worker EXCEPT ![i].pc = "load", ![i].listed = listed]
    BY <1>3 DEF ListAddress
  <2> DEFINE w == [worker[i] EXCEPT !.pc = "load", !.listed = listed]
  <2>2. worker' = [worker EXCEPT ![i] = w]
    BY <1>2, <2>1
  <2>3. \A e \in listed : e.block \in {Unmined, minedAt[e.tx]}
    BY <1>2, <2>1, ListingFacts, PayingFacts
  <2>4. w.pc = "load" /\ w.listed = listed
    BY <1>2 DEF WorkerLocals
  <2> HIDE DEF w
  <2>5. Said(w, t, at) => at = minedAt[t]
    BY <2>3, <2>4 DEF Said, MinedHeights
  <2>6. QED BY <1>1, <2>2, <2>5, WorkerTold
<1>4. CASE AskUnlisted(i)
  <2>1. PICK p \in worker[i].todo, told \in Answers :
          LET asked == [worker[i] EXCEPT !.todo = @ \ {p}]
          IN  /\ AnswersStatus(p[1], told)
              /\ worker' = [worker EXCEPT ![i] =
                   IF told # Gone \/ StruckOut(p[1])
                   THEN [asked EXCEPT !.pc = "decide", !.pay = p, !.at = told]
                   ELSE Rests([asked EXCEPT !.snap[p] = NoPayment])]
              /\ worker[i].pc = "apply"
    BY <1>4 DEF AskUnlisted, WorkerAt
  <2> DEFINE asked == [worker[i] EXCEPT !.todo = @ \ {p}]
             held == [asked EXCEPT !.pc = "decide", !.pay = p, !.at = told]
             skipped == [asked EXCEPT !.snap[p] = NoPayment]
  <2>2. /\ held.listed = worker[i].listed /\ held.pc = "decide" /\ held.pay = p /\ held.at = told
        /\ skipped.listed = worker[i].listed /\ skipped.pc = "apply"
    BY <1>2, <2>1 DEF WorkerLocals
  <2>3. \/ worker' = [worker EXCEPT ![i] = held]
        \/ worker' = [worker EXCEPT ![i] = Rests(skipped)]
    BY <2>1
  <2> HIDE DEF held, skipped
  <2>4. CASE worker' = [worker EXCEPT ![i] = held]
    <3>1. Said(held, t, at) => Said(worker[i], t, at) \/ at = minedAt[t]
      BY <2>1, <2>2, AnswerTold DEF Said
    <3>2. QED BY <1>1, <2>4, <3>1, WorkerTold
  <2>5. CASE worker' = [worker EXCEPT ![i] = Rests(skipped)]
    <3>1. Said(Rests(skipped), t, at) => Said(skipped, t, at)
      BY RestsSays
    <3>2. Said(skipped, t, at) => Said(worker[i], t, at)
      BY <2>2 DEF Said
    <3>3. QED BY <1>1, <2>5, <3>1, <3>2, WorkerSilent
  <2>6. QED BY <2>3, <2>4, <2>5
<1>5. CASE LoadPayments(i) \/ ApplyListed(i) \/ ApplyUnlisted(i) \/ AbortWorker(i) \/ SkipUnlisted(i)
  <2>1. PICK w : /\ worker' = [worker EXCEPT ![i] = w]
                 /\ Said(w, t, at) => Said(worker[i], t, at)
    <3>1. CASE LoadPayments(i)
      <4> DEFINE q == [worker[i] EXCEPT !.pc = "apply", !.snap = RowsOf(Recorded(i)),
                         !.todo = Unlisted(i)]
      <4>1. worker' = [worker EXCEPT ![i] = Rests(q)]
        BY <1>2, <3>1 DEF LoadPayments
      <4>2. q.listed = worker[i].listed /\ q.pc = "apply"
        BY <1>2 DEF WorkerLocals
      <4> HIDE DEF q
      <4>3. Said(Rests(q), t, at) => Said(q, t, at)
        BY RestsSays
      <4>4. Said(q, t, at) => Said(worker[i], t, at)
        BY <4>2 DEF Said
      <4>5. QED BY <4>1, <4>3, <4>4
    <3>2. CASE ApplyListed(i)
      <4>1. PICK e \in worker[i].listed :
              LET rest == [worker[i] EXCEPT !.listed = @ \ {e}, !.snap[<<e.tx, i>>] = NoPayment]
              IN  worker' = [worker EXCEPT ![i] = Rests(rest)]
        BY <3>2 DEF ApplyListed
      <4> DEFINE q == [worker[i] EXCEPT !.listed = @ \ {e}, !.snap[<<e.tx, i>>] = NoPayment]
      <4>2. worker' = [worker EXCEPT ![i] = Rests(q)]
        BY <4>1
      <4>3. q.listed = worker[i].listed \ {e} /\ q.pc = "apply"
        BY <1>2, <3>2 DEF WorkerLocals, ApplyListed, WorkerAt
      <4> HIDE DEF q
      <4>4. Said(Rests(q), t, at) => Said(q, t, at)
        BY RestsSays
      <4>5. Said(q, t, at) => Said(worker[i], t, at)
        BY <4>3 DEF Said
      <4>6. QED BY <4>2, <4>4, <4>5
    <3>3. CASE ApplyUnlisted(i)
      <4> DEFINE q == [worker[i] EXCEPT !.pc = "apply", !.pay = NoPay, !.at = Gone,
                         !.snap[worker[i].pay] = NoPayment]
      <4>1. worker' = [worker EXCEPT ![i] = Rests(q)]
        BY <1>2, <3>3 DEF ApplyUnlisted
      <4>2. q.listed = worker[i].listed /\ q.pc = "apply"
        BY <1>2 DEF WorkerLocals
      <4> HIDE DEF q
      <4>3. Said(Rests(q), t, at) => Said(q, t, at)
        BY RestsSays
      <4>4. Said(q, t, at) => Said(worker[i], t, at)
        BY <4>2 DEF Said
      <4>5. QED BY <4>1, <4>3, <4>4
    <3>4. CASE AbortWorker(i)
      <4>1. worker' = [worker EXCEPT ![i] = IdleWorker]
        BY <3>4 DEF AbortWorker
      <4>2. ~Said(IdleWorker, t, at)
        BY DEF IdleWorker, Said
      <4>3. QED BY <4>1, <4>2
    <3>5. CASE SkipUnlisted(i)
      <4>1. PICK p \in worker[i].todo :
              LET rest == [worker[i] EXCEPT !.todo = @ \ {p}, !.snap[p] = NoPayment]
              IN  worker' = [worker EXCEPT ![i] = Rests(rest)]
        BY <3>5 DEF SkipUnlisted
      <4> DEFINE q == [worker[i] EXCEPT !.todo = @ \ {p}, !.snap[p] = NoPayment]
      <4>2. worker' = [worker EXCEPT ![i] = Rests(q)]
        BY <4>1
      <4>3. q.listed = worker[i].listed /\ q.pc = "apply"
        BY <1>2, <3>5 DEF WorkerLocals, SkipUnlisted, WorkerAt
      <4> HIDE DEF q
      <4>4. Said(Rests(q), t, at) => Said(q, t, at)
        BY RestsSays
      <4>5. Said(q, t, at) => Said(worker[i], t, at)
        BY <4>3 DEF Said
      <4>6. QED BY <4>2, <4>4, <4>5
    <3>6. QED BY <1>5, <3>1, <3>2, <3>3, <3>4, <3>5
  <2>2. QED BY <1>1, <2>1, WorkerSilent
<1>6. QED BY <1>3, <1>4, <1>5 DEF WorkerStep

LEMMA NothingHeld ==
  ASSUME chain'.pc # "apply" \/ UNCHANGED <<chain, tip_height>>,
         \A i \in Invoices : \E pc \in {"idle", "list"} :
           worker'[i] = [IdleWorker EXCEPT !.pc = pc],
         NEW t, NEW at, NEW v, Holds(t, at, v)'
  PROVE  Holds(t, at, v)
<1>1. \A pc \in {"idle", "list"} : /\ [IdleWorker EXCEPT !.pc = pc].pc = pc
                                   /\ [IdleWorker EXCEPT !.pc = pc].listed = {}
  BY DEF IdleWorker
<1>2. \A i \in Invoices : worker'[i].listed = {} /\ worker'[i].pc # "decide"
  BY <1>1
<1>3. QED BY <1>2 DEF Holds, Said

LEMMA HeldOrTold ==
  ASSUME FinalInv, [Next]_vars,
         NEW t \in Txs, NEW at \in MinedHeights, NEW v \in Heights, Holds(t, at, v)'
  PROVE  Holds(t, at, v) \/ Told(t, at, v)
<1>1. ASSUME NEW i \in Invoices, WorkerStep(i) \/ AbortWorker(i) \/ SkipUnlisted(i)
      PROVE  Holds(t, at, v) \/ Told(t, at, v)
  BY <1>1, WorkerHolds
<1>2. IdleWorker = [IdleWorker EXCEPT !.pc = "idle"]
  BY DEF IdleWorker
<1>3. CASE RoundStep \/ SkipSweep \/ AbortRound
  <2>1. UNCHANGED <<chain, tip_height>>
    BY <1>3 DEF RoundStep, Sweep, LoadWatchSet, FinishRound, SkipSweep, AbortRound, scanVars
  <2>2. ASSUME NEW i \in Invoices
        PROVE  worker'[i] \in {IdleWorker, [IdleWorker EXCEPT !.pc = "list"]}
    <3>1. CASE LoadWatchSet
      BY <3>1 DEF LoadWatchSet
    <3>2. CASE Sweep \/ FinishRound \/ SkipSweep \/ AbortRound
      BY <3>2 DEF Sweep, FinishRound, SkipSweep, AbortRound, FinalInv, WorkersRest
    <3>3. QED BY <1>3, <3>1, <3>2 DEF RoundStep
  <2>3. \A i \in Invoices : \E pc \in {"idle", "list"} :
          worker'[i] = [IdleWorker EXCEPT !.pc = pc]
    BY <1>2, <2>2
  <2>4. QED BY <2>1, <2>3, NothingHeld
<1>4. CASE Crash
  <2>1. chain'.pc # "apply"
    BY <1>4 DEF Crash, ChainDone, IdleChain
  <2>2. \A i \in Invoices : worker'[i] = [IdleWorker EXCEPT !.pc = "idle"]
    BY <1>2, <1>4 DEF Crash
  <2>3. QED BY <2>1, <2>2, NothingHeld
<1>5. CASE PayTx \/ LosePayTx \/ GrowChain \/ ReorgChain \/ CreateInvoice \/ ClockPasses
           \/ UNCHANGED vars
  <2>1. UNCHANGED <<chain, round, worker, tip_height>>
    BY <1>5 DEF PayTx, LosePayTx, GrowChain, ReorgChain, CreateInvoice, ClockPasses,
                WatcherUnchanged, vars, scanVars, loopVars
  <2>2. QED BY <2>1 DEF Holds, Said
<1>6. QED BY <1>1, <1>3, <1>4, <1>5, ChainHolds DEF Next

LEMMA SightingsStayTrue ==
  ASSUME FinalInv, MaxReorgSpan < FINAL_CONFIRMATIONS, [Next]_vars
  PROVE  SightingsTrue'
<1> SUFFICES ASSUME NEW t \in Txs, NEW at \in MinedHeights, NEW v \in Heights,
                    Holds(t, at, v)', Confirmations(at, v) >= FINAL_CONFIRMATIONS
             PROVE  Deep(t, at)'
  BY DEF SightingsTrue
<1>1. CASE Holds(t, at, v)
  <2>1. Deep(t, at)
    BY <1>1 DEF FinalInv, SightingsTrue
  <2>2. QED BY <2>1, MinedStays DEF FinalInv
<1>2. CASE Told(t, at, v)
  <2>1. Deep(t, at)
    BY <1>2, ToldIsDeep DEF FinalInv, Told
  <2>2. QED BY <2>1, MinedStays DEF FinalInv
<1>3. QED BY <1>1, <1>2, HeldOrTold

-----------------------------------------------------------------------------
LEMMA RestsRest ==
  ASSUME NEW w, w.pc \in {"list", "load", "apply", "decide"} \/ w = IdleWorker
  PROVE  Rests(w).pc = "idle" => Rests(w) = IdleWorker
  BY DEF Rests

LEMMA WorkerRests ==
  ASSUME FinalInv, NEW i \in Invoices, WorkerStep(i) \/ AbortWorker(i) \/ SkipUnlisted(i)
  PROVE  WorkersRest'
<1>1. UNCHANGED round /\ worker[i].pc # "idle"
  BY DEF WorkerStep, ListAddress, LoadPayments, ApplyListed, AskUnlisted, ApplyUnlisted,
         AbortWorker, SkipUnlisted, WorkerAt
<1>2. round.pc = "work"
  BY <1>1 DEF FinalInv, WorkersRest, IdleWorker
<1>3. worker[i] \in WorkerLocals /\ worker \in [Invoices -> WorkerLocals]
  BY TypeFacts DEF FinalInv
<1>4. PICK w : worker' = [worker EXCEPT ![i] = w] /\ (w.pc = "idle" => w = IdleWorker)
  <2>1. CASE ListAddress(i)
    <3>1. PICK listed :
            worker' = [worker EXCEPT ![i].pc = "load", ![i].listed = listed]
      BY <2>1 DEF ListAddress
    <3> DEFINE w == [worker[i] EXCEPT !.pc = "load", !.listed = listed]
    <3>2. worker' = [worker EXCEPT ![i] = w] /\ w.pc = "load"
      BY <1>3, <3>1 DEF WorkerLocals
    <3> HIDE DEF w
    <3>3. QED BY <3>2
  <2>2. CASE LoadPayments(i)
    <3> DEFINE w == [worker[i] EXCEPT !.pc = "apply", !.snap = RowsOf(Recorded(i)),
                       !.todo = Unlisted(i)]
    <3>1. worker' = [worker EXCEPT ![i] = Rests(w)] /\ w.pc = "apply"
      BY <1>3, <2>2 DEF LoadPayments, WorkerLocals
    <3> HIDE DEF w
    <3>2. QED BY <3>1, RestsRest
  <2>3. CASE ApplyListed(i)
    <3>1. PICK e \in worker[i].listed :
            LET rest == [worker[i] EXCEPT !.listed = @ \ {e}, !.snap[<<e.tx, i>>] = NoPayment]
            IN  worker' = [worker EXCEPT ![i] = Rests(rest)]
      BY <2>3 DEF ApplyListed
    <3> DEFINE w == [worker[i] EXCEPT !.listed = @ \ {e}, !.snap[<<e.tx, i>>] = NoPayment]
    <3>2. worker' = [worker EXCEPT ![i] = Rests(w)]
      BY <3>1
    <3>3. w.pc = "apply"
      BY <1>3, <2>3 DEF ApplyListed, WorkerAt, WorkerLocals
    <3> HIDE DEF w
    <3>4. QED BY <3>2, <3>3, RestsRest
  <2>4. CASE AskUnlisted(i)
    <3>1. PICK p \in worker[i].todo, at \in Answers :
            LET asked == [worker[i] EXCEPT !.todo = @ \ {p}]
            IN  worker' = [worker EXCEPT ![i] =
                     IF at # Gone \/ StruckOut(p[1])
                     THEN [asked EXCEPT !.pc = "decide", !.pay = p, !.at = at]
                     ELSE Rests([asked EXCEPT !.snap[p] = NoPayment])]
      BY <2>4 DEF AskUnlisted
    <3> DEFINE asked == [worker[i] EXCEPT !.todo = @ \ {p}]
               held == [asked EXCEPT !.pc = "decide", !.pay = p, !.at = at]
               skipped == [asked EXCEPT !.snap[p] = NoPayment]
    <3>2. held.pc = "decide" /\ skipped.pc = "apply"
      BY <1>3, <2>4 DEF AskUnlisted, WorkerAt, WorkerLocals
    <3>3. \/ worker' = [worker EXCEPT ![i] = held]
          \/ worker' = [worker EXCEPT ![i] = Rests(skipped)]
      BY <3>1
    <3> HIDE DEF held, skipped
    <3>4. QED BY <3>2, <3>3, RestsRest
  <2>5. CASE ApplyUnlisted(i)
    <3> DEFINE w == [worker[i] EXCEPT !.pc = "apply", !.pay = NoPay, !.at = Gone,
                       !.snap[worker[i].pay] = NoPayment]
    <3>1. worker' = [worker EXCEPT ![i] = Rests(w)] /\ w.pc = "apply"
      BY <1>3, <2>5 DEF ApplyUnlisted, WorkerLocals
    <3> HIDE DEF w
    <3>2. QED BY <3>1, RestsRest
  <2>6. CASE AbortWorker(i)
    BY <2>6 DEF AbortWorker
  <2>7. CASE SkipUnlisted(i)
    <3>1. PICK p \in worker[i].todo :
            LET rest == [worker[i] EXCEPT !.todo = @ \ {p}, !.snap[p] = NoPayment]
            IN  worker' = [worker EXCEPT ![i] = Rests(rest)]
      BY <2>7 DEF SkipUnlisted
    <3> DEFINE w == [worker[i] EXCEPT !.todo = @ \ {p}, !.snap[p] = NoPayment]
    <3>2. worker' = [worker EXCEPT ![i] = Rests(w)]
      BY <3>1
    <3>3. w.pc = "apply"
      BY <1>3, <2>7 DEF SkipUnlisted, WorkerAt, WorkerLocals
    <3> HIDE DEF w
    <3>4. QED BY <3>2, <3>3, RestsRest
  <2>8. QED BY <2>1, <2>2, <2>3, <2>4, <2>5, <2>6, <2>7 DEF WorkerStep
<1>5. QED BY <1>1, <1>2, <1>3, <1>4 DEF FinalInv, WorkersRest

LEMMA RestNext ==
  ASSUME FinalInv, [Next]_vars
  PROVE  WorkersRest'
<1>1. CASE RoundStep \/ SkipSweep \/ AbortRound
  <2>1. CASE Sweep \/ SkipSweep \/ AbortRound
    BY <2>1 DEF Sweep, SkipSweep, AbortRound, FinalInv, WorkersRest, IdleRound
  <2>2. CASE LoadWatchSet
    <3>1. [IdleWorker EXCEPT !.pc = "list"].pc = "list"
      BY DEF IdleWorker
    <3>2. CASE WatchSet = {}
      BY <2>2, <3>2 DEF LoadWatchSet, WorkersRest
    <3>3. CASE WatchSet # {}
      <4>1. round'.pc = "work"
        BY <2>2, <3>3, TypeFacts DEF LoadWatchSet, FinalInv, RoundLocals
      <4>2. \A i \in Invoices : worker'[i] \in {IdleWorker, [IdleWorker EXCEPT !.pc = "list"]}
        BY <2>2 DEF LoadWatchSet
      <4>3. QED BY <3>1, <4>1, <4>2 DEF WorkersRest
    <3>4. QED BY <3>2, <3>3
  <2>3. CASE FinishRound
    BY <2>3 DEF FinishRound, FinalInv, WorkersRest
  <2>4. QED BY <1>1, <2>1, <2>2, <2>3 DEF RoundStep
<1>2. CASE ChainStep \/ AbortChain \/ SkipAboveFork
  <2>1. UNCHANGED <<round, worker>>
    BY <1>2 DEF ChainStep, ReadTip, CheckCursor, WalkPage, FinishWalk, ForgetAboveFork, Rewind,
         SelectAboveFork, AskAboveFork, ApplyAboveFork, LedgerAndRestUnchanged, AbortChain,
         SkipAboveFork
  <2>2. QED BY <2>1 DEF FinalInv, WorkersRest
<1>3. CASE Crash
  BY <1>3 DEF Crash, WorkersRest
<1>4. CASE PayTx \/ LosePayTx \/ GrowChain \/ ReorgChain \/ CreateInvoice \/ ClockPasses
           \/ UNCHANGED vars
  BY <1>4 DEF PayTx, LosePayTx, GrowChain, ReorgChain, CreateInvoice, ClockPasses,
              WatcherUnchanged, vars, loopVars, FinalInv, WorkersRest
<1>5. QED BY <1>1, <1>2, <1>3, <1>4, WorkerRests DEF Next

LEMMA TipsNext ==
  ASSUME FinalInv, [Next]_vars
  PROVE  TipsBehind'
<1>1. \A t \in Txs : minedAt'[t] <= tip'
  BY MinedStays DEF FinalInv
<1>2. tip \in Nat /\ tip_height \in Nat /\ round.tip \in Nat /\ tip_height <= tip /\ round.tip <= tip
  BY TypeFacts, ChainAssumption
  DEF FinalInv, TipsBehind, ChainTypeOK, Heights, RoundLocals
<1>3. tip' \in Nat /\ tip <= tip'
  <2>1. CASE UNCHANGED chainVars
    BY <1>2, <2>1 DEF chainVars
  <2>2. CASE GrowChain
    BY <1>2, <2>2 DEF GrowChain, MineKnown, MineBlock
  <2>3. CASE ReorgChain
    BY <1>2, <2>3 DEF ReorgChain, ReorgKnown, Reorganise
  <2>4. QED BY <2>1, <2>2, <2>3, ChainChanges
<1>4. tip_height' \in {tip_height, tip, tip - 1, 0}
  <2>1. CASE ReadTip
    BY <2>1 DEF ReadTip, AnswersTip
  <2>2. CASE Crash
    BY <2>2 DEF Crash
  <2>3. ASSUME NEW i \in Invoices, WorkerStep(i) \/ AbortWorker(i) \/ SkipUnlisted(i)
        PROVE  UNCHANGED tip_height
    BY <2>3 DEF WorkerStep, ListAddress, LoadPayments, ApplyListed, AskUnlisted, ApplyUnlisted,
                AbortWorker, SkipUnlisted, scanVars
  <2>4. CASE RoundStep \/ AbortChain \/ SkipAboveFork \/ SkipSweep \/ AbortRound
    BY <2>4 DEF RoundStep, Sweep, LoadWatchSet, FinishRound, AbortChain, SkipAboveFork,
                SkipSweep, AbortRound, scanVars
  <2>5. CASE ChainStep /\ ~ReadTip
    BY <2>5 DEF ChainStep, CheckCursor, WalkPage, FinishWalk, ForgetAboveFork, Rewind,
                SelectAboveFork, AskAboveFork, ApplyAboveFork, scanVars
  <2>6. CASE PayTx \/ LosePayTx \/ GrowChain \/ ReorgChain \/ CreateInvoice \/ ClockPasses
             \/ UNCHANGED vars
    BY <2>6 DEF PayTx, LosePayTx, GrowChain, ReorgChain, CreateInvoice, ClockPasses,
                WatcherUnchanged, vars, scanVars
  <2>7. QED BY <2>1, <2>2, <2>3, <2>4, <2>5, <2>6 DEF Next
<1>5. round'.tip \in {round.tip, tip_height, 0}
  <2>1. CASE Sweep \/ SkipSweep \/ AbortRound \/ LoadWatchSet \/ FinishRound \/ Crash
    BY <2>1, TypeFacts DEF Sweep, SkipSweep, AbortRound, LoadWatchSet, FinishRound, Crash,
                           IdleRound, RoundLocals, FinalInv
  <2>2. CASE ChainStep \/ AbortChain \/ SkipAboveFork
    BY <2>2 DEF ChainStep, ReadTip, CheckCursor, WalkPage, FinishWalk, ForgetAboveFork, Rewind,
         SelectAboveFork, AskAboveFork, ApplyAboveFork, LedgerAndRestUnchanged, AbortChain,
         SkipAboveFork
  <2>3. ASSUME NEW i \in Invoices, WorkerStep(i) \/ AbortWorker(i) \/ SkipUnlisted(i)
        PROVE  UNCHANGED round
    BY <2>3 DEF WorkerStep, ListAddress, LoadPayments, ApplyListed, AskUnlisted, ApplyUnlisted,
                AbortWorker, SkipUnlisted
  <2>4. CASE PayTx \/ LosePayTx \/ GrowChain \/ ReorgChain \/ CreateInvoice \/ ClockPasses
             \/ UNCHANGED vars
    BY <2>4 DEF PayTx, LosePayTx, GrowChain, ReorgChain, CreateInvoice, ClockPasses,
                WatcherUnchanged, vars, loopVars
  <2>5. QED BY <2>1, <2>2, <2>3, <2>4 DEF Next, RoundStep
<1>6. QED BY <1>1, <1>2, <1>3, <1>4, <1>5 DEF TipsBehind

-----------------------------------------------------------------------------
\* A transaction finalizes a payment only at a depth that the loop holds.
LEMMA FinalWasDeep ==
  ASSUME FinalInv, [Next]_vars, NEW p \in Pays, payments'[p].status = "system_confirmed"
  PROVE  \/ payments[p].status = "system_confirmed"
         \/ \E at \in MinedHeights, v \in Heights :
              Holds(p[1], at, v) /\ Confirmations(at, v) >= FINAL_CONFIRMATIONS
<1>1. payments \in [Pays -> PaymentRows] /\ LedgerTypeOK
  BY TypeFacts DEF FinalInv, LedgerTypeOK
<1>2. ASSUME NEW i, NEW status, NEW confs, Promoted(i, status, confs) = "system_confirmed"
      PROVE  status = "system_confirmed" \/ confs >= FINAL_CONFIRMATIONS
  BY <1>2 DEF Promoted, Finalizes
<1>3. CASE Inserts
  <2>1. PICK q \in Pays, at \in Heights, v \in Heights :
          Holds(q[1], at, v) /\ InsertPayment(q, at, v)
    BY <1>3 DEF Inserts
  <2>2. CASE payments[q].status # "absent" \/ p # q
    BY <1>1, <2>1, <2>2 DEF InsertPayment, ledgerVars
  <2>3. CASE payments[q].status = "absent" /\ p = q
    <3>1. payments'[p].status = IF at = Unmined THEN "detected"
                                ELSE Promoted(q[2], "detected", Confirmations(at, v))
      BY <1>1, <2>1, <2>3 DEF InsertPayment
    <3>2. at \in MinedHeights /\ Confirmations(at, v) >= FINAL_CONFIRMATIONS
      BY <1>2, <3>1 DEF MinedHeights
    <3>3. QED BY <2>1, <2>3, <3>2
  <2>4. QED BY <2>2, <2>3
<1>4. CASE Places
  <2>1. PICK q \in Present, at \in MinedHeights, v \in Heights :
          Holds(q[1], at, v) /\ \E row : ApplyMined(q, row, at, v)
    BY <1>4 DEF Places
  <2>2. CASE UNCHANGED payments \/ p # q
    BY <1>1, <2>1, <2>2 DEF ApplyMined, ledgerVars
  <2>3. CASE payments' # payments /\ p = q
    <3>1. payments'[p].status = Promoted(q[2], IF payments[q].status = "orphaned" THEN "detected"
                                               ELSE payments[q].status, Confirmations(at, v))
      BY <1>1, <2>1, <2>3 DEF ApplyMined, ledgerVars
    <3>2. QED BY <1>2, <2>1, <2>3, <3>1
  <2>4. QED BY <2>2, <2>3
<1>5. CASE Orphans
  BY <1>1, <1>5 DEF Orphans, OrphanPayment, ledgerVars, PaymentRows
<1>6. CASE UNCHANGED ledgerVars \/ Clock
  BY <1>6 DEF ledgerVars, Clock, ExpireInvoices, RegisterInvoice, PassTime
<1>7. QED BY <1>3, <1>4, <1>5, <1>6, NextTransactions DEF Transaction, FinalInv

LEMMA BuriedNext ==
  ASSUME FinalInv, MaxReorgSpan < FINAL_CONFIRMATIONS, [Next]_vars
  PROVE  FinalIsBuried'
<1> SUFFICES ASSUME NEW p \in Pays, payments'[p].status = "system_confirmed"
             PROVE  minedAt'[p[1]] # Unmined /\ tip' - minedAt'[p[1]] + 1 >= FINAL_CONFIRMATIONS
  BY DEF FinalIsBuried
<1>1. p[1] \in Txs
  BY PaysArePairs
<1>2. PICK at \in MinedHeights : Deep(p[1], at)
  <2>1. CASE payments[p].status = "system_confirmed"
    <3>1. minedAt[p[1]] \in MinedHeights /\ Deep(p[1], minedAt[p[1]])
      BY <1>1, <2>1, TypeFacts DEF FinalInv, FinalIsBuried, Deep, MinedHeights, ChainTypeOK
    <3>2. QED BY <3>1
  <2>2. CASE payments[p].status # "system_confirmed"
    BY <1>1, <2>2, FinalWasDeep DEF FinalInv, SightingsTrue
  <2>3. QED BY <2>1, <2>2
<1>3. Deep(p[1], at)'
  BY <1>1, <1>2, MinedStays DEF FinalInv
<1>4. QED BY <1>3 DEF Deep, MinedHeights

LEMMA InitFinal == Init => FinalInv
<1> SUFFICES ASSUME Init PROVE FinalInv
  OBVIOUS
<1>1. TypeInv
  BY InitType
<1>2. TipsBehind
  BY ChainAssumption
  DEF Init, EsploraChainInit, ChainInit, TipsBehind, IdleRound, Unmined
<1>3. WorkersRest
  BY DEF Init, WorkersRest
<1>4. SightingsTrue
  BY DEF Init, SightingsTrue, Holds, Said, IdleChain, IdleWorker
<1>5. FinalIsBuried
  BY DEF Init, LedgerInit, NoPayment, FinalIsBuried
<1>6. QED BY <1>1, <1>2, <1>3, <1>4, <1>5 DEF FinalInv

\* A final payment is buried under enough blocks of the chain as it is now, if
\* no reorganisation goes as deep as that (promote, on a page and a tip that
\* tick_addresses or reverify_payments_above read before).
THEOREM FinalStaysBuried ==
  ASSUME MaxReorgSpan < FINAL_CONFIRMATIONS
  PROVE  Spec => []FinalIsBuried
<1>1. FinalInv /\ [Next]_vars => FinalInv'
  BY NextType, TipsNext, RestNext, SightingsStayTrue, BuriedNext DEF FinalInv
<1>2. FinalInv => FinalIsBuried
  BY DEF FinalInv
<1>3. QED BY <1>1, <1>2, InitFinal, PTL DEF Spec

-----------------------------------------------------------------------------
(***************************************************************************)
(* Refinement.  A step that settles an invoice is Count or Discount of the *)
(* payment it touched, or nothing if the payment counts as it did: then    *)
(* the books were right already.  The sweep is Close.                      *)
(***************************************************************************)
Counted == {p \in Pays : Counts(payments, p)}
BookAt(i) == [status |-> invoices[i].status, received |-> invoices[i].received]
Announced == {i \in Invoices : <<"payment.finished", InvoiceKey, i>> \in events}
FinishedTaken(i) == \E j \in Announced : MerchantOf[j] = MerchantOf[i]

LEMMA BookTotal ==
  ASSUME NEW i \in Invoices
  PROVE  Book!TotalOf(Counted, i) = Total(payments, i)
<1>1. {p \in Counted : p[2] = i} = Credited(payments, i)
  BY CreditedCounts DEF Counted, PaymentsOf
<1>2. QED BY <1>1 DEF Book!TotalOf, Total

LEMMA BookTotalNext ==
  ASSUME NEW i \in Invoices
  PROVE  Book!TotalOf(Counted', i) = Total(payments', i)
<1>1. {p \in Counted' : p[2] = i} = Credited(payments', i)
  BY CreditedCounts DEF Counted, PaymentsOf
<1>2. QED BY <1>1 DEF Book!TotalOf, Total

\* The books of an invoice whose payments have been settled.
LEMMA SettledBooks ==
  ASSUME LedgerTypeOK, NEW p \in Pays, invoices' = Settled(payments', p[2])
  PROVE  /\ \A i \in Invoices \ {p[2]} : BookAt(i)' = BookAt(i)
         /\ BookAt(p[2])' = [status |-> IF invoices[p[2]].status = "expired" THEN "expired"
                                        ELSE StatusFor(p[2], Total(payments', p[2])),
                             received |-> Total(payments', p[2])]
<1>1. p[2] \in Invoices
  BY PaysArePairs
<1>2. QED BY <1>1 DEF Settled, LedgerTypeOK, InvoiceRows, BookAt

\* Webhooks about transactions announce no invoice; payment.finished of an
\* invoice is announced when it is due, unless its merchant has had one.
LEMMA AnnouncedNext ==
  ASSUME NEW p \in Pays, Rebooked(p), NEW due \in BOOLEAN,
         due <=> FinishedNow(payments', p[2]) /\ Counts(payments', p),
         ~Counts(payments', p) => ~FinishedNow(payments', p[2])
  PROVE  Announced' = IF due /\ ~FinishedTaken(p[2]) THEN Announced \cup {p[2]} ELSE Announced
<1>1. p[2] \in Invoices
  BY PaysArePairs
<1>2. PICK keys \in SUBSET (TxEvents \X {p[1]}) :
        \/ Announce(p[2], keys \cup Finish(payments', p[2]))
        \/ ~Counts(payments', p) /\ Announce(p[2], keys)
  BY DEF Rebooked
<1>3. \A k \in keys : k[1] # "payment.finished"
  BY <1>2 DEF TxEvents
<1>4. CASE due
  <2> DEFINE key == <<"payment.finished", InvoiceKey>>
             all == keys \cup Finish(payments', p[2])
             fresh == {k \in all : ~Taken(p[2], k)}
  <2>1. key \in all /\ \A k \in all : k = key \/ k[1] # "payment.finished"
    BY <1>3, <1>4 DEF Finish
  <2>2. events' = events \cup {<<k[1], k[2], p[2]>> : k \in fresh}
    BY <1>2, <1>4 DEF Announce
  <2>3. Taken(p[2], key) <=> FinishedTaken(p[2])
    BY DEF Taken, FinishedTaken, Announced
  <2> HIDE DEF all
  <2>4. \A i \in Invoices : <<"payment.finished", InvoiceKey, i>> \in events'
          <=> \/ <<"payment.finished", InvoiceKey, i>> \in events
              \/ i = p[2] /\ ~FinishedTaken(p[2])
    BY <2>1, <2>2, <2>3
  <2>5. QED BY <1>1, <1>4, <2>4 DEF Announced
<1>5. CASE ~due
  <2>1. Announce(p[2], keys)
    <3>1. Finish(payments', p[2]) = {}
      BY <1>5 DEF Finish
    <3>2. QED BY <1>2, <3>1
  <2> DEFINE fresh == {k \in keys : ~Taken(p[2], k)}
  <2>2. events' = events \cup {<<k[1], k[2], p[2]>> : k \in fresh}
    BY <2>1 DEF Announce
  <2>3. \A i \in Invoices : <<"payment.finished", InvoiceKey, i>> \in events'
          <=> <<"payment.finished", InvoiceKey, i>> \in events
    BY <1>3, <2>2
  <2>4. QED BY <1>5, <2>3 DEF Announced
<1>6. QED BY <1>4, <1>5

\* A payment that leaves cannot bring an invoice to what was requested.
LEMMA LeavingFinishesNothing ==
  ASSUME LedgerTypeOK, TotalsExact, NEW p \in Pays, OnlyRow(p), ~Counts(payments', p)
  PROVE  ~FinishedNow(payments', p[2])
<1>1. p[2] \in Invoices
  BY PaysArePairs
<1>2. /\ Credited(payments', p[2]) \in SUBSET Credited(payments, p[2])
      /\ Credited(payments, p[2]) \in SUBSET Pays
  BY CreditedCounts DEF OnlyRow, Counts, PaymentsOf
<1>3. Value[Credited(payments', p[2])] <= Value[Credited(payments, p[2])]
  BY <1>2, EsploraLedgerAssumption
<1>4. Total(payments', p[2]) <= Total(payments, p[2])
  BY <1>3 DEF Total
<1>5. /\ Total(payments', p[2]) \in Nat /\ Total(payments, p[2]) \in Nat
      /\ Requested[p[2]] \in Nat
  <2>1. Credited(payments', p[2]) \in SUBSET Pays
    BY <1>2
  <2>2. QED BY <1>1, <1>2, <2>1, EsploraLedgerAssumption DEF Total
<1>6. invoices[p[2]].received = Total(payments, p[2])
  BY <1>1 DEF TotalsExact
<1>7. QED BY <1>4, <1>5, <1>6 DEF FinishedNow

\* A payment that counts as it did finishes nothing and moves no books.
LEMMA StayingMovesNothing ==
  ASSUME LedgerTypeOK, TotalsExact, NEW p \in Pays, OnlyRow(p),
         Counts(payments', p) <=> Counts(payments, p)
  PROVE  /\ Counted' = Counted
         /\ Total(payments', p[2]) = Total(payments, p[2])
         /\ ~FinishedNow(payments', p[2])
<1>1. \A q \in Pays : Counts(payments', q) <=> Counts(payments, q)
  BY DEF OnlyRow, Counts
<1>2. Total(payments', p[2]) = Total(payments, p[2])
  BY <1>1, SameTotal DEF PaymentsOf
<1>3. Counted' = Counted
  BY <1>1 DEF Counted
<1>4. p[2] \in Invoices /\ Requested[p[2]] \in Nat
  BY PaysArePairs, EsploraLedgerAssumption
<1>5. Total(payments, p[2]) \in Nat
  BY <1>4, TotalType, TotalsExact DEF LedgerTypeOK
<1>6. invoices[p[2]].received = Total(payments, p[2])
  BY <1>4 DEF TotalsExact
<1>7. QED BY <1>2, <1>3, <1>4, <1>5, <1>6 DEF FinishedNow

BookNow == [i \in Invoices |-> BookAt(i)]

LEMMA RebookedStep ==
  ASSUME LedgerTypeOK, TotalsExact, NEW p \in Pays, OnlyRow(p), Rebooked(p)
  PROVE  [Book!Next]_Book!bookVars
<1> DEFINE i == p[2]
           due == FinishedNow(payments', i) /\ Counts(payments', p)
           S == IF Counts(payments', p) THEN Counted \cup {p} ELSE Counted \ {p}
<1>1. i \in Invoices
  BY PaysArePairs
<1>2. ~Counts(payments', p) => ~FinishedNow(payments', i)
  BY LeavingFinishesNothing
<1>3. Announced' = IF FinishedNow(payments', i) /\ ~FinishedTaken(i)
                   THEN Announced \cup {i} ELSE Announced
  <2>1. due \in BOOLEAN /\ (due <=> FinishedNow(payments', i) /\ Counts(payments', p))
    OBVIOUS
  <2> HIDE DEF due
  <2>2. Announced' = IF due /\ ~FinishedTaken(p[2]) THEN Announced \cup {p[2]} ELSE Announced
    BY <1>2, <2>1, AnnouncedNext
  <2>3. QED BY <1>2, <2>1, <2>2
<1>4. /\ \A j \in Invoices \ {i} : BookAt(j)' = BookAt(j)
      /\ BookAt(i)' = [status |-> IF invoices[i].status = "expired" THEN "expired"
                                  ELSE StatusFor(i, Total(payments', i)),
                       received |-> Total(payments', i)]
  BY SettledBooks DEF Rebooked
<1>5. CASE Counts(payments', p) <=> Counts(payments, p)
  <2>1. /\ Counted' = Counted /\ Total(payments', i) = Total(payments, i)
        /\ ~FinishedNow(payments', i)
    BY <1>5, StayingMovesNothing
  <2>2. BookAt(i)' = BookAt(i)
    BY <1>1, <1>4, <2>1 DEF TotalsExact, BookAt
  <2>3. UNCHANGED <<Counted, BookNow, Announced>>
    BY <1>3, <1>4, <2>1, <2>2 DEF BookNow
  <2>4. QED BY <2>3 DEF Book!bookVars, Counted, BookNow, BookAt, Announced, Counts
<1>6. CASE ~(Counts(payments', p) <=> Counts(payments, p))
  <2>1. Counted' = S
    BY DEF OnlyRow, Counted, Counts
  <2>2. Book!TotalOf(S, i) = Total(payments', i)
    BY <1>1, <2>1, BookTotalNext
  <2>3. BookNow' = [BookNow EXCEPT ![i] =
                     [status |-> IF @.status = "expired" THEN "expired"
                                 ELSE Book!StatusOf(i, Book!TotalOf(S, i)),
                      received |-> Book!TotalOf(S, i)]]
    BY <1>1, <1>4, <2>2 DEF BookNow, BookAt, StatusFor, Book!StatusOf
  <2>4. FinishedNow(payments', i) <=> /\ BookNow[i].status # "expired"
                                     /\ BookNow[i].received < Requested[i]
                                     /\ Book!TotalOf(S, i) >= Requested[i]
    BY <1>1, <2>2 DEF FinishedNow, BookNow, BookAt
  <2>5. Announced' = IF /\ BookNow[i].status # "expired"
                        /\ BookNow[i].received < Requested[i]
                        /\ Book!TotalOf(S, i) >= Requested[i]
                        /\ ~FinishedTaken(i)
                     THEN Announced \cup {i} ELSE Announced
    BY <1>3, <2>4
  <2> HIDE DEF S, due
  <2>6. Book!Rebook(S, i)
    BY <2>1, <2>3, <2>5 DEF Book!Rebook, Book!KeyTaken, FinishedTaken, Counted, Counts,
         BookNow, BookAt, Announced
  <2>7. CASE Counts(payments', p)
    <3>1. S = Counted \cup {p} /\ p \notin Counted
      BY <1>6, <2>7 DEF S, Counted
    <3>2. Book!Count(p)
      BY <2>6, <3>1 DEF Book!Count, Counted, Counts
    <3>3. QED BY <3>2 DEF Book!Next
  <2>8. CASE ~Counts(payments', p)
    <3>1. S = Counted \ {p} /\ p \in Counted
      BY <1>6, <2>8 DEF S, Counted
    <3>2. Book!Discount(p)
      BY <2>6, <3>1 DEF Book!Discount, Counted, Counts
    <3>3. QED BY <3>2 DEF Book!Next
  <2>9. QED BY <2>7, <2>8
<1>7. QED BY <1>5, <1>6

LEMMA ClockStep ==
  ASSUME LedgerTypeOK, Clock
  PROVE  [Book!Next]_Book!bookVars
<1>1. UNCHANGED <<payments, events>>
  BY DEF Clock, ExpireInvoices, RegisterInvoice, PassTime
<1>2. Counted' = Counted /\ Announced' = Announced
  BY <1>1 DEF Counted, Counts, Announced
<1>3. CASE ExpireInvoices
  <2> DEFINE S == {i \in Invoices : Unpaid(i) /\ invoices[i].clock \in {"grace", "over"}}
  <2>1. BookNow' = [i \in Invoices |->
                     IF i \in S THEN [BookNow[i] EXCEPT !.status = "expired"] ELSE BookNow[i]]
    BY <1>3 DEF ExpireInvoices, BookNow, BookAt, LedgerTypeOK, InvoiceRows
  <2>2. S \in SUBSET {i \in Invoices : BookNow[i].status = "pending"
                                       /\ \A p \in Counted : p[2] # i}
    BY DEF Unpaid, BookNow, BookAt, Counted, Counts, PaymentsOf
  <2> HIDE DEF S
  <2>3. Book!Close
    BY <1>2, <2>1, <2>2 DEF Book!Close, Book!Unpaid, Counted, Counts, BookNow, BookAt, Announced
  <2>4. QED BY <2>3 DEF Book!Next
<1>4. CASE \E i \in Invoices : RegisterInvoice(i) \/ PassTime(i)
  <2>1. \A i \in Invoices : BookAt(i)' = BookAt(i)
    BY <1>4 DEF RegisterInvoice, PassTime, BookAt, LedgerTypeOK, InvoiceRows
  <2>2. UNCHANGED <<Counted, BookNow, Announced>>
    BY <1>2, <2>1 DEF BookNow
  <2>3. QED BY <2>2 DEF Book!bookVars, Counted, BookNow, BookAt, Announced, Counts
<1>5. QED BY <1>3, <1>4 DEF Clock

\* The two loops implement InvoiceBook, for any invoices of any merchants: every
\* step of theirs is one entry in its books or none, and payment.finished goes
\* out with the entry that settles an invoice or, if its merchant has had one
\* before, never.
THEOREM KeepsTheBooks == Spec => KeepsBooks
<1>1. Init => Book!Init
  <2> SUFFICES ASSUME Init PROVE Book!Init
    OBVIOUS
  <2>1. /\ payments = [p \in Pays |-> NoPayment] /\ events = {}
        /\ \A i \in Invoices : BookAt(i) = [status |-> "pending", received |-> 0]
    BY DEF Init, LedgerInit, BookAt
  <2>2. Counted = {} /\ Announced = {}
    BY <2>1 DEF Counted, Counts, NoPayment, Announced
  <2>3. BookNow = [i \in Invoices |-> [status |-> "pending", received |-> 0]]
    BY <2>1 DEF BookNow
  <2>4. QED BY <2>2, <2>3 DEF Book!Init, Counted, Counts, BookNow, BookAt, Announced
<1>2. TypeInv /\ TotalsExact /\ [Next]_vars => [Book!Next]_Book!bookVars
  <2> SUFFICES ASSUME TypeInv, TotalsExact, [Next]_vars PROVE [Book!Next]_Book!bookVars
    OBVIOUS
  <2>1. LedgerTypeOK
    BY TypeFacts
  <2>2. CASE UNCHANGED ledgerVars
    BY <2>2 DEF ledgerVars, Book!bookVars
  <2>3. ASSUME NEW p \in Pays, OnlyRow(p), Rebooked(p) PROVE [Book!Next]_Book!bookVars
    BY <2>1, <2>3, RebookedStep
  <2>4. ASSUME NEW p \in Pays, OnlyRow(p), Relocated(p) PROVE [Book!Next]_Book!bookVars
    <3>1. Counted' = Counted
      BY <2>4 DEF OnlyRow, Relocated, Counted, Counts
    <3>2. QED BY <2>4, <3>1 DEF Relocated, Book!bookVars, Counted, Counts
  <2>5. CASE Clock
    BY <2>1, <2>5, ClockStep
  <2>6. QED BY <2>2, <2>3, <2>4, <2>5, Bookings
<1>3. Spec => [](TypeInv /\ TotalsExact)
  BY TypeInvariant, TotalsAlwaysExact, PTL
<1>4. QED BY <1>1, <1>2, <1>3, PTL DEF Spec, KeepsBooks, Book!Spec

-----------------------------------------------------------------------------
(***************************************************************************)
(* Announcements.  A webhook is lost to a dedupe key that is taken, and    *)
(* only another payment of the same transaction to the same merchant could *)
(* have taken it.                                                          *)
(***************************************************************************)
OnePayee ==
  \A p, q \in Pays : p[1] = q[1] /\ MerchantOf[p[2]] = MerchantOf[q[2]] => p = q

EventsPaid == \A e \in events : e[1] \in TxEvents => <<e[2], e[3]>> \in Pays
ToldNow(type, p) == <<type, p[1], p[2]>> \in events
RowTold(p) ==
  LET status == payments[p].status
  IN  /\ status # "absent" => ToldNow("payment.detected", p)
      /\ status = "merchant_confirmed" => ToldNow("payment.confirmed", p)
      /\ status = "system_confirmed" => ToldNow("payment.finalized", p)
      /\ status = "orphaned" => ToldNow("payment.orphaned", p)
AnnounceInv == TypeInv /\ EventsPaid /\ RowsAnnounced

LEMMA RowsToldEach == RowsAnnounced <=> \A p \in Pays : RowTold(p)
  BY DEF RowsAnnounced, RowTold, ToldNow

LEMMA AnnounceKeeps ==
  ASSUME NEW i, NEW keys, Announce(i, keys)
  PROVE  events \subseteq events'
  BY DEF Announce

LEMMA AnnounceTells ==
  ASSUME OnePayee, EventsPaid, NEW p \in Pays, NEW keys, Announce(p[2], keys),
         NEW type \in TxEvents, <<type, p[1]>> \in keys
  PROVE  ToldNow(type, p)'
<1> DEFINE key == <<type, p[1]>>
<1>1. CASE Taken(p[2], key)
  <2>1. PICK j \in Invoices : MerchantOf[j] = MerchantOf[p[2]] /\ <<type, p[1], j>> \in events
    BY <1>1 DEF Taken
  <2>2. <<p[1], j>> \in Pays
    BY <2>1 DEF EventsPaid
  <2>3. j = p[2]
    <3>1. <<p[1], j>> = p
      BY <2>1, <2>2 DEF OnePayee
    <3>2. QED BY <3>1, PaysArePairs
  <2>4. QED BY <2>1, <2>3, AnnounceKeeps DEF ToldNow
<1>2. CASE ~Taken(p[2], key)
  BY <1>2 DEF Announce, ToldNow
<1>3. QED BY <1>1, <1>2

\* The keys of a transaction about p name p.
LEMMA AnnouncePaid ==
  ASSUME EventsPaid, NEW p \in Pays, NEW keys \in SUBSET (TxEvents \X {p[1]}), NEW rest,
         \A k \in rest : k[1] \notin TxEvents,
         Announce(p[2], keys \cup rest) \/ Announce(p[2], keys)
  PROVE  EventsPaid'
<1>1. p = <<p[1], p[2]>>
  BY PaysArePairs
<1>2. \A k \in keys : k[1] \in TxEvents /\ k[2] = p[1]
  OBVIOUS
<1>3. \A e \in events' : \/ e \in events
                         \/ \E k \in keys \cup rest : e = <<k[1], k[2], p[2]>>
  BY DEF Announce
<1>4. ASSUME NEW e \in events', e[1] \in TxEvents PROVE <<e[2], e[3]>> \in Pays
  <2>1. CASE e \in events
    BY <1>4, <2>1 DEF EventsPaid
  <2>2. ASSUME NEW k \in keys \cup rest, e = <<k[1], k[2], p[2]>>
        PROVE  <<e[2], e[3]>> \in Pays
    <3>1. k \in keys
      BY <1>4, <2>2
    <3>2. e[2] = p[1] /\ e[3] = p[2]
      BY <1>2, <2>2, <3>1
    <3>3. QED BY <1>1, <3>2
  <2>3. QED BY <1>3, <2>1, <2>2
<1>5. QED BY <1>4 DEF EventsPaid

LEMMA EventsPaidNext ==
  ASSUME TypeInv, EventsPaid, [Next]_vars
  PROVE  EventsPaid'
<1>1. CASE UNCHANGED events
  BY <1>1 DEF EventsPaid
<1>2. ASSUME NEW p \in Pays, Rebooked(p) PROVE EventsPaid'
  <2>1. PICK keys \in SUBSET (TxEvents \X {p[1]}) :
          \/ Announce(p[2], keys \cup Finish(payments', p[2]))
          \/ ~Counts(payments', p) /\ Announce(p[2], keys)
    BY <1>2 DEF Rebooked
  <2>2. \A k \in Finish(payments', p[2]) : k[1] \notin TxEvents
    BY DEF Finish, TxEvents
  <2>3. QED BY <2>1, <2>2, AnnouncePaid
<1>3. QED BY <1>1, <1>2, Bookings
          DEF ledgerVars, Relocated, Clock, ExpireInvoices, RegisterInvoice, PassTime

\* Every other row keeps what it was told.
LEMMA OthersTold ==
  ASSUME RowsAnnounced, NEW p \in Pays, OnlyRow(p), events \subseteq events', RowTold(p)'
  PROVE  RowsAnnounced'
<1>1. ASSUME NEW q \in Pays \ {p} PROVE RowTold(q)'
  <2>1. payments'[q] = payments[q] /\ RowTold(q)
    BY RowsToldEach DEF OnlyRow
  <2>2. QED BY <2>1 DEF RowTold, ToldNow
<1>2. QED BY <1>1, RowsToldEach DEF RowsAnnounced, RowTold, ToldNow

LEMMA LatchesTell ==
  ASSUME OnePayee, EventsPaid, NEW p \in Pays, NEW status, NEW confs, NEW keys,
         Announce(p[2], keys), Latches(p[2], p[1], status, confs) \subseteq keys,
         Promoted(p[2], status, confs) # status
  PROVE  LET new == Promoted(p[2], status, confs)
         IN  /\ new \in {"merchant_confirmed", "system_confirmed"}
             /\ new = "merchant_confirmed" => ToldNow("payment.confirmed", p)'
             /\ new = "system_confirmed" => ToldNow("payment.finalized", p)'
<1>1. CASE Finalizes(status, confs)
  <2>1. <<"payment.finalized", p[1]>> \in keys /\ "payment.finalized" \in TxEvents
    BY <1>1 DEF Latches, TxEvents
  <2>2. ToldNow("payment.finalized", p)'
    BY <2>1, AnnounceTells
  <2>3. QED BY <1>1, <2>2 DEF Promoted
<1>2. CASE ~Finalizes(status, confs)
  <2>1. Confirms(p[2], status, confs)
    BY <1>2 DEF Promoted
  <2>2. <<"payment.confirmed", p[1]>> \in keys /\ "payment.confirmed" \in TxEvents
    BY <2>1 DEF Latches, TxEvents
  <2>3. ToldNow("payment.confirmed", p)'
    BY <2>2, AnnounceTells
  <2>4. QED BY <1>2, <2>1, <2>3 DEF Promoted
<1>3. QED BY <1>1, <1>2

LEMMA InsertTold ==
  ASSUME OnePayee, LedgerTypeOK, EventsPaid, RowsAnnounced, NEW p \in Pays, NEW at, NEW v,
         InsertPayment(p, at, v)
  PROVE  RowsAnnounced'
<1> DEFINE confs == IF at = Unmined THEN 0 ELSE Confirmations(at, v)
           status == IF at = Unmined THEN "detected" ELSE Promoted(p[2], "detected", confs)
           latches == IF at = Unmined THEN {} ELSE Latches(p[2], p[1], "detected", confs)
           rows == [payments EXCEPT ![p] = [status |-> status, block |-> at]]
           keys == {<<"payment.detected", p[1]>>} \cup latches \cup Finish(rows, p[2])
<1>1. CASE UNCHANGED ledgerVars
  BY <1>1 DEF ledgerVars, RowsAnnounced
<1>2. CASE ~UNCHANGED ledgerVars
  <2>1. payments' = rows /\ Announce(p[2], keys) /\ OnlyRow(p)
    BY <1>2, InsertBooks DEF InsertPayment
  <2>2. payments'[p].status = status
    BY <2>1 DEF LedgerTypeOK
  <2>3. <<"payment.detected", p[1]>> \in keys /\ latches \subseteq keys
        /\ "payment.detected" \in TxEvents
    BY DEF TxEvents
  <2> HIDE DEF keys
  <2>4. ToldNow("payment.detected", p)'
    BY <2>1, <2>3, AnnounceTells
  <2>5. CASE status = "detected"
    BY <2>2, <2>4, <2>5, <2>1, AnnounceKeeps, OthersTold DEF RowTold
  <2>6. CASE status # "detected"
    <3>1. /\ status = Promoted(p[2], "detected", confs)
          /\ Latches(p[2], p[1], "detected", confs) \subseteq keys
      BY <2>3, <2>6
    <3> HIDE DEF status
    <3>2. /\ status \in {"merchant_confirmed", "system_confirmed"}
          /\ status = "merchant_confirmed" => ToldNow("payment.confirmed", p)'
          /\ status = "system_confirmed" => ToldNow("payment.finalized", p)'
      BY <2>1, <2>6, <3>1, LatchesTell
    <3>3. RowTold(p)'
      BY <2>2, <2>4, <3>2 DEF RowTold
    <3>4. QED BY <2>1, <3>3, AnnounceKeeps, OthersTold
  <2>7. QED BY <2>5, <2>6
<1>3. QED BY <1>1, <1>2

LEMMA PlaceTold ==
  ASSUME OnePayee, LedgerTypeOK, EventsPaid, RowsAnnounced, NEW p \in Present, NEW row,
         NEW at, NEW v, ApplyMined(p, row, at, v)
  PROVE  RowsAnnounced'
<1> DEFINE confs == Confirmations(at, v)
           status == IF payments[p].status = "orphaned" THEN "detected" ELSE payments[p].status
           new == Promoted(p[2], status, confs)
           keys == Latches(p[2], p[1], status, confs) \cup Finish(payments', p[2])
<1>1. CASE UNCHANGED ledgerVars
  BY <1>1 DEF ledgerVars, RowsAnnounced
<1>2. CASE ~UNCHANGED ledgerVars
  <2>1. p \in Pays /\ payments[p].status # "absent" /\ RowTold(p)
    BY RowsToldEach DEF Present
  <2>2. OnlyRow(p)
    BY <1>2, <2>1, PlaceBooks
  <2>3. /\ payments'[p].status = new
        /\ \/ Announce(p[2], keys)
           \/ UNCHANGED events /\ payments[p].status # "orphaned" /\ new = status
    <3>1. /\ payments' = [payments EXCEPT ![p] = [status |-> new, block |-> at]]
          /\ \/ Announce(p[2], keys)
             \/ UNCHANGED events /\ payments[p].status # "orphaned" /\ new = status
      BY <1>2 DEF ApplyMined
    <3> HIDE DEF keys, new
    <3>2. QED BY <2>1, <3>1 DEF LedgerTypeOK
  <2>4. Latches(p[2], p[1], status, confs) \subseteq keys
    OBVIOUS
  <2>5. events \subseteq events'
    BY <2>3, AnnounceKeeps
  <2>6. ToldNow("payment.detected", p)'
    BY <2>1, <2>5 DEF RowTold, ToldNow
  <2>7. CASE new = status
    <3>1. payments'[p].status \in {payments[p].status, "detected"}
      BY <2>3, <2>7
    <3>2. payments'[p].status = "orphaned" => payments[p].status = "orphaned"
      BY <3>1
    <3>3. RowTold(p)'
      BY <2>1, <2>5, <2>6, <3>1, <3>2 DEF RowTold, ToldNow
    <3>4. QED BY <2>1, <2>2, <2>5, <3>3, OthersTold
  <2>8. CASE new # status
    <3>1. Announce(p[2], keys)
      BY <2>3, <2>8
    <3> HIDE DEF keys, status, confs
    <3>2. /\ new \in {"merchant_confirmed", "system_confirmed"}
          /\ new = "merchant_confirmed" => ToldNow("payment.confirmed", p)'
          /\ new = "system_confirmed" => ToldNow("payment.finalized", p)'
      BY <2>1, <2>4, <2>8, <3>1, LatchesTell
    <3>3. RowTold(p)'
      BY <2>3, <2>6, <3>2 DEF RowTold
    <3>4. QED BY <2>1, <2>2, <2>5, <3>3, OthersTold
  <2>9. QED BY <2>7, <2>8
<1>3. QED BY <1>1, <1>2

LEMMA OrphanTold ==
  ASSUME OnePayee, LedgerTypeOK, EventsPaid, RowsAnnounced, NEW p \in Present, OrphanPayment(p)
  PROVE  RowsAnnounced'
<1> DEFINE keys == {<<"payment.orphaned", p[1]>>}
<1>1. CASE UNCHANGED ledgerVars
  BY <1>1 DEF ledgerVars, RowsAnnounced
<1>2. CASE ~UNCHANGED ledgerVars
  <2>1. p \in Pays /\ payments[p].status # "absent" /\ RowTold(p)
    BY RowsToldEach DEF Present
  <2>2. OnlyRow(p)
    BY <1>2, <2>1, OrphanBooks
  <2>3. Announce(p[2], keys) /\ payments'[p].status = "orphaned"
    BY <1>2, <2>1 DEF OrphanPayment, LedgerTypeOK, PaymentRows
  <2>4. <<"payment.orphaned", p[1]>> \in keys /\ "payment.orphaned" \in TxEvents
    BY DEF TxEvents
  <2> HIDE DEF keys
  <2>5. ToldNow("payment.orphaned", p)'
    BY <2>1, <2>3, <2>4, AnnounceTells
  <2>6. events \subseteq events'
    BY <2>3, AnnounceKeeps
  <2>7. RowTold(p)'
    BY <2>1, <2>3, <2>5, <2>6 DEF RowTold, ToldNow
  <2>8. QED BY <2>1, <2>2, <2>6, <2>7, OthersTold
<1>3. QED BY <1>1, <1>2

\* If no transaction pays two invoices of one merchant, the merchant has been
\* told what every row says (enqueue_webhook in the transaction of every
\* change, with the transaction hash as its dedupe suffix).
THEOREM RowsAreAnnounced ==
  ASSUME OnePayee
  PROVE  Spec => []RowsAnnounced
<1>1. Init => AnnounceInv
  <2> SUFFICES ASSUME Init PROVE EventsPaid /\ RowsAnnounced
    BY InitType DEF AnnounceInv
  <2>1. EventsPaid
    BY DEF Init, LedgerInit, EventsPaid
  <2>2. \A p \in Pays : payments[p].status = "absent"
    BY DEF Init, LedgerInit, NoPayment
  <2>3. QED BY <2>1, <2>2 DEF RowsAnnounced
<1>2. AnnounceInv /\ [Next]_vars => AnnounceInv'
  <2> SUFFICES ASSUME TypeInv, EventsPaid, RowsAnnounced, [Next]_vars PROVE RowsAnnounced'
    BY NextType, EventsPaidNext DEF AnnounceInv
  <2>1. LedgerTypeOK
    BY TypeFacts
  <2>2. CASE UNCHANGED ledgerVars \/ Clock
    BY <2>2 DEF ledgerVars, Clock, ExpireInvoices, RegisterInvoice, PassTime, RowsAnnounced
  <2>3. CASE Inserts
    BY <2>1, <2>3, InsertTold DEF Inserts
  <2>4. CASE Places
    BY <2>1, <2>4, PlaceTold DEF Places
  <2>5. CASE Orphans
    BY <2>1, <2>5, OrphanTold DEF Orphans
  <2>6. QED BY <2>2, <2>3, <2>4, <2>5, NextTransactions DEF Transaction
<1>3. AnnounceInv => RowsAnnounced
  BY DEF AnnounceInv
<1>4. QED BY <1>1, <1>2, <1>3, PTL DEF Spec

=============================================================================
