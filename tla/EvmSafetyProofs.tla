---------------------------- MODULE EvmSafetyProofs ---------------------------
(***************************************************************************)
(* Safety of EvmWatcher for every value of its constants, on top of the    *)
(* type invariant.  With either service, or both: what is on record and    *)
(* what is promoted has been announced, and payment.finished only goes out *)
(* for an invoice that was funded.  With one service: a promotion is as    *)
(* deep as it says, an orphaned payment is not promoted, and the webhooks  *)
(* of the two promotions go out in their order.                            *)
(***************************************************************************)
EXTENDS EvmWatcherProofs

(***************************************************************************)
(* Seen from the payments, every step is one of these statements or leaves *)
(* the rows alone; events only grow.                                       *)
(***************************************************************************)
Located(t, block, hash) == \/ InsertPayment(t, block, hash)
                           \/ RelocatePayment(t, block, hash)
                           \/ ResetPayment(t, block, hash) /\ t \in Recorded
                           \/ OrphanPayment(t) /\ t \in Recorded
PaymentStatement ==
  \/ UNCHANGED payments /\ events \subseteq events'
  \/ \E t \in Txs : \E block, hash : Located(t, block, hash)
  \/ \E watched, at : CountConfirmations(watched, at)
  \/ \E t \in Recorded, status \in {"merchant_confirmed", "system_confirmed"} :
       Promote(t, TRUE, status)

LEMMA EnqueueGrows ==
  ASSUME NEW type, NEW suffix, Enqueue(type, suffix)
  PROVE  events \subseteq events'
  BY DEF Enqueue

LEMMA PromoteStatement ==
  ASSUME NEW t \in Recorded, NEW may, NEW status \in {"merchant_confirmed", "system_confirmed"},
         Promote(t, may, status)
  PROVE  PaymentStatement
<1>1. CASE may
  <2>1. Promote(t, TRUE, status)
    BY <1>1 DEF Promote
  <2>2. QED BY <2>1 DEF PaymentStatement
<1>2. CASE ~may
  BY <1>2 DEF Promote, PaymentStatement
<1>3. QED BY <1>1, <1>2

LEMMA TickStatements ==
  ASSUME TypeInv, NEW s \in Services, TickStep(s)
  PROVE  PaymentStatement
<1>1. CASE LoadWatched(s) \/ ReadTip(s) \/ Resume(s) \/ DetectFork(s)
  BY <1>1 DEF LoadWatched, ReadTip, Resume, DetectFork, PaymentStatement, ledgerVars
<1>2. CASE SelectAffected(s) \/ LocateTx(s) \/ Rewind(s) \/ SkipDeadSpace(s) \/ FetchChunk(s)
  BY <1>2 DEF SelectAffected, LocateTx, Rewind, SkipDeadSpace, FetchChunk, PaymentStatement,
              ledgerVars
<1>3. CASE StopScanning(s) \/ GetBlock(s) \/ GetAnchor(s) \/ Advance(s) \/ JumpGap(s)
  BY <1>3 DEF StopScanning, GetBlock, GetAnchor, Advance, JumpGap, PaymentStatement, ledgerVars
<1>4. CASE SelectOpen(s) \/ EndTick(s) \/ ReadTotal(s)
  BY <1>4 DEF SelectOpen, EndTick, ReadTotal, PaymentStatement, ledgerVars
<1>5. CASE NotifyConfirmed(s) \/ NotifyFinalized(s) \/ NotifySettled(s)
  BY <1>5, EnqueueGrows DEF NotifyConfirmed, NotifyFinalized, NotifySettled, PaymentStatement
<1>6. CASE SaveTotal(s)
  BY <1>6 DEF SaveTotal, WriteTotal, PaymentStatement
<1>7. CASE ReorgReset(s)
  <2>1. PICK f \in svc[s].found : ResetPayment(svc[s].tx, f.block, f.hash)
    BY <1>7 DEF ReorgReset
  <2>2. svc[s].tx \in Txs /\ svc[s].tx \in Recorded
    BY <1>7, TickFacts DEF LocalsOK, Handling, ReorgReset, At
  <2>3. Located(svc[s].tx, f.block, f.hash)
    BY <2>1, <2>2 DEF Located
  <2>4. QED BY <2>2, <2>3 DEF PaymentStatement
<1>8. CASE ReorgOrphan(s)
  <2>1. svc[s].tx \in Txs /\ svc[s].tx \in Recorded
    BY <1>8, TickFacts DEF LocalsOK, Handling, ReorgOrphan, At
  <2>2. OrphanPayment(svc[s].tx)
    BY <1>8 DEF ReorgOrphan
  <2>3. \A block, hash : Located(svc[s].tx, block, hash)
    BY <2>1, <2>2 DEF Located
  <2>4. QED BY <2>1, <2>3 DEF PaymentStatement
<1>9. CASE Apply(s)
  <2>1. PICK f \in svc[s].todo :
          InsertPayment(f.tx, f.block, f.hash) \/ RelocatePayment(f.tx, f.block, f.hash)
    BY <1>9 DEF Apply
  <2>2. f.tx \in Txs
    BY TickFacts DEF TickLocals, Sightings
  <2>3. Located(f.tx, f.block, f.hash)
    BY <2>1 DEF Located
  <2>4. QED BY <2>2, <2>3 DEF PaymentStatement
<1>10. CASE Recount(s)
  <2>1. CountConfirmations(svc[s].watched, svc[s].tip)
    BY <1>10 DEF Recount
  <2>2. QED BY <2>1 DEF PaymentStatement
<1>11. CASE PromoteNext(s)
  <2>1. PICK t \in svc[s].rows :
          Promote(t, DueConfirm(s, t) /\ MayConfirm(t), "merchant_confirmed")
    BY <1>11 DEF PromoteNext
  <2>2. t \in Recorded
    BY TickFacts DEF LocalsOK
  <2>3. QED BY <2>1, <2>2, PromoteStatement
<1>12. CASE Finalize(s)
  <2>1. Promote(svc[s].tx, MayFinalize(svc[s].tx), "system_confirmed")
    BY <1>12 DEF Finalize
  <2>2. svc[s].tx \in Recorded
    BY <1>12, TickFacts DEF LocalsOK, Handling, Finalize, At
  <2>3. QED BY <2>1, <2>2, PromoteStatement
<1>13. QED BY <1>1, <1>2, <1>3, <1>4, <1>5, <1>6, <1>7, <1>8, <1>9, <1>10, <1>11, <1>12
           DEF TickStep

LEMMA NextStatements ==
  ASSUME TypeInv, [Next]_vars
  PROVE  PaymentStatement
<1>1. ASSUME NEW s \in Services, TickStep(s) PROVE PaymentStatement
  BY <1>1, TickStatements
<1>2. ASSUME NEW s \in Services, AbortTick(s) PROVE PaymentStatement
  BY <1>2 DEF AbortTick, ledgerVars, PaymentStatement
<1>3. CASE GrowChain \/ ReorgChain
  BY <1>3 DEF GrowChain, ReorgChain, ledgerVars, PaymentStatement
<1>4. CASE CreateInvoice
  BY <1>4 DEF CreateInvoice, RegisterInvoice, PaymentStatement
<1>5. CASE ExpireInvoice
  BY <1>5 DEF ExpireInvoice, PassExpiry, PaymentStatement
<1>6. CASE UNCHANGED vars
  BY <1>6 DEF vars, ledgerVars, PaymentStatement
<1>7. QED BY <1>1, <1>2, <1>3, <1>4, <1>5, <1>6 DEF Next

LEMMA RecordedGrows ==
  ASSUME TypeInv, [Next]_vars
  PROVE  Recorded \subseteq Recorded'
<1>1. LedgerInv
  BY DEF TypeInv, TypeOK, LedgerInv
<1>2. CASE UNCHANGED payments
  BY <1>2 DEF Recorded
<1>3. CASE \E t \in Txs : \E block, hash : Located(t, block, hash)
  BY <1>1, <1>3, RowsStay DEF Located
<1>4. CASE \E watched, at : CountConfirmations(watched, at)
  BY <1>1, <1>4, RowsStayCounted
<1>5. CASE \E t \in Recorded, status \in {"merchant_confirmed", "system_confirmed"} :
             Promote(t, TRUE, status)
  BY <1>1, <1>5, RowsStayPromoted
<1>6. QED BY <1>2, <1>3, <1>4, <1>5, NextStatements DEF PaymentStatement

-----------------------------------------------------------------------------
LEMMA AnnouncedNext ==
  ASSUME TypeInv, PaymentsAnnounced, [Next]_vars
  PROVE  PaymentsAnnounced'
<1>1. payments \in [Txs -> PaymentRows]
  BY DEF TypeInv, TypeOK, LedgerTypeOK
<1>2. CASE UNCHANGED payments /\ events \subseteq events'
  BY <1>2 DEF PaymentsAnnounced
<1>3. CASE \E t \in Txs : \E block, hash : Located(t, block, hash)
  <2>t. PICK t \in Txs : \E block, hash : Located(t, block, hash)
    BY <1>3
  <2>1. PICK block, hash : Located(t, block, hash)
    BY <2>t
  <2>2. CASE InsertPayment(t, block, hash)
    BY <1>1, <2>1, <2>2 DEF InsertPayment, Enqueue, PaymentsAnnounced
  <2>3. CASE RelocatePayment(t, block, hash)
    BY <1>1, <2>1, <2>3 DEF RelocatePayment, PaymentsAnnounced, PaymentRows
  <2>4. CASE ResetPayment(t, block, hash) /\ t \in Recorded
    BY <1>1, <2>1, <2>4 DEF ResetPayment, Recorded, PaymentsAnnounced
  <2>5. CASE OrphanPayment(t) /\ t \in Recorded
    BY <1>1, <2>1, <2>5 DEF OrphanPayment, Enqueue, Recorded, PaymentsAnnounced, PaymentRows
  <2>6. QED BY <2>1, <2>2, <2>3, <2>4, <2>5 DEF Located
<1>4. CASE \E watched, at : CountConfirmations(watched, at)
  <2>1. /\ \A t \in Txs : payments'[t].status = payments[t].status
        /\ events' = events
    BY <1>1, <1>4 DEF CountConfirmations, PaymentRows
  <2>2. QED BY <2>1 DEF PaymentsAnnounced
<1>5. CASE \E t \in Recorded, status \in {"merchant_confirmed", "system_confirmed"} :
             Promote(t, TRUE, status)
  <2>1. PICK t \in Recorded, status \in {"merchant_confirmed", "system_confirmed"} :
               Promote(t, TRUE, status)
    BY <1>5
  <2>2. ASSUME NEW u \in Txs
        PROVE  payments'[u].status = payments[u].status
               \/ (u = t /\ payments'[u].status = status)
    BY <1>1, <2>1 DEF Promote, PaymentRows
  <2>3. events' = events
    BY <2>1 DEF Promote
  <2>4. QED BY <2>1, <2>2, <2>3 DEF PaymentsAnnounced, Recorded
<1>6. QED BY <1>2, <1>3, <1>4, <1>5, NextStatements DEF PaymentStatement

\* Whatever fails, is reorganised or is interleaved, no payment is on record,
\* or orphaned, without its event: apply_block, apply_erc20_transfers,
\* apply_payment_log and handle_reorg commit the two together.
THEOREM PaymentsAlwaysAnnounced == Spec => []PaymentsAnnounced
<1>1. Init => PaymentsAnnounced
  BY DEF Init, LedgerInit, NoPayment, PaymentsAnnounced
<1>2. TypeInv /\ PaymentsAnnounced /\ [Next]_vars => PaymentsAnnounced'
  BY AnnouncedNext
<1>3. QED BY <1>1, <1>2, TypeInvariant, PTL DEF Spec

-----------------------------------------------------------------------------
(***************************************************************************)
(* A tick that has read a total, and not yet acted on it, holds a sum that *)
(* may be out of date, but never above what was ever recorded.             *)
(***************************************************************************)
Sum(r) == r.sum <= Value[EverRecorded(InvoiceOf[r.tx])]
Enough(r) == Requested[InvoiceOf[r.tx]] <= r.sum
Backed(r) == /\ r.pc \in {"total", "settled"} => Sum(r)
             /\ r.pc = "settled" => Enough(r)
SumsBacked == \A s \in Services : Backed(svc[s])

\* More payments on record never add up to less.
LEMMA ValueGrows ==
  ASSUME TypeInv, Recorded \subseteq Recorded', NEW i
  PROVE  /\ Value[EverRecorded(i)] \in Nat /\ Value[EverRecorded(i)'] \in Nat
         /\ Value[EverRecorded(i)] <= Value[EverRecorded(i)']
<1>1. EverRecorded(i) \in SUBSET Txs /\ EverRecorded(i)' \in SUBSET Txs
  BY DEF EverRecorded, PaymentsOf
<1>2. EverRecorded(i) \subseteq EverRecorded(i)'
  BY DEF EverRecorded, PaymentsOf, Recorded
<1>3. QED BY <1>1, <1>2, LedgerAssumption

LEMMA CreditedIsBacked ==
  ASSUME NEW i
  PROVE  /\ Value[Credited(i)] \in Nat /\ Value[Credited(i)] <= Value[EverRecorded(i)]
<1>1. Credited(i) \in SUBSET Txs /\ EverRecorded(i) \in SUBSET Txs
  BY DEF Credited, EverRecorded, PaymentsOf
<1>2. Credited(i) \subseteq EverRecorded(i)
  BY DEF Credited, EverRecorded
<1>3. QED BY <1>1, <1>2, LedgerAssumption

\* The records of other ticks stay backed as payments come and go.
LEMMA StaysBacked ==
  ASSUME TypeInv, Recorded \subseteq Recorded', NEW r \in TickLocals, Sum(r)
  PROVE  Sum(r)'
<1>1. r.sum \in Nat
  BY DEF TickLocals
<1>2. QED BY <1>1, ValueGrows DEF Sum

\* What a step of a tick does to the records in svc: the others keep theirs,
\* and its own only gets to "total" or "settled" by these two steps.
LEMMA OwnRecord ==
  ASSUME TypeInv, NEW s \in Services, TickStep(s)
  PROVE  /\ \A u \in Services \ {s} : svc'[u] = svc[u]
         /\ \/ svc'[s].pc \notin {"total", "settled"}
            \/ ReadTotal(s)
            \/ SaveTotal(s) /\ Finishes(InvoiceOf[svc[s].tx], svc[s].sum)
<1>1. svc \in [Services -> TickLocals] /\ svc[s] \in TickLocals
  BY DEF TypeInv, TypeOK
<1>2. CASE LoadWatched(s) \/ ReadTip(s) \/ Resume(s)
  BY <1>1, <1>2 DEF LoadWatched, ReadTip, Resume, TickLocals
<1>3. CASE DetectFork(s)
  BY <1>1, <1>3 DEF DetectFork, TickLocals
<1>4. CASE SelectAffected(s)
  BY <1>1, <1>4 DEF SelectAffected, TickLocals
<1>5. CASE LocateTx(s)
  BY <1>1, <1>5 DEF LocateTx, TickLocals
<1>6. CASE ReorgReset(s) \/ ReorgOrphan(s)
  BY <1>1, <1>6 DEF ReorgReset, ReorgOrphan, RecomputeThen, TickLocals
<1>7. CASE Rewind(s)
  BY <1>1, <1>7 DEF Rewind, TickLocals
<1>8. CASE SkipDeadSpace(s)
  BY <1>1, <1>8 DEF SkipDeadSpace, Go, TickLocals
<1>9. CASE FetchChunk(s)
  BY <1>1, <1>9 DEF FetchChunk, TickLocals
<1>10. CASE StopScanning(s)
  BY <1>1, <1>10 DEF StopScanning, Go, TickLocals
<1>11. CASE GetBlock(s)
  BY <1>1, <1>11 DEF GetBlock, TickLocals
<1>12. CASE GetAnchor(s)
  BY <1>1, <1>12 DEF GetAnchor, TickLocals
<1>13. CASE Apply(s)
  BY <1>1, <1>13 DEF Apply, TickLocals
<1>14. CASE Advance(s)
  BY <1>1, <1>14 DEF Advance, TickLocals
<1>15. CASE JumpGap(s)
  BY <1>1, <1>15 DEF JumpGap, Go, TickLocals
<1>16. CASE Recount(s) \/ SelectOpen(s)
  <2>1. CASE Recount(s)
    BY <1>1, <2>1 DEF Recount, TickLocals
  <2>2. CASE SelectOpen(s)
    <3>1. PICK open, snap :
            svc' = [svc EXCEPT ![s].pc = "promote", ![s].rows = open, ![s].snap = snap]
      BY <2>2, Zenon DEF SelectOpen
    <3>2. QED BY <1>1, <3>1 DEF TickLocals
  <2>3. QED BY <1>16, <2>1, <2>2
<1>17. CASE PromoteNext(s)
  BY <1>1, <1>17, AfterConfirmType DEF PromoteNext, TickLocals
<1>18. CASE NotifyConfirmed(s)
  BY <1>1, <1>18, AfterConfirmType DEF NotifyConfirmed, Go, TickLocals
<1>19. CASE Finalize(s) \/ NotifyFinalized(s)
  BY <1>1, <1>19 DEF Finalize, NotifyFinalized, Go, TickLocals
<1>20. CASE EndTick(s)
  BY <1>1, <1>20 DEF EndTick, Idle
<1>21. CASE ReadTotal(s)
  BY <1>1, <1>21 DEF ReadTotal
<1>22. CASE SaveTotal(s)
  <2>1. svc[s].ret \in {"locate", "apply", "promote"}
    BY <1>22, TickFacts DEF SaveTotal, At, LocalsOK, Recomputing
  <2>2. CASE Finishes(InvoiceOf[svc[s].tx], svc[s].sum)
    BY <1>1, <1>22, <2>2 DEF SaveTotal
  <2>3. CASE ~Finishes(InvoiceOf[svc[s].tx], svc[s].sum)
    BY <1>1, <1>22, <2>1, <2>3 DEF SaveTotal, TickLocals
  <2>4. QED BY <2>2, <2>3
<1>23. CASE NotifySettled(s)
  <2>1. svc[s].ret \in {"locate", "apply", "promote"}
    BY <1>23, TickFacts DEF NotifySettled, At, LocalsOK, Recomputing
  <2>2. QED BY <1>1, <1>23, <2>1 DEF NotifySettled, TickLocals
<1>24. QED BY <1>2, <1>3, <1>4, <1>5, <1>6, <1>7, <1>8, <1>9, <1>10, <1>11, <1>12, <1>13,
              <1>14, <1>15, <1>16, <1>17, <1>18, <1>19, <1>20, <1>21, <1>22, <1>23
           DEF TickStep

LEMMA BackedTick ==
  ASSUME TypeInv, SumsBacked, NEW s \in Services, TickStep(s), Recorded \subseteq Recorded'
  PROVE  SumsBacked'
<1>1. ASSUME NEW r \in TickLocals, Backed(r) PROVE Backed(r)'
  <2>1. Sum(r) => Sum(r)'
    BY StaysBacked
  <2>2. QED BY <1>1, <2>1 DEF Backed, Enough
<1>2. ASSUME NEW u \in Services, svc'[u] = svc[u] PROVE Backed(svc[u])'
  <2>1. svc[u] \in TickLocals /\ Backed(svc[u])
    BY DEF TypeInv, TypeOK, SumsBacked
  <2>2. QED BY <1>1, <1>2, <2>1 DEF Backed, Sum, Enough
<1>3. svc[s] \in TickLocals /\ svc \in [Services -> TickLocals] /\ Backed(svc[s])
  BY DEF TypeInv, TypeOK, SumsBacked
<1>4. CASE svc'[s].pc \notin {"total", "settled"}
  BY <1>2, <1>4, OwnRecord DEF SumsBacked, Backed
<1>5. CASE ReadTotal(s)
  <2> PICK i : i = InvoiceOf[svc[s].tx]
    OBVIOUS
  <2>1. /\ svc'[s].pc = "total" /\ svc'[s].sum = Value[Credited(i)]
        /\ svc'[s].tx = svc[s].tx
    BY <1>3, <1>5 DEF ReadTotal, TickLocals
  <2>2. EverRecorded(i)' = EverRecorded(i)
    BY <1>5 DEF ReadTotal, ledgerVars, EverRecorded, PaymentsOf
  <2>3. Value[Credited(i)] <= Value[EverRecorded(i)']
    BY <2>2, CreditedIsBacked
  <2>4. Backed(svc[s])'
    BY <2>1, <2>3 DEF Backed, Sum
  <2>5. QED BY <1>2, <2>4, OwnRecord DEF SumsBacked
<1>6. CASE SaveTotal(s) /\ Finishes(InvoiceOf[svc[s].tx], svc[s].sum)
  <2> PICK i : i = InvoiceOf[svc[s].tx]
    OBVIOUS
  <2>1. /\ svc'[s].pc = "settled" /\ svc'[s].sum = svc[s].sum /\ svc'[s].tx = svc[s].tx
    BY <1>3, <1>6 DEF SaveTotal, TickLocals
  <2>2. svc[s].pc = "total" /\ Sum(svc[s])
    BY <1>3, <1>6 DEF SaveTotal, At, Backed
  <2>3. svc[s].sum \in Nat /\ i \in Invoices
    <3>1. svc[s].tx \in Txs
      BY <2>2, TickFacts DEF LocalsOK, Handling, Recomputing
    <3>2. QED BY <1>3, <3>1, LedgerAssumption DEF TickLocals
  <2>4. svc[s].sum >= Requested[i]
    BY <1>6 DEF Finishes, Settled, StatusFor
  <2>5. Requested[i] <= svc[s].sum
    BY <2>3, <2>4, LedgerAssumption
  <2>6. svc[s].sum <= Value[EverRecorded(i)']
    BY <1>3, <2>2, StaysBacked DEF Sum
  <2>7. Backed(svc[s])'
    BY <2>1, <2>5, <2>6 DEF Backed, Sum, Enough
  <2>8. QED BY <1>2, <2>7, OwnRecord DEF SumsBacked
<1>7. QED BY <1>4, <1>5, <1>6, OwnRecord

LEMMA BackedNext ==
  ASSUME TypeInv, SumsBacked, [Next]_vars
  PROVE  SumsBacked'
<1>1. Recorded \subseteq Recorded'
  BY RecordedGrows
<1>2. ASSUME NEW s \in Services, TickStep(s) PROVE SumsBacked'
  BY <1>1, <1>2, BackedTick
<1>3. ASSUME NEW u \in Services, svc'[u] = svc[u] PROVE Backed(svc[u])'
  <2>1. svc[u] \in TickLocals /\ Backed(svc[u])
    BY DEF TypeInv, TypeOK, SumsBacked
  <2>2. QED BY <1>1, <1>3, <2>1, StaysBacked DEF Backed, Sum, Enough
<1>4. ASSUME NEW s \in Services, AbortTick(s) PROVE SumsBacked'
  <2>1. svc' = [svc EXCEPT ![s] = Idle] /\ svc \in [Services -> TickLocals]
    BY <1>4 DEF AbortTick, TypeInv, TypeOK
  <2>2. \A u \in Services \ {s} : svc'[u] = svc[u]
    BY <2>1
  <2>3. svc'[s].pc = "idle"
    BY <2>1 DEF Idle
  <2>4. QED BY <1>3, <2>2, <2>3 DEF SumsBacked, Backed
<1>5. CASE svc' = svc
  BY <1>3, <1>5 DEF SumsBacked
<1>6. CASE GrowChain \/ ReorgChain \/ CreateInvoice \/ ExpireInvoice
  BY <1>5, <1>6 DEF GrowChain, ReorgChain, CreateInvoice, ExpireInvoice
<1>7. CASE UNCHANGED vars
  BY <1>5, <1>7 DEF vars
<1>8. QED BY <1>2, <1>4, <1>6, <1>7 DEF Next

\* Only NotifySettled sends payment.finished.
FinishedEvents == {e \in events : e[1] = "payment.finished"}

LEMMA OtherEvents ==
  ASSUME NEW type, NEW suffix, Enqueue(type, suffix), type # "payment.finished"
  PROVE  FinishedEvents' = FinishedEvents
  BY DEF Enqueue, FinishedEvents

LEMMA TickFinishes ==
  ASSUME TypeInv, NEW s \in Services, TickStep(s)
  PROVE  FinishedEvents' = FinishedEvents \/ NotifySettled(s)
<1>1. CASE LoadWatched(s) \/ ReadTip(s) \/ Resume(s) \/ DetectFork(s)
  BY <1>1 DEF LoadWatched, ReadTip, Resume, DetectFork, ledgerVars, FinishedEvents
<1>2. CASE SelectAffected(s) \/ LocateTx(s) \/ Rewind(s) \/ SkipDeadSpace(s) \/ FetchChunk(s)
  BY <1>2 DEF SelectAffected, LocateTx, Rewind, SkipDeadSpace, FetchChunk, ledgerVars,
              FinishedEvents
<1>3. CASE StopScanning(s) \/ GetBlock(s) \/ GetAnchor(s) \/ Advance(s) \/ JumpGap(s)
  BY <1>3 DEF StopScanning, GetBlock, GetAnchor, Advance, JumpGap, ledgerVars, FinishedEvents
<1>4. CASE SelectOpen(s) \/ EndTick(s) \/ ReadTotal(s)
  BY <1>4 DEF SelectOpen, EndTick, ReadTotal, ledgerVars, FinishedEvents
<1>5. CASE NotifyConfirmed(s) \/ NotifyFinalized(s)
  BY <1>5, OtherEvents DEF NotifyConfirmed, NotifyFinalized
<1>6. CASE SaveTotal(s) \/ Recount(s)
  BY <1>6 DEF SaveTotal, WriteTotal, Recount, CountConfirmations, FinishedEvents
<1>7. CASE ReorgReset(s)
  BY <1>7 DEF ReorgReset, ResetPayment, FinishedEvents
<1>8. CASE ReorgOrphan(s)
  BY <1>8, OtherEvents DEF ReorgOrphan, OrphanPayment
<1>9. CASE Apply(s)
  <2>1. PICK f : InsertPayment(f.tx, f.block, f.hash) \/ RelocatePayment(f.tx, f.block, f.hash)
    BY <1>9 DEF Apply
  <2>2. QED BY <2>1, OtherEvents DEF InsertPayment, RelocatePayment, FinishedEvents
<1>10. CASE PromoteNext(s) \/ Finalize(s)
  BY <1>10 DEF PromoteNext, Finalize, Promote, FinishedEvents
<1>11. QED BY <1>1, <1>2, <1>3, <1>4, <1>5, <1>6, <1>7, <1>8, <1>9, <1>10 DEF TickStep

LEMMA FundedNext ==
  ASSUME TypeInv, SumsBacked, FinishedWasFunded, [Next]_vars
  PROVE  FinishedWasFunded'
<1>1. Recorded \subseteq Recorded'
  BY RecordedGrows
<1>2. ASSUME NEW i \in Invoices, Value[EverRecorded(i)] >= Requested[i]
      PROVE  Value[EverRecorded(i)'] >= Requested[i]
  BY <1>1, <1>2, ValueGrows, LedgerAssumption
<1>3. CASE FinishedEvents' = FinishedEvents
  <2>1. ASSUME NEW i \in Invoices, NEW status \in InvoiceStatuses,
               <<"payment.finished", <<i, status>>>> \in events'
        PROVE  Value[EverRecorded(i)'] >= Requested[i]
    <3>1. <<"payment.finished", <<i, status>>>> \in events
      BY <1>3, <2>1 DEF FinishedEvents
    <3>2. QED BY <1>2, <3>1 DEF FinishedWasFunded
  <2>2. QED BY <2>1 DEF FinishedWasFunded
<1>4. ASSUME NEW s \in Services, NotifySettled(s) PROVE FinishedWasFunded'
  <2> PICK i : i = InvoiceOf[svc[s].tx]
    OBVIOUS
  <2>1. svc[s] \in TickLocals /\ svc[s].sum \in Nat /\ svc[s].tx \in Txs
    BY <1>4, TickFacts DEF NotifySettled, At, LocalsOK, Handling, Recomputing, TickLocals
  <2>2. Sum(svc[s]) /\ Enough(svc[s])
    BY <1>4 DEF NotifySettled, At, SumsBacked, Backed
  <2>3. i \in Invoices /\ Value[EverRecorded(i)] >= Requested[i]
    BY <1>1, <2>1, <2>2, ValueGrows, LedgerAssumption DEF Sum, Enough
  <2>4. events' = events \cup {<<"payment.finished", <<i, StatusFor(i, svc[s].sum)>>>>}
    BY <1>4 DEF NotifySettled, Enqueue
  <2>5. ASSUME NEW j \in Invoices, NEW status \in InvoiceStatuses,
               <<"payment.finished", <<j, status>>>> \in events'
        PROVE  Value[EverRecorded(j)'] >= Requested[j]
    <3>1. CASE <<"payment.finished", <<j, status>>>> \in events
      BY <1>2, <3>1 DEF FinishedWasFunded
    <3>2. CASE j = i
      BY <1>2, <2>3, <3>2
    <3>3. QED BY <2>4, <2>5, <3>1, <3>2
  <2>6. QED BY <2>5 DEF FinishedWasFunded
<1>5. ASSUME NEW s \in Services, TickStep(s) PROVE FinishedWasFunded'
  BY <1>3, <1>4, <1>5, TickFinishes
<1>6. ASSUME NEW s \in Services, AbortTick(s) PROVE FinishedEvents' = FinishedEvents
  BY <1>6 DEF AbortTick, ledgerVars, FinishedEvents
<1>7. CASE GrowChain \/ ReorgChain
  BY <1>3, <1>7 DEF GrowChain, ReorgChain, ledgerVars, FinishedEvents
<1>8. CASE CreateInvoice
  BY <1>3, <1>8 DEF CreateInvoice, RegisterInvoice, FinishedEvents
<1>9. CASE ExpireInvoice
  BY <1>3, <1>9 DEF ExpireInvoice, PassExpiry, FinishedEvents
<1>10. CASE UNCHANGED vars
  BY <1>3, <1>10 DEF vars, ledgerVars, FinishedEvents
<1>11. QED BY <1>3, <1>5, <1>6, <1>7, <1>8, <1>9, <1>10 DEF Next

LEMMA BackedInvariant == Spec => [](TypeInv /\ SumsBacked)
<1>1. Init => SumsBacked
  BY DEF Init, SumsBacked, Backed, Idle
<1>2. TypeInv /\ SumsBacked /\ [Next]_vars => SumsBacked'
  BY BackedNext
<1>3. QED BY <1>1, <1>2, TypeInvariant, PTL DEF Spec

\* No interleaving of the two services, no rescan and no stale total makes
\* recompute_invoice_totals send payment.finished for an invoice whose
\* recorded payments never reached the requested amount.
THEOREM FinishedAlwaysFunded == Spec => []FinishedWasFunded
<1>1. Init => FinishedWasFunded
  BY DEF Init, LedgerInit, FinishedWasFunded
<1>2. TypeInv /\ SumsBacked /\ FinishedWasFunded /\ [Next]_vars => FinishedWasFunded'
  BY FundedNext
<1>3. QED BY <1>1, <1>2, BackedInvariant, PTL DEF Spec
-----------------------------------------------------------------------------
(***************************************************************************)
(* What each step does to one payment, to the invoices and to the events.  *)
(***************************************************************************)
Confirms(s, t) ==
  /\ PromoteNext(s) /\ t \in svc[s].rows /\ DueConfirm(s, t)
  /\ payments[t].status = "detected"
  /\ payments'[t] = [payments[t] EXCEPT !.status = "merchant_confirmed"]
  /\ svc'[s] = [svc[s] EXCEPT !.tx = t, !.rows = @ \ {t}, !.ret = "promote", !.pc = "confirmed"]
Finalizes(s, t) ==
  /\ Finalize(s) /\ t = svc[s].tx
  /\ payments'[t] = [payments[t] EXCEPT !.status = "system_confirmed"]
  /\ svc'[s] = [svc[s] EXCEPT !.pc = "finalized"]

LEMMA RowSteps ==
  ASSUME TypeInv, NEW s \in Services, TickStep(s), NEW t \in Txs
  PROVE  \/ payments'[t] = payments[t]
         \/ /\ ReorgReset(s) \/ ReorgOrphan(s) \/ Apply(s)
            /\ payments'[t].status \in {payments[t].status, "detected", "orphaned"}
            /\ payments[t].status = "orphaned" => payments'[t].status \in {"orphaned", "detected"}
         \/ /\ Recount(s)
            /\ payments'[t] = [payments[t] EXCEPT !.confs = Depth(svc[s].tip, payments[t].block)]
         \/ Confirms(s, t)
         \/ Finalizes(s, t)
<1>1. /\ payments \in [Txs -> PaymentRows] /\ svc \in [Services -> TickLocals]
      /\ svc[s] \in TickLocals
  BY DEF TypeInv, TypeOK, LedgerTypeOK
<1>2. CASE LoadWatched(s) \/ ReadTip(s) \/ Resume(s) \/ DetectFork(s)
  BY <1>2 DEF LoadWatched, ReadTip, Resume, DetectFork, ledgerVars
<1>3. CASE SelectAffected(s) \/ LocateTx(s) \/ Rewind(s) \/ SkipDeadSpace(s) \/ FetchChunk(s)
  BY <1>3 DEF SelectAffected, LocateTx, Rewind, SkipDeadSpace, FetchChunk, ledgerVars
<1>4. CASE StopScanning(s) \/ GetBlock(s) \/ GetAnchor(s) \/ Advance(s) \/ JumpGap(s)
  BY <1>4 DEF StopScanning, GetBlock, GetAnchor, Advance, JumpGap, ledgerVars
<1>5. CASE SelectOpen(s) \/ EndTick(s) \/ ReadTotal(s)
  BY <1>5 DEF SelectOpen, EndTick, ReadTotal, ledgerVars
<1>6. CASE NotifyConfirmed(s) \/ NotifyFinalized(s) \/ NotifySettled(s) \/ SaveTotal(s)
  BY <1>6 DEF NotifyConfirmed, NotifyFinalized, NotifySettled, SaveTotal, WriteTotal
<1>7. CASE ReorgReset(s)
  <2>1. PICK f \in svc[s].found : ResetPayment(svc[s].tx, f.block, f.hash)
    BY <1>7 DEF ReorgReset
  <2>2. CASE t = svc[s].tx
    <3>1. payments'[t].status = "detected"
      BY <1>1, <2>1, <2>2 DEF ResetPayment
    <3>2. QED BY <1>7, <3>1
  <2>3. CASE t # svc[s].tx
    BY <1>1, <2>1, <2>3 DEF ResetPayment
  <2>4. QED BY <2>2, <2>3
<1>8. CASE ReorgOrphan(s)
  <2>1. payments' = [payments EXCEPT ![svc[s].tx].status = "orphaned", ![svc[s].tx].confs = 0]
    BY <1>8 DEF ReorgOrphan, OrphanPayment
  <2>2. CASE t = svc[s].tx
    <3>1. payments'[t].status = "orphaned"
      BY <1>1, <2>1, <2>2 DEF PaymentRows
    <3>2. QED BY <1>8, <3>1
  <2>3. CASE t # svc[s].tx
    BY <1>1, <2>1, <2>3
  <2>4. QED BY <2>2, <2>3
<1>9. CASE Apply(s)
  <2>1. PICK f \in svc[s].todo :
          InsertPayment(f.tx, f.block, f.hash) \/ RelocatePayment(f.tx, f.block, f.hash)
    BY <1>9 DEF Apply
  <2>2. CASE InsertPayment(f.tx, f.block, f.hash)
    BY <1>1, <1>9, <2>2 DEF InsertPayment
  <2>3. CASE RelocatePayment(f.tx, f.block, f.hash)
    BY <1>1, <1>9, <2>3 DEF RelocatePayment, PaymentRows
  <2>4. QED BY <2>1, <2>2, <2>3
<1>10. CASE Recount(s)
  BY <1>10 DEF Recount, CountConfirmations
<1>11. CASE PromoteNext(s)
  <2>1. PICK u \in svc[s].rows :
          /\ Promote(u, DueConfirm(s, u) /\ MayConfirm(u), "merchant_confirmed")
          /\ svc' = [svc EXCEPT ![s].tx = u, ![s].rows = @ \ {u}, ![s].ret = "promote",
                       ![s].pc = IF DueConfirm(s, u) /\ MayConfirm(u) THEN "confirmed"
                                 ELSE AfterConfirm(s, u)]
    BY <1>11 DEF PromoteNext
  <2>2. CASE u = t /\ DueConfirm(s, u) /\ MayConfirm(u)
    <3>1. payments' = [payments EXCEPT ![t].status = "merchant_confirmed"]
      BY <2>1, <2>2 DEF Promote
    <3>2. svc'[s] = [svc[s] EXCEPT !.tx = t, !.rows = @ \ {t}, !.ret = "promote",
                                   !.pc = "confirmed"]
      BY <1>1, <2>1, <2>2
    <3>3. QED BY <1>1, <1>11, <2>2, <3>1, <3>2 DEF Confirms, MayConfirm
  <2>3. CASE ~(u = t /\ DueConfirm(s, u) /\ MayConfirm(u))
    BY <1>1, <2>1, <2>3 DEF Promote
  <2>4. QED BY <2>2, <2>3
<1>12. CASE Finalize(s)
  <2>1. CASE svc[s].tx = t /\ MayFinalize(t)
    BY <1>1, <1>12, <2>1 DEF Finalize, Promote, Go, Finalizes
  <2>2. CASE ~(svc[s].tx = t /\ MayFinalize(t))
    BY <1>1, <1>12, <2>2 DEF Finalize, Promote
  <2>3. QED BY <2>1, <2>2
<1>13. QED BY <1>2, <1>3, <1>4, <1>5, <1>6, <1>7, <1>8, <1>9, <1>10, <1>11, <1>12 DEF TickStep

\* The two promotions are the only steps of a tick into their statuses.
LEMMA PromotionSteps ==
  ASSUME TypeInv, NEW s \in Services, TickStep(s), NEW t \in Txs,
         payments'[t].status # payments[t].status
  PROVE  /\ payments'[t].status = "merchant_confirmed" => Confirms(s, t)
         /\ payments'[t].status = "system_confirmed" => Finalizes(s, t)
<1>1. payments[t] \in PaymentRows
  BY DEF TypeInv, TypeOK, LedgerTypeOK
<1>2. ASSUME NEW n, payments'[t] = [payments[t] EXCEPT !.confs = n] PROVE FALSE
  BY <1>1, <1>2 DEF PaymentRows
<1>3. Confirms(s, t) => payments'[t].status = "merchant_confirmed"
  BY <1>1 DEF Confirms, PaymentRows
<1>4. Finalizes(s, t) => payments'[t].status = "system_confirmed"
  BY <1>1 DEF Finalizes, PaymentRows
<1>5. QED BY <1>2, <1>3, <1>4, RowSteps

\* Outside the ticks no payment changes.
LEMMA OutsideRows ==
  ASSUME [Next]_vars, ~\E s \in Services : TickStep(s)
  PROVE  UNCHANGED payments
  BY DEF Next, vars, ledgerVars, AbortTick, GrowChain, ReorgChain, CreateInvoice, RegisterInvoice,
         ExpireInvoice, PassExpiry

LEMMA EventsGrow ==
  ASSUME TypeInv, [Next]_vars
  PROVE  events \subseteq events'
<1>1. CASE UNCHANGED payments /\ events \subseteq events'
  BY <1>1
<1>2. CASE \E t \in Txs : \E block, hash : Located(t, block, hash)
  BY <1>2 DEF Located, InsertPayment, RelocatePayment, ResetPayment, OrphanPayment, Enqueue
<1>3. CASE \E watched, at : CountConfirmations(watched, at)
  BY <1>3 DEF CountConfirmations
<1>4. CASE \E t \in Recorded, status \in {"merchant_confirmed", "system_confirmed"} :
             Promote(t, TRUE, status)
  BY <1>4 DEF Promote
<1>5. QED BY <1>1, <1>2, <1>3, <1>4, NextStatements DEF PaymentStatement

\* Only a total, a token handler and the clock change an invoice.
LEMMA InvoicesKept ==
  ASSUME [Next]_vars, ~(CreateInvoice \/ ExpireInvoice \/ \E s \in Services : SaveTotal(s))
  PROVE  invoices' = invoices
<1>1. ASSUME NEW s \in Services, TickStep(s), ~SaveTotal(s)
      PROVE  invoices' = invoices
  <2>1. CASE LoadWatched(s) \/ ReadTip(s) \/ Resume(s) \/ DetectFork(s)
    BY <2>1 DEF LoadWatched, ReadTip, Resume, DetectFork, ledgerVars
  <2>2. CASE SelectAffected(s) \/ LocateTx(s) \/ Rewind(s) \/ SkipDeadSpace(s) \/ FetchChunk(s)
    BY <2>2 DEF SelectAffected, LocateTx, Rewind, SkipDeadSpace, FetchChunk, ledgerVars
  <2>3. CASE StopScanning(s) \/ GetBlock(s) \/ GetAnchor(s) \/ Advance(s) \/ JumpGap(s)
    BY <2>3 DEF StopScanning, GetBlock, GetAnchor, Advance, JumpGap, ledgerVars
  <2>4. CASE SelectOpen(s) \/ EndTick(s) \/ ReadTotal(s)
    BY <2>4 DEF SelectOpen, EndTick, ReadTotal, ledgerVars
  <2>5. CASE NotifyConfirmed(s) \/ NotifyFinalized(s) \/ NotifySettled(s)
    BY <2>5 DEF NotifyConfirmed, NotifyFinalized, NotifySettled
  <2>6. CASE ReorgReset(s) \/ ReorgOrphan(s) \/ Recount(s)
    BY <2>6 DEF ReorgReset, ResetPayment, ReorgOrphan, OrphanPayment, Recount, CountConfirmations
  <2>7. CASE Apply(s) \/ PromoteNext(s) \/ Finalize(s)
    BY <2>7 DEF Apply, InsertPayment, RelocatePayment, PromoteNext, Finalize, Promote
  <2>8. QED BY <1>1, <2>1, <2>2, <2>3, <2>4, <2>5, <2>6, <2>7 DEF TickStep
<1>2. CASE \/ \E s \in Services : AbortTick(s)
           \/ GrowChain \/ ReorgChain \/ UNCHANGED vars
  BY <1>2 DEF AbortTick, GrowChain, ReorgChain, ledgerVars, vars
<1>3. QED BY <1>1, <1>2 DEF Next

\* An invoice only gets a status from SaveTotal.
LEMMA InvoiceSteps ==
  ASSUME TypeInv, [Next]_vars, NEW i \in Invoices
  PROVE  \/ invoices'[i].status = invoices[i].status
         \/ \E s \in Services : SaveTotal(s) /\ i = InvoiceOf[svc[s].tx]
<1>1. invoices \in [Invoices -> InvoiceRows]
  BY DEF TypeInv, TypeOK, LedgerTypeOK
<1>2. ASSUME NEW s \in Services, SaveTotal(s), i # InvoiceOf[svc[s].tx]
      PROVE  invoices'[i] = invoices[i]
  BY <1>1, <1>2 DEF SaveTotal, WriteTotal
<1>3. CASE CreateInvoice \/ ExpireInvoice
  BY <1>1, <1>3 DEF CreateInvoice, RegisterInvoice, ExpireInvoice, PassExpiry, InvoiceRows
<1>4. QED BY <1>2, <1>3, InvoicesKept
-----------------------------------------------------------------------------
(***************************************************************************)
(* Promotions.  As long as no tick is cut short, a service that owes a     *)
(* webhook is only brought on by sending it.                               *)
(***************************************************************************)
LEMMA OwedIsSent ==
  ASSUME TypeInv, NEW s \in Services, TickStep(s),
         svc[s].pc \in {"confirmed", "finalized", "settled"}
  PROVE  \/ svc[s].pc = "confirmed" /\ NotifyConfirmed(s)
         \/ svc[s].pc = "finalized" /\ NotifyFinalized(s)
         \/ svc[s].pc = "settled" /\ NotifySettled(s)
<1>1. ~(\/ LoadWatched(s) \/ ReadTip(s) \/ Resume(s) \/ DetectFork(s)
        \/ SelectAffected(s) \/ LocateTx(s) \/ ReorgReset(s) \/ ReorgOrphan(s) \/ Rewind(s)
        \/ SkipDeadSpace(s) \/ FetchChunk(s) \/ StopScanning(s) \/ GetBlock(s) \/ GetAnchor(s))
  BY DEF LoadWatched, ReadTip, Resume, DetectFork, SelectAffected, LocateTx, ReorgReset,
         ReorgOrphan, Rewind, SkipDeadSpace, FetchChunk, StopScanning, GetBlock, GetAnchor, At
<1>2. ~(\/ Apply(s) \/ Advance(s) \/ JumpGap(s) \/ Recount(s) \/ SelectOpen(s)
        \/ PromoteNext(s) \/ Finalize(s) \/ EndTick(s) \/ ReadTotal(s) \/ SaveTotal(s))
  BY DEF Apply, Advance, JumpGap, Recount, SelectOpen, PromoteNext, Finalize, EndTick, ReadTotal,
         SaveTotal, At
<1>3. QED BY <1>1, <1>2 DEF TickStep, NotifyConfirmed, NotifyFinalized, NotifySettled, At

\* What is owed stays owed, or is sent.
LEMMA OwedStays ==
  ASSUME TypeInv, SumsBacked, [Next]_vars, aborts' = 0, NEW s \in Services
  PROVE  /\ At(s, "confirmed") => \/ svc'[s] = svc[s]
                                  \/ <<"payment.confirmed", svc[s].tx>> \in events'
         /\ At(s, "finalized") => \/ svc'[s] = svc[s]
                                  \/ <<"payment.finalized", svc[s].tx>> \in events'
         /\ At(s, "settled") =>
              \/ svc'[s] = svc[s]
              \/ \E status \in {"paid", "overpaid"} :
                   <<"payment.finished", <<InvoiceOf[svc[s].tx], status>>>> \in events'
<1>1. svc \in [Services -> TickLocals] /\ aborts \in 0 .. MaxAborts
  BY DEF TypeInv, TypeOK
<1>2. ASSUME NEW u \in Services, AbortTick(u) PROVE FALSE
  BY <1>1, <1>2 DEF AbortTick
<1>3. ASSUME NEW u \in Services, TickStep(u), u # s PROVE svc'[s] = svc[s]
  BY <1>3, OwnRecord
<1>4. CASE TickStep(s)
  <2>1. CASE NotifyConfirmed(s)
    BY <2>1 DEF NotifyConfirmed, Enqueue, At
  <2>2. CASE NotifyFinalized(s)
    BY <2>2 DEF NotifyFinalized, Enqueue, At
  <2>3. CASE NotifySettled(s)
    <3> PICK i : i = InvoiceOf[svc[s].tx]
      OBVIOUS
    <3>1. svc[s].pc = "settled" /\ svc[s].sum \in Nat /\ svc[s].tx \in Txs
      BY <2>3, TickFacts DEF NotifySettled, At, LocalsOK, Handling, Recomputing, TickLocals
    <3>2. Requested[i] <= svc[s].sum
      BY <3>1 DEF SumsBacked, Backed, Enough
    <3>3. i \in Invoices /\ Requested[i] \in Nat
      BY <3>1, LedgerAssumption
    <3>4. StatusFor(i, svc[s].sum) \in {"paid", "overpaid"}
      BY <3>1, <3>2, <3>3 DEF StatusFor
    <3>5. <<"payment.finished", <<i, StatusFor(i, svc[s].sum)>>>> \in events'
      BY <2>3 DEF NotifySettled, Enqueue
    <3>6. QED BY <3>1, <3>4, <3>5 DEF At
  <2>4. QED BY <1>4, <2>1, <2>2, <2>3, OwedIsSent DEF At
<1>5. CASE ~\E u \in Services : TickStep(u)
  BY <1>2, <1>5 DEF Next, vars, GrowChain, ReorgChain, CreateInvoice, ExpireInvoice
<1>6. QED BY <1>3, <1>4, <1>5

LEMMA PromotionsNext ==
  ASSUME TypeInv, SumsBacked, PromotionsAnnounced, [Next]_vars, aborts' = 0
  PROVE  PromotionsAnnounced'
<1>1. /\ payments \in [Txs -> PaymentRows] /\ svc \in [Services -> TickLocals]
      /\ invoices \in [Invoices -> InvoiceRows]
  BY DEF TypeInv, TypeOK, LedgerTypeOK
<1>2. events \subseteq events'
  BY EventsGrow
<1>3. ASSUME NEW t \in Txs, payments'[t].status = "merchant_confirmed"
      PROVE  <<"payment.confirmed", t>> \in events' \/ Announcing("confirmed", {t})'
  <2>1. CASE payments[t].status = "merchant_confirmed"
    <3>1. CASE <<"payment.confirmed", t>> \in events
      BY <1>2, <3>1
    <3>2. CASE Announcing("confirmed", {t})
      <4>1. PICK s \in Services : At(s, "confirmed") /\ svc[s].tx = t
        BY <3>2 DEF Announcing
      <4>2. QED BY <4>1, OwedStays DEF Announcing, At
    <3>3. QED BY <2>1, <3>1, <3>2 DEF PromotionsAnnounced
  <2>2. CASE payments[t].status # "merchant_confirmed"
    <3>1. PICK s \in Services : TickStep(s)
      BY <1>3, <2>2, OutsideRows
    <3>2. Confirms(s, t)
      BY <1>3, <2>2, <3>1, PromotionSteps
    <3>3. svc'[s].pc = "confirmed" /\ svc'[s].tx = t
      BY <1>1, <3>2 DEF Confirms, TickLocals
    <3>4. QED BY <3>3 DEF Announcing, At
  <2>3. QED BY <2>1, <2>2
<1>4. ASSUME NEW t \in Txs, payments'[t].status = "system_confirmed"
      PROVE  <<"payment.finalized", t>> \in events' \/ Announcing("finalized", {t})'
  <2>1. CASE payments[t].status = "system_confirmed"
    <3>1. CASE <<"payment.finalized", t>> \in events
      BY <1>2, <3>1
    <3>2. CASE Announcing("finalized", {t})
      <4>1. PICK s \in Services : At(s, "finalized") /\ svc[s].tx = t
        BY <3>2 DEF Announcing
      <4>2. QED BY <4>1, OwedStays DEF Announcing, At
    <3>3. QED BY <2>1, <3>1, <3>2 DEF PromotionsAnnounced
  <2>2. CASE payments[t].status # "system_confirmed"
    <3>1. PICK s \in Services : TickStep(s)
      BY <1>4, <2>2, OutsideRows
    <3>2. Finalizes(s, t)
      BY <1>4, <2>2, <3>1, PromotionSteps
    <3>3. svc'[s].pc = "finalized" /\ svc'[s].tx = t
      BY <1>1, <3>2 DEF Finalizes, TickLocals
    <3>4. QED BY <3>3 DEF Announcing, At
  <2>3. QED BY <2>1, <2>2
<1>5. ASSUME NEW i \in Invoices, Settled(invoices'[i].status)
      PROVE  \/ \E status \in {"paid", "overpaid"} :
                  <<"payment.finished", <<i, status>>>> \in events'
             \/ Announcing("settled", PaymentsOf(i))'
  <2>1. CASE Settled(invoices[i].status)
    <3>1. CASE \E status \in {"paid", "overpaid"} : <<"payment.finished", <<i, status>>>> \in events
      BY <1>2, <3>1
    <3>2. CASE Announcing("settled", PaymentsOf(i))
      <4>1. PICK s \in Services : At(s, "settled") /\ svc[s].tx \in PaymentsOf(i)
        BY <3>2 DEF Announcing
      <4>2. InvoiceOf[svc[s].tx] = i
        BY <4>1 DEF PaymentsOf
      <4>3. QED BY <4>1, <4>2, OwedStays DEF Announcing, At, PaymentsOf
    <3>3. QED BY <2>1, <3>1, <3>2 DEF PromotionsAnnounced
  <2>2. CASE ~Settled(invoices[i].status)
    <3>1. PICK s \in Services : SaveTotal(s) /\ i = InvoiceOf[svc[s].tx]
      BY <1>5, <2>2, InvoiceSteps
    <3>2. svc[s].tx \in Txs
      BY <3>1, TickFacts DEF SaveTotal, At, LocalsOK, Handling, Recomputing
    <3>3. Finishes(i, svc[s].sum)
      BY <1>1, <1>5, <2>2, <3>1 DEF SaveTotal, WriteTotal, Finishes, Settled, InvoiceRows
    <3>4. svc'[s].pc = "settled" /\ svc'[s].tx = svc[s].tx
      BY <1>1, <3>1, <3>3 DEF SaveTotal, TickLocals
    <3>5. QED BY <3>1, <3>2, <3>4 DEF Announcing, At, PaymentsOf
  <2>3. QED BY <2>1, <2>2
<1>6. QED BY <1>3, <1>4, <1>5 DEF PromotionsAnnounced

LEMMA AbortsStay == TypeInv /\ [Next]_vars /\ aborts' = 0 => aborts = 0
<1> SUFFICES ASSUME TypeInv, [Next]_vars, aborts' = 0 PROVE aborts = 0
  OBVIOUS
<1>1. aborts \in Nat
  BY DEF TypeInv, TypeOK
<1>2. ASSUME NEW s \in Services, TickStep(s) PROVE aborts' = aborts
  BY <1>2 DEF TickStep, LoadWatched, ReadTip, Resume, DetectFork, SelectAffected, LocateTx,
      ReorgReset, ReorgOrphan, Rewind, SkipDeadSpace, FetchChunk, StopScanning, GetBlock, GetAnchor,
      Apply, Advance, JumpGap, Recount, SelectOpen, PromoteNext, NotifyConfirmed, Finalize,
      NotifyFinalized, EndTick, ReadTotal, SaveTotal, NotifySettled
<1>3. ASSUME NEW s \in Services PROVE ~AbortTick(s)
  BY <1>1 DEF AbortTick
<1>4. QED BY <1>2, <1>3 DEF Next, vars, GrowChain, ReorgChain, CreateInvoice, ExpireInvoice

LEMMA PromotionsInvariant ==
  Spec => [](TypeInv /\ SumsBacked /\ (aborts = 0 => PromotionsAnnounced))
<1>1. Init => PromotionsAnnounced
  BY DEF Init, LedgerInit, NoPayment, PromotionsAnnounced, Settled
<1>2. TypeInv /\ SumsBacked /\ (aborts = 0 => PromotionsAnnounced) /\ [Next]_vars
        => (aborts = 0 => PromotionsAnnounced)'
  BY PromotionsNext, AbortsStay
<1>3. QED BY <1>1, <1>2, BackedInvariant, PTL DEF Spec

\* Until a tick is cut short, no payment is promoted and no invoice settled
\* without its webhook, sent or about to be, with either service running and
\* however the two are interleaved: refresh_confirmations and
\* recompute_invoice_totals send it in a transaction of their own.
THEOREM PromotionsAreAnnounced == Spec => [](aborts = 0 => PromotionsAnnounced)
  BY PromotionsInvariant, PTL
-----------------------------------------------------------------------------
(***************************************************************************)
(* What refresh_confirmations decides on.  With a single service nobody    *)
(* else writes a payment between the SELECT of the open rows and the end   *)
(* of the tick, so the rows still to handle are as the snapshot has them,  *)
(* their counters are those of the tip of the tick, and the chain has only *)
(* grown since.  With a vault there are two services, and none of the      *)
(* three theorems below holds: each may orphan or move what the other has  *)
(* selected.                                                               *)
(***************************************************************************)
OneService == \A s, u \in Services : s = u

Counted(r, row) == row.confs = Depth(r.tip, row.block)
Promoting(r) == \/ r.pc \in {"promote", "confirmed", "finalize", "finalized"}
                \/ Recomputing(r) /\ r.ret = "promote"
Fresh(r) ==
  /\ r.tip <= tip
  /\ r.pc = "select" =>
       \A t \in Txs : InvoiceOf[t] \in r.watched /\ Open(t) => Counted(r, payments[t])
  /\ Promoting(r) =>
       \A t \in r.rows : Open(t) /\ payments[t] = r.snap[t] /\ Counted(r, payments[t])
  /\ r.pc \in {"confirmed", "finalize"} =>
       /\ r.tx \notin r.rows /\ Open(r.tx)
       /\ payments[r.tx].block = r.snap[r.tx].block /\ Counted(r, r.snap[r.tx])
  /\ r.pc = "finalize" => r.snap[r.tx].confs >= FINAL_CONFIRMATIONS
RefreshInv == \A s \in Services : Fresh(svc[s])

\* Where a tick has not selected the open rows yet.
Early(r) == /\ r.pc \notin {"select", "promote", "confirmed", "finalize", "finalized"}
            /\ Recomputing(r) => r.ret # "promote"

LEMMA EarlyIsFresh ==
  ASSUME NEW r, Early(r)', r.tip <= tip'
  PROVE  Fresh(r)'
  BY DEF Early, Fresh, Promoting

LEMMA EarlySteps ==
  ASSUME TypeInv, NEW s \in Services,
         \/ LoadWatched(s) \/ ReadTip(s) \/ Resume(s) \/ DetectFork(s)
         \/ SelectAffected(s) \/ LocateTx(s) \/ ReorgReset(s) \/ ReorgOrphan(s) \/ Rewind(s)
         \/ SkipDeadSpace(s) \/ FetchChunk(s) \/ StopScanning(s) \/ GetBlock(s) \/ GetAnchor(s)
         \/ Apply(s) \/ Advance(s) \/ JumpGap(s) \/ EndTick(s) \/ AbortTick(s)
  PROVE  /\ Early(svc'[s]) /\ svc'[s].tip \in {svc[s].tip, tip, 0}
         /\ tip' = tip
<1>1. svc \in [Services -> TickLocals] /\ svc[s] \in TickLocals
  BY DEF TypeInv, TypeOK
<1>2. CASE LoadWatched(s) \/ ReadTip(s) \/ Resume(s)
  BY <1>1, <1>2 DEF LoadWatched, ReadTip, Resume, TickLocals, Early, Recomputing, chainVars
<1>3. CASE DetectFork(s)
  BY <1>1, <1>3 DEF DetectFork, TickLocals, Early, Recomputing, chainVars
<1>4. CASE SelectAffected(s)
  BY <1>1, <1>4 DEF SelectAffected, TickLocals, Early, Recomputing, chainVars
<1>5. CASE LocateTx(s)
  <2>1. PICK t, rows, found :
          svc'[s] = [svc[s] EXCEPT !.pc = "relocate", !.tx = t, !.rows = rows, !.found = found]
    <3>1. PICK t \in svc[s].rows :
            svc' = [svc EXCEPT ![s].pc = "relocate", ![s].tx = t,
                      ![s].rows = @ \ {t},
                      ![s].found = IF minedAt[t] = Unmined THEN {}
                                   ELSE SightingsOf({t}, minedAt[t])]
      BY <1>5 DEF LocateTx
    <3>2. QED BY <1>1, <3>1
  <2>2. QED BY <1>1, <1>5, <2>1 DEF LocateTx, TickLocals, Early, Recomputing, chainVars
<1>6. CASE ReorgReset(s) \/ ReorgOrphan(s)
  <2>1. svc'[s] = [svc[s] EXCEPT !.pc = "sum", !.ret = "locate", !.found = {}]
    BY <1>1, <1>6 DEF ReorgReset, ReorgOrphan, RecomputeThen
  <2>2. QED BY <1>1, <1>6, <2>1 DEF ReorgReset, ReorgOrphan, TickLocals, Early, Recomputing, chainVars
<1>7. CASE Rewind(s)
  BY <1>1, <1>7 DEF Rewind, TickLocals, Early, Recomputing, chainVars
<1>8. CASE SkipDeadSpace(s)
  BY <1>1, <1>8 DEF SkipDeadSpace, Go, TickLocals, Early, Recomputing, chainVars
<1>9. CASE FetchChunk(s)
  <2>1. PICK end, rangeEnd, found :
          svc' = [svc EXCEPT ![s].pc = "block", ![s].end = end, ![s].rangeEnd = rangeEnd,
                    ![s].found = found]
    BY <1>9, Zenon DEF FetchChunk
  <2>2. QED BY <1>1, <1>9, <2>1 DEF FetchChunk, TickLocals, Early, Recomputing, chainVars
<1>10. CASE StopScanning(s)
  BY <1>1, <1>10 DEF StopScanning, Go, TickLocals, Early, Recomputing, chainVars
<1>11. CASE GetBlock(s)
  BY <1>1, <1>11 DEF GetBlock, TickLocals, Early, Recomputing, chainVars
<1>12. CASE GetAnchor(s)
  BY <1>1, <1>12 DEF GetAnchor, TickLocals, Early, Recomputing, chainVars
<1>13. CASE Apply(s)
  <2>1. PICK f \in svc[s].todo :
          svc' = [svc EXCEPT ![s].pc = "sum", ![s].ret = "apply", ![s].tx = f.tx,
                    ![s].todo = @ \ {f}]
    BY <1>13 DEF Apply
  <2>2. svc'[s].pc = "sum" /\ svc'[s].ret = "apply" /\ svc'[s].tip = svc[s].tip
    BY <1>1, <2>1 DEF TickLocals
  <2>3. QED BY <1>13, <2>2 DEF Apply, Early, Recomputing, chainVars
<1>14. CASE Advance(s)
  BY <1>1, <1>14 DEF Advance, TickLocals, Early, Recomputing, chainVars
<1>15. CASE JumpGap(s)
  BY <1>1, <1>15 DEF JumpGap, Go, TickLocals, Early, Recomputing, chainVars
<1>16. CASE EndTick(s) \/ AbortTick(s)
  BY <1>1, <1>16 DEF EndTick, AbortTick, Idle, Early, Recomputing, chainVars
<1>17. QED BY <1>2, <1>3, <1>4, <1>5, <1>6, <1>7, <1>8, <1>9, <1>10, <1>11, <1>12, <1>13,
              <1>14, <1>15, <1>16

LEMMA RecountFresh ==
  ASSUME TypeInv, RefreshInv, NEW s \in Services, Recount(s)
  PROVE  Fresh(svc[s])'
<1>1. /\ payments \in [Txs -> PaymentRows] /\ svc \in [Services -> TickLocals]
      /\ svc[s] \in TickLocals
  BY DEF TypeInv, TypeOK, LedgerTypeOK
<1>2. /\ svc'[s].pc = "select" /\ svc'[s].tip = svc[s].tip /\ svc'[s].watched = svc[s].watched
      /\ tip' = tip
  BY <1>1 DEF Recount, TickLocals, chainVars
<1>3. ASSUME NEW t \in Txs, InvoiceOf[t] \in svc[s].watched, Open(t)'
      PROVE  payments'[t].confs = Depth(svc[s].tip, payments'[t].block)
  <2>1. payments'[t] = IF InvoiceOf[t] \in svc[s].watched /\ Open(t)
                       THEN [payments[t] EXCEPT !.confs = Depth(svc[s].tip, payments[t].block)]
                       ELSE payments[t]
    BY DEF Recount, CountConfirmations
  <2>2. Open(t)
    BY <1>3, <2>1 DEF Open
  <2>3. payments'[t] = [payments[t] EXCEPT !.confs = Depth(svc[s].tip, payments[t].block)]
    BY <1>3, <2>1, <2>2
  <2>4. QED BY <1>1, <2>3 DEF PaymentRows
<1>4. svc[s].tip <= tip
  BY DEF RefreshInv, Fresh
<1>5. QED BY <1>2, <1>3, <1>4 DEF Fresh, Promoting, Recomputing, Counted, Depth

LEMMA SelectOpenFresh ==
  ASSUME TypeInv, RefreshInv, NEW s \in Services, SelectOpen(s)
  PROVE  Fresh(svc[s])'
<1>1. svc \in [Services -> TickLocals] /\ svc[s] \in TickLocals
  BY DEF TypeInv, TypeOK
<1> DEFINE open == {t \in Txs : InvoiceOf[t] \in svc[s].watched /\ Open(t)}
           snap == [t \in Txs |-> IF t \in open THEN payments[t] ELSE NoPayment]
<1>2. svc' = [svc EXCEPT ![s].pc = "promote", ![s].rows = open, ![s].snap = snap]
  BY DEF SelectOpen
<1>3. \A t \in open : t \in Txs /\ InvoiceOf[t] \in svc[s].watched /\ Open(t)
                      /\ snap[t] = payments[t]
  OBVIOUS
<1> HIDE DEF open, snap
<1>4. /\ svc'[s].pc = "promote" /\ svc'[s].rows = open /\ svc'[s].snap = snap
      /\ svc'[s].tip = svc[s].tip
  BY <1>1, <1>2 DEF TickLocals
<1>5. UNCHANGED <<payments, tip>> /\ svc[s].pc = "select"
  BY DEF SelectOpen, ledgerVars, chainVars, At
<1>6. svc[s].tip <= tip /\ \A t \in open : Counted(svc[s], payments[t])
  BY <1>3, <1>5 DEF RefreshInv, Fresh
<1>7. QED BY <1>3, <1>4, <1>5, <1>6 DEF Fresh, Promoting, Open, Counted, Depth

LEMMA PromoteNextFresh ==
  ASSUME TypeInv, RefreshInv, NEW s \in Services, PromoteNext(s)
  PROVE  Fresh(svc[s])'
<1>1. /\ payments \in [Txs -> PaymentRows] /\ svc \in [Services -> TickLocals]
      /\ svc[s] \in TickLocals /\ svc[s].rows \subseteq Txs
  BY DEF TypeInv, TypeOK, LedgerTypeOK, TickLocals
<1>2. PICK t \in svc[s].rows :
        /\ Promote(t, DueConfirm(s, t) /\ MayConfirm(t), "merchant_confirmed")
        /\ svc' = [svc EXCEPT ![s].tx = t, ![s].rows = @ \ {t}, ![s].ret = "promote",
                     ![s].pc = IF DueConfirm(s, t) /\ MayConfirm(t) THEN "confirmed"
                               ELSE AfterConfirm(s, t)]
  BY DEF PromoteNext
<1>3. /\ svc'[s].tip = svc[s].tip /\ svc'[s].snap = svc[s].snap /\ svc'[s].tx = t
      /\ svc'[s].rows = svc[s].rows \ {t} /\ svc'[s].ret = "promote"
      /\ svc'[s].pc = IF DueConfirm(s, t) /\ MayConfirm(t) THEN "confirmed"
                      ELSE AfterConfirm(s, t)
      /\ tip' = tip /\ svc[s].pc = "promote"
  BY <1>1, <1>2 DEF PromoteNext, At, TickLocals, chainVars
<1>4. svc'[s].pc \in {"confirmed", "finalize", "sum"}
      /\ (svc'[s].pc = "finalize" => svc[s].snap[t].confs >= FINAL_CONFIRMATIONS)
  BY <1>3 DEF AfterConfirm, DueFinal
<1>5. /\ svc[s].tip <= tip
      /\ \A u \in svc[s].rows :
           Open(u) /\ payments[u] = svc[s].snap[u] /\ Counted(svc[s], payments[u])
  BY <1>3 DEF RefreshInv, Fresh, Promoting
<1>6. \A u \in svc[s].rows \ {t} : payments'[u] = payments[u]
  BY <1>1, <1>2 DEF Promote
<1>7. payments'[t].block = payments[t].block /\ Open(t)'
  <2>1. t \in Txs /\ payments[t] \in PaymentRows /\ Open(t)
    BY <1>1, <1>5
  <2>2. CASE DueConfirm(s, t) /\ MayConfirm(t)
    BY <1>1, <1>2, <2>1, <2>2 DEF Promote, PaymentRows, Open
  <2>3. CASE ~(DueConfirm(s, t) /\ MayConfirm(t))
    BY <1>2, <2>1, <2>3 DEF Promote, Open
  <2>4. QED BY <2>2, <2>3
<1>8. QED BY <1>3, <1>4, <1>5, <1>6, <1>7 DEF Fresh, Promoting, Open, Counted, Depth

LEMMA FinalizeFresh ==
  ASSUME TypeInv, RefreshInv, NEW s \in Services, Finalize(s)
  PROVE  Fresh(svc[s])'
<1>1. /\ payments \in [Txs -> PaymentRows] /\ svc \in [Services -> TickLocals]
      /\ svc[s] \in TickLocals /\ svc[s].rows \subseteq Txs
  BY DEF TypeInv, TypeOK, LedgerTypeOK, TickLocals
<1>2. /\ svc'[s].tip = svc[s].tip /\ svc'[s].snap = svc[s].snap /\ svc'[s].tx = svc[s].tx
      /\ svc'[s].rows = svc[s].rows /\ svc'[s].ret = svc[s].ret
      /\ svc'[s].pc \in {"finalized", "sum"} /\ svc[s].pc = "finalize" /\ tip' = tip
  BY <1>1 DEF Finalize, Go, At, TickLocals, chainVars
<1>3. /\ svc[s].tip <= tip
      /\ \A u \in svc[s].rows :
           Open(u) /\ payments[u] = svc[s].snap[u] /\ Counted(svc[s], payments[u])
  BY <1>2 DEF RefreshInv, Fresh, Promoting
<1>4. \A u \in svc[s].rows : payments'[u] = payments[u]
  <2>1. svc[s].tx \notin svc[s].rows
    BY <1>2 DEF RefreshInv, Fresh
  <2>2. QED BY <1>1, <2>1 DEF Finalize, Promote
<1>5. QED BY <1>2, <1>3, <1>4 DEF Fresh, Promoting, Open, Counted, Depth

\* The steps that change no payment once the rows are selected.
LEMMA OtherFresh ==
  ASSUME TypeInv, RefreshInv, NEW s \in Services,
         \/ NotifyConfirmed(s) \/ NotifyFinalized(s)
         \/ ReadTotal(s) \/ SaveTotal(s) \/ NotifySettled(s)
  PROVE  Fresh(svc[s])'
<1>1. svc \in [Services -> TickLocals] /\ svc[s] \in TickLocals
  BY DEF TypeInv, TypeOK
<1>2. UNCHANGED <<payments, tip>>
  BY DEF NotifyConfirmed, NotifyFinalized, ReadTotal, SaveTotal, WriteTotal, NotifySettled,
         ledgerVars, chainVars
<1> DEFINE Kept ==
      /\ svc'[s].tip = svc[s].tip /\ svc'[s].snap = svc[s].snap /\ svc'[s].tx = svc[s].tx
      /\ svc'[s].rows = svc[s].rows
      /\ Early(svc'[s]) \/ Promoting(svc[s])
      /\ svc'[s].pc \notin {"select", "confirmed"}
      /\ svc'[s].pc = "finalize" =>
           svc[s].pc = "confirmed" /\ svc[s].snap[svc[s].tx].confs >= FINAL_CONFIRMATIONS
<1>3. Kept
  <2>1. CASE NotifyConfirmed(s)
    <3>1. svc'[s] = [svc[s] EXCEPT !.pc = AfterConfirm(s, svc[s].tx)] /\ svc[s].pc = "confirmed"
      BY <1>1, <2>1 DEF NotifyConfirmed, Go, At
    <3>2. /\ AfterConfirm(s, svc[s].tx) \in {"finalize", "sum"}
          /\ AfterConfirm(s, svc[s].tx) = "finalize"
               => svc[s].snap[svc[s].tx].confs >= FINAL_CONFIRMATIONS
      BY DEF AfterConfirm, DueFinal
    <3>3. QED BY <1>1, <3>1, <3>2 DEF Promoting, TickLocals
  <2>2. CASE NotifyFinalized(s)
    BY <1>1, <2>2 DEF NotifyFinalized, Go, At, Promoting, TickLocals
  <2>3. CASE ReadTotal(s)
    BY <1>1, <2>3 DEF ReadTotal, At, Promoting, Early, Recomputing, TickLocals
  <2>4. ASSUME svc' = [svc EXCEPT ![s].pc = svc[s].ret, ![s].sum = 0, ![s].ret = "idle"],
               Recomputing(svc[s])
        PROVE  Kept
    <3>1. svc[s].ret \in {"locate", "apply", "promote"}
      BY <2>4, TickFacts DEF LocalsOK
    <3>2. QED BY <1>1, <2>4, <3>1 DEF Promoting, Early, Recomputing, TickLocals
  <2>5. CASE SaveTotal(s)
    <3>1. CASE Finishes(InvoiceOf[svc[s].tx], svc[s].sum)
      BY <1>1, <2>5, <3>1 DEF SaveTotal, At, Promoting, Early, Recomputing, TickLocals
    <3>2. CASE ~Finishes(InvoiceOf[svc[s].tx], svc[s].sum)
      BY <2>4, <2>5, <3>2 DEF SaveTotal, At, Recomputing
    <3>3. QED BY <3>1, <3>2
  <2>6. CASE NotifySettled(s)
    BY <2>4, <2>6 DEF NotifySettled, At, Recomputing
  <2>7. QED BY <2>1, <2>2, <2>3, <2>5, <2>6
<1>4. Fresh(svc[s])
  BY DEF RefreshInv
<1>5. CASE Early(svc'[s])
  BY <1>2, <1>3, <1>4, <1>5 DEF Early, Fresh, Promoting, Recomputing
<1>6. CASE Promoting(svc[s])
  BY <1>2, <1>3, <1>4, <1>6 DEF Fresh, Open, Counted, Depth
<1>7. QED BY <1>3, <1>5, <1>6

LEMMA RefreshNext ==
  ASSUME OneService, TypeInv, RefreshInv, [Next]_vars
  PROVE  RefreshInv'
<1>1. /\ tip \in Nat /\ \A s \in Services : svc[s].tip <= tip /\ svc[s].tip \in Nat
  BY ChainAssumption DEF TypeInv, TypeOK, ChainTypeOK, TickLocals, Heights, RefreshInv, Fresh
<1>2. ASSUME NEW s \in Services, TickStep(s) \/ AbortTick(s)
      PROVE  Fresh(svc[s])'
  <2>1. CASE \/ LoadWatched(s) \/ ReadTip(s) \/ Resume(s) \/ DetectFork(s)
             \/ SelectAffected(s) \/ LocateTx(s) \/ ReorgReset(s) \/ ReorgOrphan(s) \/ Rewind(s)
             \/ SkipDeadSpace(s) \/ FetchChunk(s) \/ StopScanning(s) \/ GetBlock(s) \/ GetAnchor(s)
             \/ Apply(s) \/ Advance(s) \/ JumpGap(s) \/ EndTick(s) \/ AbortTick(s)
    <3>1. Early(svc'[s]) /\ svc'[s].tip <= tip'
      BY <1>1, <2>1, EarlySteps
    <3>2. QED BY <3>1 DEF Early, Fresh, Promoting, Recomputing
  <2>2. CASE Recount(s) \/ SelectOpen(s) \/ PromoteNext(s) \/ Finalize(s)
    BY <2>2, RecountFresh, SelectOpenFresh, PromoteNextFresh, FinalizeFresh
  <2>3. CASE \/ NotifyConfirmed(s) \/ NotifyFinalized(s)
             \/ ReadTotal(s) \/ SaveTotal(s) \/ NotifySettled(s)
    BY <2>3, OtherFresh
  <2>4. QED BY <1>2, <2>1, <2>2, <2>3 DEF TickStep
<1>3. CASE \E s \in Services : TickStep(s) \/ AbortTick(s)
  BY <1>2, <1>3 DEF OneService, RefreshInv
<1>4. CASE GrowChain \/ ReorgChain \/ CreateInvoice \/ ExpireInvoice \/ UNCHANGED vars
  <2>1. svc' = svc /\ payments' = payments /\ tip' \in {tip, tip + 1}
    BY <1>4 DEF GrowChain, MineBlock, ReorgChain, Reorganise, CreateInvoice, RegisterInvoice,
               ExpireInvoice, PassExpiry, vars, chainVars, ledgerVars
  <2>2. ASSUME NEW s \in Services PROVE Fresh(svc[s])'
    <3>1. Fresh(svc[s]) /\ svc[s].tip <= tip'
      BY <1>1, <2>1 DEF RefreshInv
    <3>2. QED BY <2>1, <3>1 DEF Fresh, Promoting, Recomputing, Open, Counted, Depth
  <2>3. QED BY <2>1, <2>2 DEF RefreshInv
<1>5. QED BY <1>3, <1>4 DEF Next

LEMMA RefreshInvariant ==
  ASSUME OneService
  PROVE  Spec => [](TypeInv /\ RefreshInv)
<1>1. Init => RefreshInv
  BY DEF Init, ChainInit, Idle, RefreshInv, Fresh, Promoting, Recomputing
<1>2. TypeInv /\ RefreshInv /\ [Next]_vars => RefreshInv'
  BY RefreshNext
<1>3. QED BY <1>1, <1>2, TypeInvariant, PTL DEF Spec

\* With one service, a payment is only promoted when its block is as deep as
\* the promotion asks for, in the chain of that moment, although the tip was
\* read, and the row selected, many awaits ago.
THEOREM PromotionsAreDeep ==
  ASSUME OneService
  PROVE  Spec => PromotionIsDeep
<1>1. ASSUME TypeInv, RefreshInv, [Next]_vars, NEW t \in Txs,
             payments'[t].status # payments[t].status
      PROVE  /\ payments'[t].status = "merchant_confirmed"
                  => Depth(tip, payments[t].block) >= Required[InvoiceOf[t]]
             /\ payments'[t].status = "system_confirmed"
                  => Depth(tip, payments[t].block) >= FINAL_CONFIRMATIONS
  <2>1. PICK s \in Services : TickStep(s)
    BY <1>1, OutsideRows
  <2>2. /\ svc[s].tip \in Nat /\ tip \in Nat /\ svc[s].tip <= tip
        /\ payments[t].block \in Nat
        /\ InvoiceOf[t] \in Invoices /\ Required[InvoiceOf[t]] \in Nat
        /\ FINAL_CONFIRMATIONS \in Nat
    BY <1>1, ChainAssumption, LedgerAssumption
       DEF TypeInv, TypeOK, ChainTypeOK, LedgerTypeOK, PaymentRows, TickLocals, Heights,
           RefreshInv, Fresh
  <2>3. /\ Depth(svc[s].tip, payments[t].block) <= Depth(tip, payments[t].block)
        /\ Depth(svc[s].tip, payments[t].block) \in Nat /\ Depth(tip, payments[t].block) \in Nat
    BY <2>2 DEF Depth
  <2>4. ASSUME Confirms(s, t)
        PROVE  Depth(svc[s].tip, payments[t].block) >= Required[InvoiceOf[t]]
    <3>1. svc[s].pc = "promote" /\ t \in svc[s].rows
      BY <2>4 DEF Confirms, PromoteNext, At
    <3>2. payments[t] = svc[s].snap[t] /\ Counted(svc[s], payments[t])
      BY <1>1, <3>1 DEF RefreshInv, Fresh, Promoting
    <3>3. QED BY <2>4, <3>2 DEF Confirms, DueConfirm, Counted
  <2>5. ASSUME Finalizes(s, t)
        PROVE  Depth(svc[s].tip, payments[t].block) >= FINAL_CONFIRMATIONS
    BY <1>1, <2>5 DEF Finalizes, Finalize, At, RefreshInv, Fresh, Counted
  <2>6. QED BY <1>1, <2>1, <2>2, <2>3, <2>4, <2>5, PromotionSteps
<1>2. TypeInv /\ RefreshInv /\ [Next]_vars
        => [\A t \in Txs :
              /\ Becomes(t, "merchant_confirmed")
                   => Depth(tip, payments[t].block) >= Required[InvoiceOf[t]]
              /\ Becomes(t, "system_confirmed")
                   => Depth(tip, payments[t].block) >= FINAL_CONFIRMATIONS]_vars
  BY <1>1 DEF Becomes
<1>3. QED BY <1>2, RefreshInvariant, PTL DEF Spec, PromotionIsDeep
-----------------------------------------------------------------------------
(***************************************************************************)
(* The order of the two webhooks.  Required is below FINAL_CONFIRMATIONS   *)
(* for every token of the repository (at most 12 against 48), so a payment *)
(* due for the last promotion is also due for the first.                   *)
(***************************************************************************)
RequiredFirst == \A i \in Invoices : Required[i] <= FINAL_CONFIRMATIONS

\* Only NotifyFinalized sends payment.finalized.
LEMMA FinalizedNews ==
  ASSUME TypeInv, [Next]_vars, NEW t,
         <<"payment.finalized", t>> \in events', <<"payment.finalized", t>> \notin events
  PROVE  \E s \in Services : NotifyFinalized(s) /\ t = svc[s].tx
<1> DEFINE e == <<"payment.finalized", t>>
<1>1. ASSUME NEW type, NEW suffix, type # "payment.finalized", Enqueue(type, suffix)
      PROVE  FALSE
  BY <1>1 DEF Enqueue
<1>2. ASSUME NEW s \in Services, TickStep(s) PROVE NotifyFinalized(s)
  <2>1. CASE LoadWatched(s) \/ ReadTip(s) \/ Resume(s) \/ DetectFork(s)
    BY <2>1 DEF LoadWatched, ReadTip, Resume, DetectFork, ledgerVars
  <2>2. CASE SelectAffected(s) \/ LocateTx(s) \/ Rewind(s) \/ SkipDeadSpace(s) \/ FetchChunk(s)
    BY <2>2 DEF SelectAffected, LocateTx, Rewind, SkipDeadSpace, FetchChunk, ledgerVars
  <2>3. CASE StopScanning(s) \/ GetBlock(s) \/ GetAnchor(s) \/ Advance(s) \/ JumpGap(s)
    BY <2>3 DEF StopScanning, GetBlock, GetAnchor, Advance, JumpGap, ledgerVars
  <2>4. CASE SelectOpen(s) \/ EndTick(s) \/ ReadTotal(s)
    BY <2>4 DEF SelectOpen, EndTick, ReadTotal, ledgerVars
  <2>5. CASE NotifyConfirmed(s) \/ NotifySettled(s)
    BY <1>1, <2>5 DEF NotifyConfirmed, NotifySettled
  <2>6. CASE SaveTotal(s) \/ Recount(s) \/ PromoteNext(s) \/ Finalize(s)
    BY <2>6 DEF SaveTotal, WriteTotal, Recount, CountConfirmations, PromoteNext, Finalize, Promote
  <2>7. CASE ReorgReset(s)
    BY <2>7 DEF ReorgReset, ResetPayment
  <2>8. CASE ReorgOrphan(s)
    BY <1>1, <2>8 DEF ReorgOrphan, OrphanPayment
  <2>9. CASE Apply(s)
    <3>1. PICK f : InsertPayment(f.tx, f.block, f.hash) \/ RelocatePayment(f.tx, f.block, f.hash)
      BY <2>9 DEF Apply
    <3>2. QED BY <1>1, <3>1 DEF InsertPayment, RelocatePayment
  <2>10. QED BY <1>2, <2>1, <2>2, <2>3, <2>4, <2>5, <2>6, <2>7, <2>8, <2>9 DEF TickStep
<1>3. CASE ~\E s \in Services : TickStep(s)
  BY <1>3 DEF Next, vars, ledgerVars, AbortTick, GrowChain, ReorgChain, CreateInvoice,
              RegisterInvoice, ExpireInvoice, PassExpiry
<1>4. ASSUME NEW s \in Services, NotifyFinalized(s) PROVE t = svc[s].tx
  BY <1>4 DEF NotifyFinalized, Enqueue
<1>5. QED BY <1>2, <1>3, <1>4

\* A tick on its way to payment.finalized has sent payment.confirmed.
ConfirmedFirst ==
  \A s \in Services : svc[s].pc \in {"finalize", "finalized"}
                        => <<"payment.confirmed", svc[s].tx>> \in events

LEMMA OnlyPromotionsFinalize ==
  ASSUME TypeInv, NEW s \in Services, TickStep(s) \/ AbortTick(s),
         svc'[s].pc \in {"finalize", "finalized"}
  PROVE  PromoteNext(s) \/ NotifyConfirmed(s) \/ Finalize(s)
<1>1. svc \in [Services -> TickLocals] /\ svc[s] \in TickLocals
  BY DEF TypeInv, TypeOK
<1>2. ASSUME Early(svc'[s]) PROVE FALSE
  BY <1>2 DEF Early
<1>3. ~Recount(s) /\ ~ReadTotal(s)
  BY <1>1 DEF Recount, ReadTotal, TickLocals
<1>4. ASSUME SelectOpen(s) PROVE FALSE
  <2>1. PICK open, snap :
          svc' = [svc EXCEPT ![s].pc = "promote", ![s].rows = open, ![s].snap = snap]
    BY <1>4, Zenon DEF SelectOpen
  <2>2. QED BY <1>1, <2>1 DEF TickLocals
<1>5. ~NotifyFinalized(s)
  BY <1>1 DEF NotifyFinalized, Go, TickLocals
<1>6. ~SaveTotal(s) /\ ~NotifySettled(s)
  <2>1. Recomputing(svc[s]) => svc[s].ret \in {"locate", "apply", "promote"}
    BY TickFacts DEF LocalsOK
  <2>2. SaveTotal(s) \/ NotifySettled(s) => Recomputing(svc[s])
    BY DEF SaveTotal, NotifySettled, At, Recomputing
  <2>3. SaveTotal(s) \/ NotifySettled(s) => svc'[s].pc \in {"settled", svc[s].ret}
    BY <1>1 DEF SaveTotal, NotifySettled, TickLocals
  <2>4. QED BY <2>1, <2>2, <2>3
<1>7. QED BY <1>2, <1>3, <1>4, <1>5, <1>6, EarlySteps DEF TickStep

LEMMA ConfirmedFirstNext ==
  ASSUME OneService, RequiredFirst, TypeInv, RefreshInv, PromotionsAnnounced, ConfirmedFirst,
         [Next]_vars
  PROVE  ConfirmedFirst'
<1>1. events \subseteq events' /\ svc \in [Services -> TickLocals]
  BY EventsGrow DEF TypeInv, TypeOK
<1>2. ASSUME NEW s \in Services, svc'[s] = svc[s], svc[s].pc \in {"finalize", "finalized"}
      PROVE  <<"payment.confirmed", svc'[s].tx>> \in events'
  BY <1>1, <1>2 DEF ConfirmedFirst
<1>3. ASSUME NEW s \in Services, TickStep(s) \/ AbortTick(s),
             svc'[s].pc \in {"finalize", "finalized"}
      PROVE  <<"payment.confirmed", svc'[s].tx>> \in events'
  <2>1. CASE NotifyConfirmed(s)
    <3>1. svc'[s].tx = svc[s].tx
      BY <1>1, <2>1 DEF NotifyConfirmed, Go, TickLocals
    <3>2. QED BY <2>1, <3>1 DEF NotifyConfirmed, Enqueue
  <2>2. CASE Finalize(s)
    <3>1. svc'[s].tx = svc[s].tx /\ svc[s].pc = "finalize"
      BY <1>1, <2>2 DEF Finalize, Go, At, TickLocals
    <3>2. QED BY <1>1, <3>1 DEF ConfirmedFirst
  <2>3. CASE PromoteNext(s)
    <3>1. PICK t \in svc[s].rows :
            svc' = [svc EXCEPT ![s].tx = t, ![s].rows = @ \ {t}, ![s].ret = "promote",
                      ![s].pc = IF DueConfirm(s, t) /\ MayConfirm(t) THEN "confirmed"
                                ELSE AfterConfirm(s, t)]
      BY <2>3 DEF PromoteNext
    <3>2. /\ svc'[s].tx = t /\ svc[s].pc = "promote" /\ t \in Txs
          /\ svc'[s].pc = IF DueConfirm(s, t) /\ MayConfirm(t) THEN "confirmed"
                          ELSE AfterConfirm(s, t)
      BY <1>1, <2>3, <3>1 DEF PromoteNext, At, TickLocals
    <3>3. ~(DueConfirm(s, t) /\ MayConfirm(t)) /\ DueFinal(s, t)
      BY <1>3, <3>2 DEF AfterConfirm
    <3>4. Open(t) /\ payments[t] = svc[s].snap[t]
      BY <3>2 DEF RefreshInv, Fresh, Promoting
    <3>5. CASE payments[t].status = "detected"
      <4>1. /\ svc[s].snap[t].confs \in Nat /\ Required[InvoiceOf[t]] \in Nat
            /\ FINAL_CONFIRMATIONS \in Nat /\ Required[InvoiceOf[t]] <= FINAL_CONFIRMATIONS
        BY <3>2, <3>4, ChainAssumption, LedgerAssumption
           DEF TypeInv, TypeOK, LedgerTypeOK, PaymentRows, RequiredFirst
      <4>2. svc[s].snap[t].confs >= Required[InvoiceOf[t]]
        BY <3>3, <4>1 DEF DueFinal
      <4>3. QED BY <3>3, <3>4, <3>5, <4>2 DEF DueConfirm, MayConfirm
    <3>6. CASE payments[t].status = "merchant_confirmed"
      <4>1. ~Announcing("confirmed", {t})
        BY <3>2 DEF OneService, Announcing, At
      <4>2. QED BY <1>1, <3>2, <3>6, <4>1 DEF PromotionsAnnounced
    <3>7. QED BY <3>4, <3>5, <3>6 DEF Open
  <2>4. QED BY <1>3, <2>1, <2>2, <2>3, OnlyPromotionsFinalize
<1>4. CASE \E s \in Services : TickStep(s) \/ AbortTick(s)
  BY <1>3, <1>4 DEF OneService, ConfirmedFirst
<1>5. CASE GrowChain \/ ReorgChain \/ CreateInvoice \/ ExpireInvoice \/ UNCHANGED vars
  <2>1. svc' = svc
    BY <1>5 DEF GrowChain, ReorgChain, CreateInvoice, ExpireInvoice, vars
  <2>2. QED BY <1>2, <2>1 DEF ConfirmedFirst
<1>6. QED BY <1>4, <1>5 DEF Next

LEMMA OrderNext ==
  ASSUME TypeInv, ConfirmedFirst, ConfirmedBeforeFinalized, [Next]_vars
  PROVE  ConfirmedBeforeFinalized'
<1>1. events \subseteq events'
  BY EventsGrow
<1>2. ASSUME NEW t \in Txs, <<"payment.finalized", t>> \in events'
      PROVE  <<"payment.confirmed", t>> \in events'
  <2>1. CASE <<"payment.finalized", t>> \in events
    BY <1>1, <2>1 DEF ConfirmedBeforeFinalized
  <2>2. CASE <<"payment.finalized", t>> \notin events
    <3>1. PICK s \in Services : NotifyFinalized(s) /\ t = svc[s].tx
      BY <1>2, <2>2, FinalizedNews
    <3>2. QED BY <1>1, <3>1 DEF NotifyFinalized, At, ConfirmedFirst
  <2>3. QED BY <2>1, <2>2
<1>3. QED BY <1>2 DEF ConfirmedBeforeFinalized

OrderInv == ConfirmedFirst /\ ConfirmedBeforeFinalized

LEMMA OrderInvNext ==
  ASSUME OneService, RequiredFirst, TypeInv, RefreshInv, PromotionsAnnounced, OrderInv,
         [Next]_vars
  PROVE  OrderInv'
  BY ConfirmedFirstNext, OrderNext DEF OrderInv

\* With one service, and until a tick is cut short, a merchant who is sent
\* payment.finalized was sent payment.confirmed before: also when the counter
\* passes both thresholds at once, after a reorganisation or a late scan.
THEOREM ConfirmedComesFirst ==
  ASSUME OneService, RequiredFirst
  PROVE  Spec => [](aborts = 0 => ConfirmedBeforeFinalized)
<1>1. Init => OrderInv
  BY DEF Init, LedgerInit, Idle, OrderInv, ConfirmedFirst, ConfirmedBeforeFinalized
<1>2. TypeInv /\ RefreshInv /\ (aborts = 0 => PromotionsAnnounced) /\ (aborts = 0 => OrderInv)
      /\ [Next]_vars
        => (aborts = 0 => OrderInv)'
  BY OrderInvNext, AbortsStay
<1>3. OrderInv => ConfirmedBeforeFinalized
  BY DEF OrderInv
<1>4. QED BY <1>1, <1>2, <1>3, RefreshInvariant, PromotionsInvariant, PTL DEF Spec
=============================================================================
