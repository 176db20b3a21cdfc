------------------------------- MODULE SolProofs -------------------------------
(***************************************************************************)
(* SolWatcher for every value of its constants.  Type correctness; the two *)
(* promises of reconcile_statuses, that neither finality nor an orphaning  *)
(* is ever announced of a transaction the cluster may still take           *)
(* elsewhere; what payment.finished says; and that a merchant is told of   *)
(* every change.  A lemma on a step of a tick shows what record r the step *)
(* leaves in tick and leaves the rest to TickMoves.                        *)
(***************************************************************************)
EXTENDS SolWatcher, TLAPS, FiniteSetTheorems

(***************************************************************************)
(* The inductive invariant behind SolTypeOK: a tick adds to todo an        *)
(* invoice of a row or an answer it holds, so those must be of watched     *)
(* invoices, and there are none before the watch set is loaded.            *)
(***************************************************************************)
CursorRows == [Addresses -> [tx : Txs \cup {NoTx}, slot : Slots]]

Fits(r) ==
  /\ r.pc # "expired" => r.todo \subseteq r.watched
  /\ \A p \in r.rows : p[1] \in r.watched
  /\ \A v \in r.answers : v.pay[1] \in r.watched
  /\ r.pc \in {"idle", "expired"} => r.rows = {} /\ r.answers = {}

TypeInv == SolTypeOK /\ Fits(tick)

LEMMA ConstantFacts ==
  /\ MaxSlot \in Nat /\ Slots = 0 .. MaxSlot /\ Nowhere = 0 /\ Nowhere \in Slots
  /\ \A S \in SUBSET Txs : Value[S] \in Nat
  BY ChainAssumption, SolLedgerAssumption DEF Slots, Nowhere

LEMMA SightingsFinite == IsFiniteSet(Sightings)
<1> DEFINE T == Txs \X (Slots \X BOOLEAN)
           f == [s \in Sightings |-> <<s.tx, <<s.slot, s.failed>>>>]
<1>1. IsFiniteSet(Slots)
  BY FS_Interval, ConstantFacts
<1>2. IsFiniteSet(BOOLEAN)
  <2>1. IsFiniteSet({TRUE}) /\ IsFiniteSet({TRUE} \cup {FALSE})
    BY FS_EmptySet, FS_AddElement, FS_Singleton
  <2>2. QED BY <2>1
<1>3. IsFiniteSet(Slots \X BOOLEAN)
  BY <1>1, <1>2, FS_Product
<1>4. IsFiniteSet(T)
  BY <1>3, ChainAssumption, FS_Product
<1>5. f \in [Sightings -> T]
  BY DEF Sightings
<1>6. \A s, u \in Sightings : f[s] = f[u] => s = u
  BY DEF Sightings
<1>7. f \in Injection(Sightings, T)
  BY <1>5, <1>6 DEF Injection, IsInjective
<1>8. QED BY <1>4, <1>7, FS_Injection

LEMMA FiniteSightings ==
  ASSUME NEW S, S \subseteq Sightings
  PROVE  IsFiniteSet(S) /\ Cardinality(S) \in Nat
  BY SightingsFinite, FS_Subset, FS_CardinalityType

-----------------------------------------------------------------------------
\* What a step of a tick has to show.
LEMMA TickMoves ==
  ASSUME TypeInv, NEW r \in TickLocals, tick' = r, Fits(r),
         LedgerTypeOK', cursors' \in CursorRows, lapses' \in 0 .. MaxLapses,
         UNCHANGED <<chainVars, aborts>>
  PROVE  TypeInv'
<1>1. ChainTypeOK'
  BY DEF TypeInv, SolTypeOK, ChainTypeOK, chainVars
<1>2. Fits(tick)'
  BY DEF Fits
<1>3. SolTypeOK'
  BY <1>1, <1>2 DEF TypeInv, SolTypeOK, CursorRows, Fits
<1>4. QED BY <1>2, <1>3 DEF TypeInv

\* A step that only changes the tick's memory.
LEMMA MemoryMoves ==
  ASSUME TypeInv, NEW r \in TickLocals, tick' = r, Fits(r),
         UNCHANGED <<chainVars, ledgerVars, cursors, lapses, aborts>>
  PROVE  TypeInv'
<1>1. LedgerTypeOK'
  BY DEF TypeInv, SolTypeOK, LedgerTypeOK, ledgerVars
<1>2. cursors' \in CursorRows /\ lapses' \in 0 .. MaxLapses
  BY DEF TypeInv, SolTypeOK, CursorRows
<1>3. QED BY <1>1, <1>2, TickMoves

\* What the steps start from.
LEMMA TickFacts ==
  ASSUME TypeInv
  PROVE  /\ tick \in TickLocals /\ Fits(tick)
         /\ ChainTypeOK /\ LedgerTypeOK /\ cursors \in CursorRows
         /\ lapses \in 0 .. MaxLapses
  BY DEF TypeInv, SolTypeOK, CursorRows

LEMMA IdleType == Idle \in TickLocals /\ Fits(Idle)
<1>1. Nowhere \in Slots
  BY ConstantFacts
<1>2. QED BY <1>1 DEF Idle, TickLocals, Steps, NoScan, Fits
-----------------------------------------------------------------------------
\* Expiry and the watch set.

LEMMA ExpireInvoicesType ==
  ASSUME TypeInv, ExpireInvoices
  PROVE  TypeInv'
<1> DEFINE r == [tick EXCEPT !.pc = "expired", !.todo = {i \in Invoices : Due(i)}]
<1>1. tick' = r
  BY DEF ExpireInvoices
<1>2. r \in TickLocals
  BY TickFacts DEF TickLocals, Steps
<1>3. Fits(r)
  BY TickFacts DEF Fits, TickLocals, ExpireInvoices, At
<1>4. LedgerTypeOK'
  <2>1. invoices' \in [Invoices -> InvoiceRows]
    BY TickFacts DEF ExpireInvoices, MarkExpired, LedgerTypeOK, InvoiceRows, InvoiceStatuses
  <2>2. QED BY <2>1, TickFacts DEF ExpireInvoices, MarkExpired, LedgerTypeOK
<1> HIDE DEF r
<1>5. QED BY <1>1, <1>2, <1>3, <1>4, TickFacts, TickMoves DEF ExpireInvoices

LEMMA AnnounceExpiredType ==
  ASSUME TypeInv, AnnounceExpired
  PROVE  TypeInv'
<1>1. PICK i \in tick.todo : /\ events' = events \cup {<<"invoice.expired", i>>}
                             /\ tick' = [tick EXCEPT !.todo = @ \ {i}]
  BY DEF AnnounceExpired
<1> DEFINE r == [tick EXCEPT !.todo = @ \ {i}]
<1>2. i \in Invoices
  BY TickFacts DEF TickLocals
<1>3. r \in TickLocals
  BY TickFacts DEF TickLocals
<1>4. Fits(r)
  BY TickFacts DEF Fits, TickLocals
<1>5. LedgerTypeOK'
  BY <1>1, <1>2, TickFacts DEF AnnounceExpired, LedgerTypeOK, Events
<1> HIDE DEF r
<1>6. tick' = r
  BY <1>1 DEF r
<1>7. QED BY <1>3, <1>4, <1>5, <1>6, TickFacts, TickMoves DEF AnnounceExpired

LEMMA LoadWatchedType ==
  ASSUME TypeInv, LoadWatched
  PROVE  TypeInv'
<1>1. CASE WatchedInvoices = {}
  BY <1>1, IdleType, MemoryMoves DEF LoadWatched
<1>2. CASE WatchedInvoices # {}
  <2> DEFINE r == [tick EXCEPT !.pc = "root", !.watched = WatchedInvoices]
  <2>1. WatchedInvoices \in SUBSET Invoices
    BY DEF WatchedInvoices
  <2>2. r \in TickLocals
    BY <2>1, TickFacts DEF TickLocals, Steps
  <2>3. Fits(r)
    BY TickFacts DEF Fits, TickLocals, LoadWatched, At
  <2>4. tick' = r
    BY <1>2 DEF LoadWatched
  <2> HIDE DEF r
  <2>5. QED BY <2>2, <2>3, <2>4, MemoryMoves DEF LoadWatched
<1>3. QED BY <1>1, <1>2

LEMMA ReadRootType ==
  ASSUME TypeInv, ReadRoot
  PROVE  TypeInv'
<1> DEFINE r == [tick EXCEPT !.pc = "feeds", !.root = root, !.feeds = AddressesOf(tick.watched)]
<1>1. AddressesOf(tick.watched) \in SUBSET Addresses
  BY TickFacts, SolWatcherAssumption DEF AddressesOf, TickLocals
<1>2. root \in Slots
  BY TickFacts, ConstantFacts DEF ChainTypeOK
<1>3. r \in TickLocals
  BY <1>1, <1>2, TickFacts DEF TickLocals, Steps
<1>4. Fits(r)
  BY TickFacts DEF Fits, TickLocals, ReadRoot, At
<1>5. tick' = r
  BY DEF ReadRoot
<1> HIDE DEF r
<1>6. QED BY <1>3, <1>4, <1>5, MemoryMoves DEF ReadRoot
-----------------------------------------------------------------------------
\* Discovery.

LEMMA ScanType ==
  ASSUME TypeInv, NEW a \in Addresses
  PROVE  Scan(a) \in [sigs : SUBSET Sightings, complete : BOOLEAN]
<1>1. Newest(Feed(a)) \subseteq Txs
  BY DEF Newest, Feed
<1>2. \A t \in Txs : Sighting(t) \in Sightings
  BY TickFacts, ConstantFacts DEF Sighting, Sightings, ChainTypeOK
<1>3. {Sighting(t) : t \in Newest(Feed(a))} \in SUBSET Sightings
  BY <1>1, <1>2
<1>4. QED BY <1>3 DEF Scan

LEMMA DiscoverSignaturesType ==
  ASSUME TypeInv, DiscoverSignatures
  PROVE  TypeInv'
<1>1. PICK a \in tick.feeds :
        tick' = [tick EXCEPT !.feeds = @ \ {a}, !.scans[a] = Scan(a),
                  !.sigs = @ \cup {s \in Scan(a).sigs : \A r \in @ : r.tx # s.tx}]
  BY DEF DiscoverSignatures
<1> DEFINE more == tick.sigs \cup {s \in Scan(a).sigs : \A u \in tick.sigs : u.tx # s.tx}
           r == [tick EXCEPT !.feeds = @ \ {a}, !.scans = [@ EXCEPT ![a] = Scan(a)],
                  !.sigs = more]
<1>2. a \in Addresses
  BY TickFacts DEF TickLocals
<1>3. tick' = r
  BY <1>1
<1>4. Scan(a) \in [sigs : SUBSET Sightings, complete : BOOLEAN]
  BY <1>2, ScanType
<1>5. more \in SUBSET Sightings
  BY <1>4, TickFacts DEF TickLocals
<1> HIDE DEF more
<1>6. r \in TickLocals
  BY <1>2, <1>4, <1>5, TickFacts DEF TickLocals
<1>7. Fits(r)
  BY TickFacts DEF Fits, TickLocals
<1> HIDE DEF r
<1>8. QED BY <1>3, <1>6, <1>7, MemoryMoves DEF DiscoverSignatures

LEMMA ScanFailsType ==
  ASSUME TypeInv, ScanFails
  PROVE  TypeInv'
<1>1. PICK a \in tick.feeds : tick' = [tick EXCEPT !.feeds = @ \ {a}]
  BY DEF ScanFails
<1> DEFINE r == [tick EXCEPT !.feeds = @ \ {a}]
<1>2. r \in TickLocals /\ Fits(r)
  BY TickFacts DEF Fits, TickLocals
<1>3. LedgerTypeOK' /\ cursors' \in CursorRows
  BY TickFacts DEF ScanFails, LedgerTypeOK, ledgerVars
<1>4. lapses' \in 0 .. MaxLapses
  BY TickFacts, SolWatcherAssumption DEF ScanFails
<1> HIDE DEF r
<1>5. tick' = r
  BY <1>1 DEF r
<1>6. QED BY <1>2, <1>3, <1>4, <1>5, TickMoves DEF ScanFails

LEMMA SkipBookedType ==
  ASSUME TypeInv, SkipBooked
  PROVE  TypeInv'
<1> DEFINE known == {s \in tick.sigs : Known(s.tx)}
           fresh == {s \in tick.sigs \ known : ~s.failed}
           done == {s.tx : s \in known}
           r == [tick EXCEPT !.pc = "fetch", !.applied = done, !.sigs = fresh]
<1>1. tick' = r
  BY DEF SkipBooked
<1>2. fresh \in SUBSET Sightings /\ done \in SUBSET Txs
  BY TickFacts DEF TickLocals, Sightings
<1> HIDE DEF fresh, done
<1>3. r \in TickLocals
  BY <1>2, TickFacts DEF TickLocals, Steps
<1>4. Fits(r)
  BY TickFacts DEF Fits, TickLocals, SkipBooked, At
<1> HIDE DEF r
<1>5. QED BY <1>1, <1>3, <1>4, MemoryMoves DEF SkipBooked
-----------------------------------------------------------------------------
\* Bodies.

LEMMA FetchBatchType ==
  ASSUME TypeInv, FetchBatch
  PROVE  TypeInv'
<1>1. PICK chunk \in SUBSET tick.sigs :
        \E lost \in SUBSET {s \in chunk : landed[s.tx] # Nowhere} :
            LET got == {s \in chunk \ lost : landed[s.tx] # Nowhere}
            IN  /\ lapses + Cardinality(lost) <= MaxLapses
                /\ lapses' = lapses + Cardinality(lost)
                /\ tick' = [tick EXCEPT !.sigs = @ \ chunk,
                     !.bodies = {[tx |-> s.tx, listed |-> s.slot, slot |-> landed[s.tx]] :
                                   s \in {g \in got : ~failed[g.tx]}},
                     !.applied = @ \cup {s.tx : s \in {g \in got : failed[g.tx]}}]
  BY DEF FetchBatch
<1>2. PICK lost \in SUBSET {s \in chunk : landed[s.tx] # Nowhere} :
            LET got == {s \in chunk \ lost : landed[s.tx] # Nowhere}
            IN  /\ lapses + Cardinality(lost) <= MaxLapses
                /\ lapses' = lapses + Cardinality(lost)
                /\ tick' = [tick EXCEPT !.sigs = @ \ chunk,
                     !.bodies = {[tx |-> s.tx, listed |-> s.slot, slot |-> landed[s.tx]] :
                                   s \in {g \in got : ~failed[g.tx]}},
                     !.applied = @ \cup {s.tx : s \in {g \in got : failed[g.tx]}}]
  BY <1>1
<1> DEFINE got == {s \in chunk \ lost : landed[s.tx] # Nowhere}
           bodies == {[tx |-> s.tx, listed |-> s.slot, slot |-> landed[s.tx]] :
                        s \in {g \in got : ~failed[g.tx]}}
           done == {s.tx : s \in {g \in got : failed[g.tx]}}
           r == [tick EXCEPT !.sigs = @ \ chunk, !.bodies = bodies, !.applied = @ \cup done]
<1>3. tick' = r
  BY <1>2
<1>4. got \subseteq Sightings /\ lost \subseteq Sightings
  BY TickFacts DEF TickLocals
<1>5. \A s \in Sightings : /\ s.tx \in Txs /\ s.slot \in Slots
                           /\ landed[s.tx] \in Slots
  BY TickFacts, ConstantFacts DEF Sightings, ChainTypeOK
<1>6. bodies \in SUBSET Bodies
  BY <1>4, <1>5 DEF Bodies
<1>7. done \in SUBSET Txs
  BY <1>4, <1>5
<1>8. lapses' \in 0 .. MaxLapses
  <2>1. Cardinality(lost) \in Nat
    BY <1>4, FiniteSightings
  <2>2. QED BY <1>2, <2>1, TickFacts, SolWatcherAssumption
<1> HIDE DEF bodies, done
<1>9. r \in TickLocals
  BY <1>6, <1>7, TickFacts DEF TickLocals
<1>10. Fits(r)
  BY TickFacts DEF Fits, TickLocals
<1>11. LedgerTypeOK' /\ cursors' \in CursorRows
  BY TickFacts DEF FetchBatch, LedgerTypeOK, ledgerVars
<1> HIDE DEF r
<1>12. QED BY <1>3, <1>8, <1>9, <1>10, <1>11, TickMoves DEF FetchBatch

LEMMA AttributedType ==
  ASSUME NEW t \in Txs, NEW watched \in SUBSET Invoices
  PROVE  Attributed(t, watched) \in SUBSET watched
  BY DEF Attributed

LEMMA RecordCreditsType ==
  ASSUME LedgerTypeOK, NEW t \in Txs, NEW credits \in SUBSET Invoices, NEW slot \in Slots,
         RecordCredits(t, credits, slot)
  PROVE  LedgerTypeOK'
<1>1. payments' \in [Payments -> PaymentRows]
  BY DEF RecordCredits, LedgerTypeOK, PaymentRows, PaymentStatuses
<1>2. {<<"payment.detected", p>> : p \in {q \in credits \X {t} : ~Recorded(q)}} \subseteq Events
  BY DEF Events, Payments
<1>3. QED BY <1>1, <1>2 DEF RecordCredits, LedgerTypeOK

LEMMA ApplyTransactionType ==
  ASSUME TypeInv, ApplyTransaction
  PROVE  TypeInv'
<1>1. PICK b \in tick.bodies :
        LET credits == Attributed(b.tx, tick.watched)
        IN  /\ \A c \in tick.bodies : b.listed <= c.listed
            /\ RecordCredits(b.tx, credits, b.slot)
            /\ tick' = [tick EXCEPT !.bodies = @ \ {b}, !.applied = @ \cup {b.tx},
                          !.todo = @ \cup credits]
  BY DEF ApplyTransaction
<1> DEFINE credits == Attributed(b.tx, tick.watched)
           r == [tick EXCEPT !.bodies = @ \ {b}, !.applied = @ \cup {b.tx},
                   !.todo = @ \cup credits]
<1>2. b.tx \in Txs /\ b.slot \in Slots
  BY TickFacts DEF TickLocals, Bodies
<1>3. credits \in SUBSET tick.watched /\ credits \in SUBSET Invoices
  BY <1>2, AttributedType, TickFacts DEF TickLocals
<1>4. LedgerTypeOK'
  BY <1>1, <1>2, <1>3, RecordCreditsType, TickFacts
<1>5. tick' = r
  BY <1>1
<1> HIDE DEF credits
<1>6. r \in TickLocals
  BY <1>2, <1>3, TickFacts DEF TickLocals
<1>7. Fits(r)
  BY <1>3, TickFacts DEF Fits, TickLocals, ApplyTransaction, At
<1> HIDE DEF r
<1>8. QED BY <1>4, <1>5, <1>6, <1>7, TickFacts, TickMoves DEF ApplyTransaction

LEMMA FetchedAllType ==
  ASSUME TypeInv, FetchedAll
  PROVE  TypeInv'
<1> DEFINE r == [tick EXCEPT !.pc = "totals"]
<1>1. r \in TickLocals /\ Fits(r)
  BY TickFacts DEF Fits, TickLocals, Steps, FetchedAll, At
<1>2. tick' = r
  BY DEF FetchedAll
<1> HIDE DEF r
<1>3. QED BY <1>1, <1>2, MemoryMoves DEF FetchedAll
-----------------------------------------------------------------------------
\* Totals, webhooks and cursors.

LEMMA StatusForType ==
  ASSUME NEW i \in Invoices, NEW received \in Nat
  PROVE  StatusFor(i, received) \in InvoiceStatuses
  BY DEF StatusFor, InvoiceStatuses

LEMMA CreditedValue ==
  ASSUME NEW i \in Invoices
  PROVE  Value[Credited(i)] \in Nat
  BY ConstantFacts DEF Credited

LEMMA RecomputeType ==
  ASSUME TypeInv, Recompute
  PROVE  TypeInv'
<1>1. PICK i \in tick.todo :
       /\ WriteTotal(i)
       /\ tick' = [tick EXCEPT !.todo = @ \ {i},
                     !.notify = IF Finishes(i)
                                THEN <<"payment.finished",
                                       <<i, StatusFor(i, Value[Credited(i)])>>>>
                                ELSE NoEvent]
  BY DEF Recompute
<1> DEFINE received == Value[Credited(i)]
           owed == IF Finishes(i) THEN <<"payment.finished", <<i, StatusFor(i, received)>>>>
                   ELSE NoEvent
           r == [tick EXCEPT !.todo = @ \ {i}, !.notify = owed]
<1>2. i \in Invoices
  BY TickFacts DEF TickLocals
<1>3. received \in Nat /\ StatusFor(i, received) \in InvoiceStatuses
  BY <1>2, CreditedValue, StatusForType
<1>4. tick' = r
  BY <1>1
<1>5. owed \in Events \cup {NoEvent}
  BY <1>2, <1>3 DEF Events
<1>6. LedgerTypeOK'
  <2>1. invoices' = [invoices EXCEPT ![i].received = received,
                        ![i].status = IF @ = "expired" THEN @ ELSE StatusFor(i, received)]
    BY <1>1 DEF WriteTotal
  <2> HIDE DEF received
  <2>2. invoices' \in [Invoices -> InvoiceRows]
    BY <1>2, <1>3, <2>1, TickFacts DEF LedgerTypeOK, InvoiceRows
  <2>3. QED BY <1>1, <2>2, TickFacts DEF WriteTotal, LedgerTypeOK
<1> HIDE DEF owed
<1>7. r \in TickLocals
  BY <1>5, TickFacts DEF TickLocals
<1>8. Fits(r)
  BY TickFacts DEF Fits, TickLocals
<1> HIDE DEF r
<1>9. QED BY <1>4, <1>6, <1>7, <1>8, TickFacts, TickMoves DEF Recompute

LEMMA NotifyType ==
  ASSUME TypeInv, Notify
  PROVE  TypeInv'
<1> DEFINE r == [tick EXCEPT !.notify = NoEvent]
<1>1. r \in TickLocals /\ Fits(r)
  BY TickFacts DEF Fits, TickLocals
<1>2. LedgerTypeOK'
  BY TickFacts DEF Notify, LedgerTypeOK, TickLocals
<1>3. tick' = r
  BY DEF Notify
<1> HIDE DEF r
<1>4. QED BY <1>1, <1>2, <1>3, TickFacts, TickMoves DEF Notify

LEMMA PickFeedsType ==
  ASSUME TypeInv, PickFeeds
  PROVE  TypeInv'
<1> DEFINE r == [tick EXCEPT !.pc = "park", !.feeds = {a \in Addresses : Parkable(a)}]
<1>1. r \in TickLocals /\ Fits(r)
  BY TickFacts DEF Fits, TickLocals, Steps, PickFeeds, At
<1>2. tick' = r
  BY DEF PickFeeds
<1> HIDE DEF r
<1>3. QED BY <1>1, <1>2, MemoryMoves DEF PickFeeds

LEMMA SaveCursorType ==
  ASSUME TypeInv, SaveCursor
  PROVE  TypeInv'
<1>1. PICK a \in tick.feeds :
       /\ \E s \in Passable(a) :
            /\ \A r \in Passable(a) : r = s \/ Earlier(r, s)
            /\ cursors' = IF cursors[a].slot <= s.slot
                          THEN [cursors EXCEPT ![a] = [tx |-> s.tx, slot |-> s.slot]]
                          ELSE cursors
       /\ tick' = [tick EXCEPT !.feeds = @ \ {a}]
  BY DEF SaveCursor
<1>2. PICK s \in Passable(a) :
        cursors' = IF cursors[a].slot <= s.slot
                   THEN [cursors EXCEPT ![a] = [tx |-> s.tx, slot |-> s.slot]]
                   ELSE cursors
  BY <1>1
<1> DEFINE r == [tick EXCEPT !.feeds = @ \ {a}]
<1>3. a \in Addresses
  BY TickFacts DEF TickLocals
<1>4. s \in Sightings
  BY <1>3, TickFacts DEF Passable, TickLocals
<1>5. cursors' \in CursorRows
  BY <1>2, <1>4, TickFacts DEF CursorRows, Sightings
<1>6. r \in TickLocals /\ Fits(r)
  BY TickFacts DEF Fits, TickLocals
<1>7. tick' = r
  BY <1>1
<1>8. LedgerTypeOK' /\ lapses' \in 0 .. MaxLapses
  BY TickFacts DEF SaveCursor, LedgerTypeOK, ledgerVars
<1> HIDE DEF r
<1>9. QED BY <1>5, <1>6, <1>7, <1>8, TickMoves DEF SaveCursor
-----------------------------------------------------------------------------
\* Reconciliation.

LEMMA SelectInFlightType ==
  ASSUME TypeInv, SelectInFlight
  PROVE  TypeInv'
<1> DEFINE open == {p \in Payments : p[1] \in tick.watched /\ Open(p)}
           r == [tick EXCEPT !.pc = "recent", !.applied = {},
                   !.scans = [a \in Addresses |-> NoScan], !.rows = open]
<1>1. tick' = r
  BY DEF SelectInFlight
<1>2. NoScan \in [sigs : SUBSET Sightings, complete : BOOLEAN]
  BY DEF NoScan
<1>3. open \in SUBSET Payments /\ \A p \in open : p[1] \in tick.watched
  OBVIOUS
<1> HIDE DEF open
<1>4. r \in TickLocals
  BY <1>2, <1>3, TickFacts DEF TickLocals, Steps
<1>5. Fits(r)
  BY <1>3, TickFacts DEF Fits, TickLocals, SelectInFlight, At
<1> HIDE DEF r
<1>6. QED BY <1>1, <1>4, <1>5, MemoryMoves DEF SelectInFlight

LEMMA VerdictsType ==
  ASSUME NEW ps \in SUBSET Payments, NEW history
  PROVE  /\ Verdicts(ps, history) \in SUBSET Answers
         /\ \A v \in Verdicts(ps, history) : v.pay \in ps
<1>1. \A p \in Payments : p[2] \in Txs /\ Says(p[2]) \in {"failed", "confirmed", "finalized"}
  BY DEF Payments, Says
<1>2. QED BY <1>1 DEF Verdicts, Answers

LEMMA AskRecentType ==
  ASSUME TypeInv, AskRecent
  PROVE  TypeInv'
<1> DEFINE asked == {p \in tick.rows : Recent(p)}
           others == {p \in tick.rows : ~Recent(p)}
           r == [tick EXCEPT !.pc = "old", !.rows = others, !.answers = Verdicts(asked, FALSE)]
<1>1. tick' = r
  BY DEF AskRecent
<1>2. asked \in SUBSET Payments /\ others \in SUBSET Payments
  BY TickFacts DEF TickLocals
<1>3. /\ Verdicts(asked, FALSE) \in SUBSET Answers
      /\ \A v \in Verdicts(asked, FALSE) : v.pay \in asked
  BY <1>2, VerdictsType
<1>4. r \in TickLocals
  BY <1>2, <1>3, TickFacts DEF TickLocals, Steps
<1>5. Fits(r)
  BY <1>3, TickFacts DEF Fits, TickLocals, AskRecent, At
<1> HIDE DEF r
<1>6. QED BY <1>1, <1>4, <1>5, MemoryMoves DEF AskRecent

LEMMA AskOldType ==
  ASSUME TypeInv, AskOld
  PROVE  TypeInv'
<1> DEFINE r == [tick EXCEPT !.rows = {}, !.answers = Verdicts(tick.rows, TRUE)]
<1>1. tick' = r
  BY DEF AskOld
<1>2. /\ Verdicts(tick.rows, TRUE) \in SUBSET Answers
      /\ \A v \in Verdicts(tick.rows, TRUE) : v.pay \in tick.rows
  BY VerdictsType, TickFacts DEF TickLocals
<1>3. r \in TickLocals
  BY <1>2, TickFacts DEF TickLocals
<1>4. Fits(r)
  BY <1>2, TickFacts DEF Fits, TickLocals, AskOld, At
<1> HIDE DEF r
<1>5. QED BY <1>1, <1>3, <1>4, MemoryMoves DEF AskOld

LEMMA StatusType ==
  ASSUME LedgerTypeOK, NEW p \in Payments, NEW status \in PaymentStatuses,
         payments' = [payments EXCEPT ![p].status = status]
  PROVE  payments' \in [Payments -> PaymentRows]
  BY DEF LedgerTypeOK, PaymentRows

LEMMA OrphanType ==
  ASSUME TypeInv, Orphan
  PROVE  TypeInv'
<1>1. PICK v \in tick.answers :
       /\ OrphanPayment(v.pay)
       /\ tick' = [tick EXCEPT !.answers = @ \ {v}, !.todo = @ \cup {v.pay[1]}]
  BY DEF Orphan
<1> DEFINE r == [tick EXCEPT !.answers = @ \ {v}, !.todo = @ \cup {v.pay[1]}]
<1>2. v.pay \in Payments /\ v.pay[1] \in tick.watched /\ v.pay[1] \in Invoices
  BY TickFacts DEF TickLocals, Answers, Fits, Payments
<1>3. LedgerTypeOK'
  <2>1. payments' \in [Payments -> PaymentRows]
    BY <1>1, <1>2, StatusType, TickFacts DEF OrphanPayment, PaymentStatuses
  <2>2. payments[v.pay].slot \in Slots
    BY <1>2, TickFacts DEF LedgerTypeOK, PaymentRows
  <2>3. QED BY <1>1, <1>2, <2>1, <2>2, TickFacts DEF OrphanPayment, LedgerTypeOK, Events
<1>4. r \in TickLocals
  BY <1>2, TickFacts DEF TickLocals
<1>5. Fits(r)
  BY <1>2, TickFacts DEF Fits, TickLocals, Orphan, At
<1>6. tick' = r
  BY <1>1
<1> HIDE DEF r
<1>7. QED BY <1>3, <1>4, <1>5, <1>6, TickFacts, TickMoves DEF Orphan

LEMMA ConfirmType ==
  ASSUME TypeInv, Confirm
  PROVE  TypeInv'
<1>1. PICK v \in tick.answers :
       /\ Promote(v.pay, "merchant_confirmed")
       /\ tick' = [tick EXCEPT !.notify = <<"payment.confirmed", v.pay>>,
                     !.answers = IF v.says = "finalized" THEN @ ELSE @ \ {v}]
  BY DEF Confirm
<1> DEFINE left == IF v.says = "finalized" THEN tick.answers ELSE tick.answers \ {v}
           r == [tick EXCEPT !.notify = <<"payment.confirmed", v.pay>>, !.answers = left]
<1>2. v.pay \in Payments
  BY TickFacts DEF TickLocals, Answers
<1>3. <<"payment.confirmed", v.pay>> \in Events /\ left \subseteq tick.answers
  BY <1>2 DEF Events
<1>4. LedgerTypeOK'
  BY <1>1, <1>2, StatusType, TickFacts DEF Promote, LedgerTypeOK, PaymentStatuses
<1>5. tick' = r
  BY <1>1
<1> HIDE DEF left
<1>6. r \in TickLocals
  BY <1>3, TickFacts DEF TickLocals
<1>7. Fits(r)
  BY <1>3, TickFacts DEF Fits, TickLocals
<1> HIDE DEF r
<1>8. QED BY <1>4, <1>5, <1>6, <1>7, TickFacts, TickMoves DEF Confirm

LEMMA FinalisePaymentType ==
  ASSUME TypeInv, FinalisePayment
  PROVE  TypeInv'
<1>1. PICK v \in tick.answers :
       /\ Promote(v.pay, "system_confirmed")
       /\ tick' = [tick EXCEPT !.notify = <<"payment.finalized", v.pay>>, !.answers = @ \ {v}]
  BY DEF FinalisePayment
<1> DEFINE r == [tick EXCEPT !.notify = <<"payment.finalized", v.pay>>, !.answers = @ \ {v}]
<1>2. v.pay \in Payments
  BY TickFacts DEF TickLocals, Answers
<1>3. <<"payment.finalized", v.pay>> \in Events
  BY <1>2 DEF Events
<1>4. LedgerTypeOK'
  BY <1>1, <1>2, StatusType, TickFacts DEF Promote, LedgerTypeOK, PaymentStatuses
<1>5. tick' = r
  BY <1>1
<1>6. r \in TickLocals
  BY <1>3, TickFacts DEF TickLocals
<1>7. Fits(r)
  BY TickFacts DEF Fits, TickLocals
<1> HIDE DEF r
<1>8. QED BY <1>4, <1>5, <1>6, <1>7, TickFacts, TickMoves DEF FinalisePayment

LEMMA PruneCursorsType ==
  ASSUME TypeInv, PruneCursors
  PROVE  TypeInv'
<1>1. NoCursor \in [tx : Txs \cup {NoTx}, slot : Slots]
  BY ConstantFacts DEF NoCursor
<1>2. cursors' \in CursorRows
  BY <1>1, TickFacts DEF PruneCursors, CursorRows
<1>3. LedgerTypeOK' /\ lapses' \in 0 .. MaxLapses
  BY TickFacts DEF PruneCursors, LedgerTypeOK, ledgerVars
<1>4. QED BY <1>2, <1>3, IdleType, TickMoves DEF PruneCursors

LEMMA AbortTickType ==
  ASSUME TypeInv, AbortTick
  PROVE  TypeInv'
<1>1. tick' \in TickLocals /\ Fits(tick')
  BY IdleType DEF AbortTick
<1>2. ChainTypeOK' /\ LedgerTypeOK'
  BY TickFacts DEF AbortTick, ChainTypeOK, LedgerTypeOK, chainVars, ledgerVars
<1>3. aborts' \in 0 .. MaxAborts
  BY SolWatcherAssumption DEF AbortTick, TypeInv, SolTypeOK
<1>4. QED BY <1>1, <1>2, <1>3, TickFacts DEF AbortTick, TypeInv, SolTypeOK, Fits, CursorRows
-----------------------------------------------------------------------------
\* Outside the tick.

LEMMA OutsideMoves ==
  ASSUME TypeInv, ChainTypeOK', LedgerTypeOK', UNCHANGED <<cursors, tick, lapses, aborts>>
  PROVE  TypeInv'
  BY DEF TypeInv, SolTypeOK, Fits

LEMMA LandType ==
  ASSUME ChainTypeOK, NEW place, DOMAIN place \subseteq Txs, NEW h \in Slots, head <= h,
         \A t \in DOMAIN place : place[t] \in 0 .. h,
         Land(place)
  PROVE  /\ landed' \in [Txs -> 0 .. h]
         /\ deadline' \in [Txs -> Nat]
         /\ failed' \in [Txs -> BOOLEAN]
<1>1. landed' \in [Txs -> 0 .. h]
  BY ConstantFacts DEF Land, ChainTypeOK
<1>2. deadline' \in [Txs -> Nat]
  BY ConstantFacts, ChainAssumption DEF Land, ChainTypeOK
<1>3. failed' \in [Txs -> BOOLEAN]
  <2>1. PICK failing \in SUBSET (MayFail \cap DOMAIN place) :
          failed' = [t \in Txs |-> IF t \in DOMAIN place THEN t \in failing ELSE failed[t]]
    BY DEF Land
  <2>2. ASSUME NEW t \in Txs
        PROVE  (IF t \in DOMAIN place THEN t \in failing ELSE failed[t]) \in BOOLEAN
    <3>1. CASE t \in DOMAIN place
      BY <3>1
    <3>2. CASE t \notin DOMAIN place
      BY <3>2 DEF ChainTypeOK
    <3>3. QED BY <3>1, <3>2
  <2>3. QED BY <2>1, <2>2, Zenon
<1>4. QED BY <1>1, <1>2, <1>3

LEMMA GrowChainType ==
  ASSUME TypeInv, GrowChain
  PROVE  TypeInv'
<1>1. PICK included \in SUBSET {t \in PayableTxs : landed[t] = Nowhere} :
        Land([t \in included |-> head + 1])
  BY DEF GrowChain, NextSlot
<1> DEFINE place == [t \in included |-> head + 1]
<1>2. ChainTypeOK /\ head < MaxSlot /\ head' = head + 1 /\ root' = root /\ forks' = forks
  BY TickFacts DEF GrowChain, NextSlot
<1>3. head + 1 \in Slots /\ head + 1 \in Slots \ {0} /\ root' \in 1 .. head + 1
  BY <1>2, ConstantFacts DEF ChainTypeOK
<1>4. DOMAIN place \subseteq Txs /\ \A t \in DOMAIN place : place[t] \in 0 .. head + 1
  BY <1>3, ConstantFacts DEF PayableTxs
<1>5. /\ landed' \in [Txs -> 0 .. head + 1] /\ deadline' \in [Txs -> Nat]
      /\ failed' \in [Txs -> BOOLEAN]
  <2>1. head <= head + 1 /\ Land(place)
    BY <1>1, <1>2, ConstantFacts DEF ChainTypeOK
  <2> HIDE DEF place
  <2>2. QED BY <1>2, <1>3, <1>4, <2>1, LandType
<1>6. ChainTypeOK'
  BY <1>2, <1>3, <1>5 DEF ChainTypeOK
<1>7. LedgerTypeOK'
  BY TickFacts DEF GrowChain, LedgerTypeOK, ledgerVars
<1>8. QED BY <1>6, <1>7, OutsideMoves DEF GrowChain

LEMMA RootSlotType ==
  ASSUME TypeInv, RootSlot
  PROVE  TypeInv'
<1>1. ChainTypeOK'
  <2>1. root' \in 1 .. head
    BY TickFacts, ConstantFacts DEF RootSlot, Finalize, ChainTypeOK
  <2>2. QED BY <2>1, TickFacts DEF RootSlot, Finalize, ChainTypeOK
<1>2. LedgerTypeOK'
  BY TickFacts DEF RootSlot, LedgerTypeOK, ledgerVars
<1>3. QED BY <1>1, <1>2, OutsideMoves DEF RootSlot

LEMMA ForkChainType ==
  ASSUME TypeInv, ForkChain
  PROVE  TypeInv'
<1>1. PICK place \in [{t \in PayableTxs : landed[t] = Nowhere \/ landed[t] > root}
                        -> {Nowhere} \cup (root + 1 .. head)] : Land(place)
  BY DEF ForkChain, SwitchFork
<1>2. ChainTypeOK /\ head' = head /\ root' = root /\ forks' \in 0 .. MaxForks
  BY TickFacts, ChainAssumption DEF ForkChain, SwitchFork, ChainTypeOK
<1>3. DOMAIN place \subseteq Txs /\ \A t \in DOMAIN place : place[t] \in 0 .. head
  BY <1>2, ConstantFacts DEF PayableTxs, ChainTypeOK
<1>4. /\ landed' \in [Txs -> 0 .. head] /\ deadline' \in [Txs -> Nat]
      /\ failed' \in [Txs -> BOOLEAN]
  <2>1. head \in Slots /\ head <= head
    BY <1>2, ConstantFacts DEF ChainTypeOK
  <2>2. QED BY <1>1, <1>2, <1>3, <2>1, LandType
<1>5. ChainTypeOK'
  BY <1>2, <1>4 DEF ChainTypeOK
<1>6. LedgerTypeOK'
  BY TickFacts DEF ForkChain, LedgerTypeOK, ledgerVars
<1>7. QED BY <1>5, <1>6, OutsideMoves DEF ForkChain

LEMMA CreateInvoiceType ==
  ASSUME TypeInv, CreateInvoice
  PROVE  TypeInv'
<1>1. LedgerTypeOK'
  BY TickFacts DEF CreateInvoice, RegisterInvoice, LedgerTypeOK, InvoiceRows
<1>2. ChainTypeOK'
  BY TickFacts DEF CreateInvoice, ChainTypeOK, chainVars
<1>3. QED BY <1>1, <1>2, OutsideMoves DEF CreateInvoice

LEMMA ExpireInvoiceType ==
  ASSUME TypeInv, ExpireInvoice
  PROVE  TypeInv'
<1>1. LedgerTypeOK'
  <2>1. PICK i \in Expiring : PassExpiry(i)
    BY DEF ExpireInvoice
  <2>2. i \in Invoices
    BY SolWatcherAssumption
  <2>3. QED BY <2>1, <2>2, TickFacts DEF PassExpiry, LedgerTypeOK, InvoiceRows
<1>2. ChainTypeOK'
  BY TickFacts DEF ExpireInvoice, ChainTypeOK, chainVars
<1>3. QED BY <1>1, <1>2, OutsideMoves DEF ExpireInvoice
-----------------------------------------------------------------------------
LEMMA InitType == Init => TypeInv
<1> SUFFICES ASSUME Init PROVE TypeInv
  OBVIOUS
<1>1. ChainTypeOK
  BY ChainAssumption, ConstantFacts DEF Init, ChainInit, ChainTypeOK
<1>2. payments \in [Payments -> PaymentRows]
  BY ConstantFacts DEF Init, LedgerInit, PaymentRows, PaymentStatuses
<1>3. invoices \in [Invoices -> InvoiceRows] /\ events \subseteq Events
  BY DEF Init, LedgerInit, InvoiceRows, InvoiceStatuses
<1>4. NoCursor \in [tx : Txs \cup {NoTx}, slot : Slots]
  BY ConstantFacts DEF NoCursor
<1>5. lapses \in 0 .. MaxLapses /\ aborts \in 0 .. MaxAborts
  BY SolWatcherAssumption DEF Init
<1>6. tick \in TickLocals /\ Fits(tick)
  BY IdleType DEF Init
<1>7. cursors \in [Addresses -> [tx : Txs \cup {NoTx}, slot : Slots]]
  BY <1>4 DEF Init
<1>8. QED BY <1>1, <1>2, <1>3, <1>5, <1>6, <1>7
          DEF TypeInv, SolTypeOK, LedgerTypeOK, Fits

LEMMA TickStepType ==
  ASSUME TypeInv, TickStep
  PROVE  TypeInv'
<1>1. CASE ExpireInvoices \/ AnnounceExpired \/ LoadWatched \/ ReadRoot
  BY <1>1, ExpireInvoicesType, AnnounceExpiredType, LoadWatchedType, ReadRootType
<1>2. CASE DiscoverSignatures \/ SkipBooked \/ FetchBatch \/ ApplyTransaction \/ FetchedAll
  BY <1>2, DiscoverSignaturesType, SkipBookedType, FetchBatchType, ApplyTransactionType,
     FetchedAllType
<1>3. CASE Recompute \/ Notify \/ PickFeeds \/ SaveCursor
  BY <1>3, RecomputeType, NotifyType, PickFeedsType, SaveCursorType
<1>4. CASE SelectInFlight \/ AskRecent \/ AskOld
  BY <1>4, SelectInFlightType, AskRecentType, AskOldType
<1>5. CASE Orphan \/ Confirm \/ FinalisePayment \/ PruneCursors
  BY <1>5, OrphanType, ConfirmType, FinalisePaymentType, PruneCursorsType
<1>6. QED BY <1>1, <1>2, <1>3, <1>4, <1>5 DEF TickStep

LEMMA NextType == TypeInv /\ [Next]_vars => TypeInv'
<1> SUFFICES ASSUME TypeInv, [Next]_vars PROVE TypeInv'
  OBVIOUS
<1>1. CASE TickStep
  BY <1>1, TickStepType
<1>2. CASE ScanFails \/ AbortTick
  BY <1>2, ScanFailsType, AbortTickType
<1>3. CASE GrowChain \/ RootSlot \/ ForkChain
  BY <1>3, GrowChainType, RootSlotType, ForkChainType
<1>4. CASE CreateInvoice \/ ExpireInvoice
  BY <1>4, CreateInvoiceType, ExpireInvoiceType
<1>5. CASE UNCHANGED vars
  <2>1. ChainTypeOK' /\ LedgerTypeOK'
    BY <1>5, TickFacts DEF vars, ChainTypeOK, LedgerTypeOK, chainVars, ledgerVars
  <2>2. QED BY <1>5, <2>1, OutsideMoves DEF vars
<1>6. QED BY <1>1, <1>2, <1>3, <1>4, <1>5 DEF Next

LEMMA TypeInvariant == Spec => []TypeInv
  BY InitType, NextType, PTL DEF Spec

\* Whatever the cluster does and wherever a tick of watch_addresses is cut
\* short, every row, cursor and local keeps its type, and the tick never owes
\* a total to an invoice outside its watch set.
THEOREM SolTypeCorrect == Spec => []SolTypeOK
<1>1. TypeInv => SolTypeOK
  BY DEF TypeInv
<1>2. QED BY <1>1, TypeInvariant, PTL
-----------------------------------------------------------------------------
(***************************************************************************)
(* The two promises of reconcile_statuses, that a payment called final is  *)
(* final and one that is given up is gone.  They are made inductive by the *)
(* answers a tick still has to act on: between the RPC call and the UPDATE *)
(* the cluster moves on, so an answer must be of a kind the cluster cannot *)
(* take back.  A transaction that is gone must be told from one that is in *)
(* no slot just now: seen in a slot, it can land until Lifetime slots      *)
(* later at most, and the rows asked about with the history are further    *)
(* than that below the root.                                               *)
(***************************************************************************)
Settlement(t) == Rooted(t) /\ Succeeded(t)
Gone(t) == landed[t] = Nowhere /\ deadline[t] <= root
SeenIn(t, slot) == slot # Nowhere /\ deadline[t] <= slot + Lifetime

BornOut(v) ==
  /\ v.says = "dropped" => Gone(v.pay[2])
  /\ v.says = "failed" => v.pay[2] \in MayFail
  /\ v.says = "finalized" => Settlement(v.pay[2])

ClusterInv ==
  \A t \in Txs : /\ failed[t] => t \in MayFail
                 /\ landed[t] # Nowhere => SeenIn(t, landed[t])
RowsInv ==
  \A p \in Payments :
    /\ Recorded(p) => SeenIn(p[2], payments[p].slot)
    /\ payments[p].status = "orphaned" => p[2] \in MayFail \/ Gone(p[2])
    /\ payments[p].status = "system_confirmed" => Settlement(p[2])
TickInv ==
  /\ tick.root <= root
  /\ \A b \in tick.bodies : SeenIn(b.tx, b.slot)
  /\ \A p \in tick.rows : Recorded(p) /\ (tick.pc = "old" => ~Recent(p))
  /\ \A v \in tick.answers : Recorded(v.pay) /\ BornOut(v)

SafetyInv == TypeInv /\ ClusterInv /\ RowsInv /\ TickInv

LEMMA SlotFacts ==
  /\ Nowhere = 0 /\ Slots \subseteq Nat /\ Lifetime \in Nat
  /\ RECENT_STATUS_WINDOW_SLOTS \in Nat /\ Lifetime <= RECENT_STATUS_WINDOW_SLOTS
  BY ConstantFacts, ChainAssumption, SolWatcherAssumption

LEMMA ClusterTypes ==
  ASSUME TypeInv
  PROVE  /\ root \in Nat /\ head \in Nat /\ root <= head
         /\ \A t \in Txs : landed[t] \in Nat /\ deadline[t] \in Nat /\ failed[t] \in BOOLEAN
  BY TickFacts, ConstantFacts DEF ChainTypeOK

-----------------------------------------------------------------------------
(***************************************************************************)
(* What the cluster may not take back.                                     *)
(***************************************************************************)
Progress ==
  /\ root <= root'
  /\ \A t \in Txs : /\ deadline'[t] <= deadline[t]
                    /\ Settlement(t) => Settlement(t)'
                    /\ Gone(t) => Gone(t)'

\* Land only moves transactions that are in no slot or above the root, and only
\* to slots above the root or nowhere.
LEMMA LandKeeps ==
  ASSUME TypeInv, ClusterInv, NEW place, DOMAIN place \subseteq Txs,
         \A t \in DOMAIN place : /\ landed[t] = Nowhere \/ landed[t] > root
                                 /\ place[t] \in Nat
                                 /\ place[t] = Nowhere \/ place[t] > root,
         Land(place), root' = root
  PROVE  Progress /\ ClusterInv'
<1>1. PICK failing \in SUBSET (MayFail \cap DOMAIN place) :
        failed' = [t \in Txs |-> IF t \in DOMAIN place THEN t \in failing ELSE failed[t]]
  BY DEF Land
<1>2. ASSUME NEW t \in Txs
      PROVE  /\ deadline'[t] <= deadline[t]
             /\ Settlement(t) => Settlement(t)'
             /\ Gone(t) => Gone(t)'
             /\ failed'[t] => t \in MayFail
             /\ landed'[t] # Nowhere => SeenIn(t, landed[t])'
  <2>1. /\ landed[t] \in Nat /\ deadline[t] \in Nat /\ root \in Nat
        /\ failed[t] => t \in MayFail
        /\ landed[t] # Nowhere => SeenIn(t, landed[t])
    BY ClusterTypes DEF ClusterInv
  <2>2. CASE t \in DOMAIN place
    <3>1. /\ landed'[t] = place[t] /\ place[t] <= deadline[t]
          /\ deadline'[t] = IF place[t] # Nowhere /\ place[t] + Lifetime < deadline[t]
                            THEN place[t] + Lifetime ELSE deadline[t]
          /\ failed'[t] <=> t \in failing
      BY <1>1, <2>2 DEF Land
    <3>2. /\ landed[t] = Nowhere \/ landed[t] > root
          /\ place[t] \in Nat
          /\ place[t] = Nowhere \/ place[t] > root
      BY <2>2
    <3>3. deadline'[t] <= deadline[t] /\ (place[t] # Nowhere => deadline'[t] <= place[t] + Lifetime)
      BY <2>1, <3>1, <3>2, SlotFacts
    <3>4. ~Settlement(t)
      BY <2>1, <3>2 DEF Settlement, Rooted
    <3>5. Gone(t) => Gone(t)'
      BY <2>1, <3>1, <3>2 DEF Gone
    <3>6. failed'[t] => t \in MayFail
      BY <3>1
    <3>7. QED BY <3>1, <3>3, <3>4, <3>5, <3>6 DEF SeenIn
  <2>3. CASE t \notin DOMAIN place
    <3>1. landed'[t] = landed[t] /\ deadline'[t] = deadline[t] /\ failed'[t] = failed[t]
      BY <1>1, <2>3 DEF Land
    <3>2. Settlement(t)' <=> Settlement(t)
      BY <3>1 DEF Settlement, Rooted, Succeeded
    <3>3. Gone(t)' <=> Gone(t)
      BY <3>1 DEF Gone
    <3>4. SeenIn(t, landed[t])' <=> SeenIn(t, landed[t])
      BY <3>1 DEF SeenIn
    <3>5. QED BY <2>1, <3>1, <3>2, <3>3, <3>4
  <2>4. QED BY <2>2, <2>3
<1>3. root <= root'
  BY ClusterTypes
<1>4. QED BY <1>2, <1>3 DEF Progress, ClusterInv

LEMMA GrowChainKeeps ==
  ASSUME TypeInv, ClusterInv, GrowChain
  PROVE  Progress /\ ClusterInv'
<1>1. PICK included \in SUBSET {t \in PayableTxs : landed[t] = Nowhere} :
        Land([t \in included |-> head + 1])
  BY DEF GrowChain, NextSlot
<1> DEFINE place == [t \in included |-> head + 1]
<1>2. /\ DOMAIN place \subseteq Txs /\ Land(place)
      /\ \A t \in DOMAIN place : landed[t] = Nowhere /\ place[t] = head + 1
  BY <1>1 DEF PayableTxs
<1>3. head + 1 \in Nat /\ head + 1 > root /\ root' = root
  BY ClusterTypes DEF GrowChain, NextSlot
<1> HIDE DEF place
<1>4. QED BY <1>2, <1>3, LandKeeps

LEMMA ForkChainKeeps ==
  ASSUME TypeInv, ClusterInv, ForkChain
  PROVE  Progress /\ ClusterInv'
<1>1. PICK place \in [{t \in PayableTxs : landed[t] = Nowhere \/ landed[t] > root}
                        -> {Nowhere} \cup (root + 1 .. head)] : Land(place)
  BY DEF ForkChain, SwitchFork
<1>2. root' = root /\ DOMAIN place \subseteq Txs
  BY <1>1 DEF ForkChain, SwitchFork, PayableTxs
<1>3. \A t \in DOMAIN place : /\ landed[t] = Nowhere \/ landed[t] > root
                              /\ place[t] \in Nat
                              /\ place[t] = Nowhere \/ place[t] > root
  BY <1>1, ClusterTypes, SlotFacts
<1>4. QED BY <1>1, <1>2, <1>3, LandKeeps

LEMMA RootSlotKeeps ==
  ASSUME TypeInv, ClusterInv, RootSlot
  PROVE  Progress /\ ClusterInv'
<1>1. /\ root' = root + 1 /\ landed' = landed /\ failed' = failed /\ deadline' = deadline
  BY DEF RootSlot, Finalize
<1>2. \A t \in Txs : Settlement(t) => Settlement(t)'
  BY <1>1, ClusterTypes DEF Settlement, Rooted, Succeeded
<1>3. \A t \in Txs : Gone(t) => Gone(t)'
  BY <1>1, ClusterTypes DEF Gone
<1>4. ClusterInv'
  BY <1>1 DEF ClusterInv, SeenIn
<1>5. root <= root' /\ \A t \in Txs : deadline'[t] <= deadline[t]
  BY <1>1, ClusterTypes
<1>6. QED BY <1>2, <1>3, <1>4, <1>5 DEF Progress

LEMMA ClusterRests ==
  ASSUME TypeInv, ClusterInv, UNCHANGED chainVars
  PROVE  Progress /\ ClusterInv'
<1>1. \A t \in Txs : Settlement(t)' = Settlement(t) /\ Gone(t)' = Gone(t)
  BY DEF Settlement, Rooted, Succeeded, Gone, chainVars
<1>2. root <= root' /\ \A t \in Txs : deadline'[t] <= deadline[t]
  BY ClusterTypes DEF chainVars
<1>3. QED BY <1>1, <1>2 DEF Progress, ClusterInv, SeenIn, chainVars
-----------------------------------------------------------------------------
(***************************************************************************)
(* Most steps leave the rows alone and add nothing to what the tick has    *)
(* been told.                                                              *)
(***************************************************************************)
Quiet ==
  /\ UNCHANGED payments
  /\ tick'.root \in {tick.root, root, Nowhere}
  /\ tick'.bodies \subseteq tick.bodies
  /\ tick'.rows \subseteq tick.rows
  /\ tick'.answers \subseteq tick.answers
  /\ tick'.pc = "old" => tick.pc = "old" /\ tick'.root = tick.root

\* What was seen of a transaction stays true of it.
LEMMA SeenStays ==
  ASSUME TypeInv, TypeInv', Progress, NEW t \in Txs, NEW slot \in Slots, SeenIn(t, slot)
  PROVE  SeenIn(t, slot)'
<1>1. deadline'[t] <= deadline[t] /\ deadline[t] \in Nat /\ deadline'[t] \in Nat
  BY ClusterTypes DEF Progress, TypeInv, SolTypeOK, ChainTypeOK
<1>2. QED BY <1>1, SlotFacts DEF SeenIn

LEMMA QuietKeeps ==
  ASSUME SafetyInv, TypeInv', Progress, ClusterInv', Quiet
  PROVE  SafetyInv'
<1>1. tick \in TickLocals /\ root \in Nat /\ root' \in Nat /\ tick.root \in Nat
  <2>1. tick \in TickLocals /\ root \in Nat
    BY ClusterTypes, TickFacts DEF SafetyInv
  <2>2. root' \in Nat
    BY DEF TypeInv, SolTypeOK, ChainTypeOK
  <2>3. QED BY <2>1, <2>2, SlotFacts DEF TickLocals
<1>2. \A v \in tick.answers : v.pay \in Payments /\ v.pay[2] \in Txs
  BY <1>1 DEF TickLocals, Answers, Payments
<1>3. RowsInv'
  <2>1. \A p \in Payments : p[2] \in Txs /\ payments[p].slot \in Slots
    BY TickFacts DEF SafetyInv, Payments, LedgerTypeOK, PaymentRows
  <2>2. \A p \in Payments : Recorded(p)' = Recorded(p) /\ payments'[p] = payments[p]
    BY DEF Quiet, Recorded
  <2>3. ASSUME NEW p \in Payments, Recorded(p) PROVE SeenIn(p[2], payments[p].slot)'
    <3>1. SeenIn(p[2], payments[p].slot)
      BY <2>3 DEF SafetyInv, RowsInv
    <3>2. \A slot \in Slots : SeenIn(p[2], slot) => SeenIn(p[2], slot)'
      BY <2>1, SeenStays DEF SafetyInv
    <3>3. QED BY <2>1, <2>2, <3>1, <3>2 DEF SeenIn
  <2>4. QED BY <2>1, <2>2, <2>3 DEF SafetyInv, RowsInv, Progress
<1>4. TickInv'
  <2>1. tick'.root <= root'
    BY <1>1, SlotFacts DEF Quiet, Progress, SafetyInv, TickInv
  <2>2. \A b \in tick'.bodies : SeenIn(b.tx, b.slot)'
    <3>1. \A b \in tick.bodies : b.tx \in Txs /\ b.slot \in Slots
      BY <1>1 DEF TickLocals, Bodies
    <3>2. QED BY <3>1, SeenStays DEF Quiet, SafetyInv, TickInv
  <2>3. \A p \in tick'.rows : Recorded(p)' /\ (tick'.pc = "old" => ~Recent(p)')
    BY DEF Quiet, Recorded, Recent, SafetyInv, TickInv
  <2>4. \A v \in tick'.answers : Recorded(v.pay)' /\ BornOut(v)'
    BY <1>2 DEF Quiet, Progress, SafetyInv, TickInv, BornOut, Recorded
  <2>5. QED BY <2>1, <2>2, <2>3, <2>4 DEF TickInv
<1>5. QED BY <1>3, <1>4 DEF SafetyInv

LEMMA QuietSteps ==
  ASSUME TypeInv,
         \/ ExpireInvoices \/ AnnounceExpired \/ LoadWatched \/ ReadRoot
         \/ DiscoverSignatures \/ ScanFails \/ SkipBooked \/ FetchedAll
         \/ Recompute \/ Notify \/ PickFeeds \/ SaveCursor \/ PruneCursors \/ AbortTick
  PROVE  Quiet /\ UNCHANGED chainVars
<1>1. tick \in TickLocals
  BY TickFacts
<1>2. ASSUME tick' = Idle, UNCHANGED payments PROVE Quiet
  BY <1>2 DEF Quiet, Idle
<1>3. CASE ExpireInvoices \/ AnnounceExpired
  BY <1>1, <1>3 DEF ExpireInvoices, MarkExpired, AnnounceExpired, Quiet, TickLocals
<1>4. CASE LoadWatched
  <2>1. CASE WatchedInvoices = {}
    BY <1>2, <1>4, <2>1 DEF LoadWatched, ledgerVars
  <2>2. CASE WatchedInvoices # {}
    BY <1>1, <1>4, <2>2 DEF LoadWatched, ledgerVars, Quiet, TickLocals
  <2>3. QED BY <1>4, <2>1, <2>2 DEF LoadWatched
<1>5. CASE ReadRoot
  BY <1>1, <1>5 DEF ReadRoot, ledgerVars, Quiet, TickLocals
<1>6. CASE DiscoverSignatures
  <2>1. /\ tick'.root = tick.root /\ tick'.bodies = tick.bodies /\ tick'.rows = tick.rows
        /\ tick'.answers = tick.answers /\ tick'.pc = tick.pc
    BY <1>1, <1>6 DEF DiscoverSignatures, TickLocals
  <2>2. QED BY <1>6, <2>1 DEF DiscoverSignatures, ledgerVars, Quiet
<1>7. CASE ScanFails \/ SkipBooked \/ FetchedAll
  BY <1>1, <1>7 DEF ScanFails, SkipBooked, FetchedAll, ledgerVars, Quiet, TickLocals
<1>8. CASE Recompute
  <2>1. /\ tick'.root = tick.root /\ tick'.bodies = tick.bodies /\ tick'.rows = tick.rows
        /\ tick'.answers = tick.answers /\ tick'.pc = tick.pc
    BY <1>1, <1>8 DEF Recompute, TickLocals
  <2>2. QED BY <1>8, <2>1 DEF Recompute, WriteTotal, Quiet
<1>9. CASE Notify \/ PickFeeds
  BY <1>1, <1>9 DEF Notify, PickFeeds, ledgerVars, Quiet, TickLocals
<1>10. CASE SaveCursor
  <2>1. /\ tick'.root = tick.root /\ tick'.bodies = tick.bodies /\ tick'.rows = tick.rows
        /\ tick'.answers = tick.answers /\ tick'.pc = tick.pc
    BY <1>1, <1>10 DEF SaveCursor, TickLocals
  <2>2. QED BY <1>10, <2>1 DEF SaveCursor, ledgerVars, Quiet
<1>11. CASE PruneCursors \/ AbortTick
  BY <1>2, <1>11 DEF PruneCursors, AbortTick, ledgerVars
<1>12. UNCHANGED chainVars
  BY DEF ExpireInvoices, AnnounceExpired, LoadWatched, ReadRoot, DiscoverSignatures, ScanFails,
         SkipBooked, FetchedAll, Recompute, Notify, PickFeeds, SaveCursor, PruneCursors,
         AbortTick
<1>13. QED BY <1>3, <1>4, <1>5, <1>6, <1>7, <1>8, <1>9, <1>10, <1>11, <1>12

LEMMA OutsideSteps ==
  ASSUME TypeInv,
         GrowChain \/ RootSlot \/ ForkChain \/ CreateInvoice \/ ExpireInvoice \/ UNCHANGED vars
  PROVE  Quiet
<1>1. tick' = tick /\ payments' = payments
  BY DEF GrowChain, RootSlot, ForkChain, CreateInvoice, RegisterInvoice, ExpireInvoice,
         PassExpiry, vars, ledgerVars
<1>2. QED BY <1>1 DEF Quiet
-----------------------------------------------------------------------------
(***************************************************************************)
(* The other steps leave the cluster alone.                                *)
(***************************************************************************)

\* Rows and answers are read in the state they are about.
LEMMA StillSame ==
  ASSUME UNCHANGED chainVars
  PROVE  /\ root' = root
         /\ \A t : /\ Settlement(t)' = Settlement(t) /\ Gone(t)' = Gone(t)
                   /\ \A slot : SeenIn(t, slot)' = SeenIn(t, slot)
         /\ \A v : BornOut(v)' = BornOut(v)
  BY DEF Settlement, Rooted, Succeeded, Gone, SeenIn, BornOut, chainVars

\* A step that leaves the rows alone too, and what it lets the tick know.
LEMMA LearnKeeps ==
  ASSUME SafetyInv, UNCHANGED <<chainVars, payments>>,
         tick'.root = tick.root,
         \A b \in tick'.bodies : SeenIn(b.tx, b.slot),
         \A p \in tick'.rows : Recorded(p) /\ (tick'.pc = "old" => ~Recent(p)),
         \A v \in tick'.answers : Recorded(v.pay) /\ BornOut(v),
         TypeInv'
  PROVE  SafetyInv'
<1>1. ClusterInv'
  BY ClusterRests DEF SafetyInv
<1>2. RowsInv'
  BY StillSame DEF SafetyInv, RowsInv, Recorded
<1>3. \A p : Recorded(p)' = Recorded(p) /\ Recent(p)' = Recent(p)
  BY DEF Recorded, Recent
<1>4. TickInv'
  BY <1>3, StillSame DEF SafetyInv, TickInv
<1>5. QED BY <1>1, <1>2, <1>4 DEF SafetyInv

\* A body is of the slot its transaction is in.
LEMMA FetchBatchKeeps ==
  ASSUME SafetyInv, TypeInv', FetchBatch
  PROVE  SafetyInv'
<1>1. tick \in TickLocals
  BY TickFacts DEF SafetyInv
<1>2. /\ tick'.root = tick.root /\ tick'.rows = tick.rows /\ tick'.answers = tick.answers
      /\ tick'.pc = tick.pc
  BY <1>1 DEF FetchBatch, TickLocals
<1>3. ASSUME NEW b \in tick'.bodies PROVE SeenIn(b.tx, b.slot)
  <2>1. PICK s \in tick.sigs : /\ b = [tx |-> s.tx, listed |-> s.slot, slot |-> landed[s.tx]]
                               /\ landed[s.tx] # Nowhere
    BY <1>1, <1>3 DEF FetchBatch, TickLocals
  <2>2. s.tx \in Txs
    BY <1>1 DEF TickLocals, Sightings
  <2>3. QED BY <2>1, <2>2 DEF SafetyInv, ClusterInv
<1>4. UNCHANGED <<chainVars, payments>>
  BY DEF FetchBatch, ledgerVars
<1>5. /\ \A p \in tick'.rows : Recorded(p) /\ (tick'.pc = "old" => ~Recent(p))
      /\ \A v \in tick'.answers : Recorded(v.pay) /\ BornOut(v)
  BY <1>2 DEF SafetyInv, TickInv
<1>6. QED BY <1>2, <1>3, <1>4, <1>5, LearnKeeps

LEMMA SelectInFlightKeeps ==
  ASSUME SafetyInv, TypeInv', SelectInFlight
  PROVE  SafetyInv'
<1>1. tick \in TickLocals
  BY TickFacts DEF SafetyInv
<1>2. /\ tick'.root = tick.root /\ tick'.bodies = tick.bodies /\ tick'.answers = tick.answers
      /\ tick'.pc = "recent" /\ tick'.rows = {p \in Payments : p[1] \in tick.watched /\ Open(p)}
  BY <1>1 DEF SelectInFlight, TickLocals
<1>3. \A p \in tick'.rows : Recorded(p) /\ tick'.pc # "old"
  BY <1>2 DEF Open, Recorded
<1>4. UNCHANGED <<chainVars, payments>>
  BY DEF SelectInFlight, ledgerVars
<1>5. /\ \A b \in tick'.bodies : SeenIn(b.tx, b.slot)
      /\ \A v \in tick'.answers : Recorded(v.pay) /\ BornOut(v)
  BY <1>2 DEF SafetyInv, TickInv
<1>6. QED BY <1>2, <1>3, <1>4, <1>5, LearnKeeps

\* What a node says is so; and a null, of a row further below the root than a
\* transaction lives, is for ever.
LEMMA VerdictsTrue ==
  ASSUME SafetyInv, NEW ps \in SUBSET Payments, NEW history,
         \A p \in ps : Recorded(p) /\ (history => ~Recent(p)),
         NEW v \in Verdicts(ps, history)
  PROVE  Recorded(v.pay) /\ BornOut(v)
<1>1. CASE \E p \in ps : Dropped(p, history) /\ v = [pay |-> p, says |-> "dropped"]
  <2>1. PICK p \in ps : Dropped(p, history) /\ v = [pay |-> p, says |-> "dropped"]
    BY <1>1
  <2>2. /\ landed[p[2]] = Nowhere /\ SeenIn(p[2], payments[p].slot) /\ ~Recent(p)
        /\ p \in Payments /\ p[2] \in Txs
    BY <2>1 DEF Dropped, SafetyInv, RowsInv, Payments
  <2>3. /\ payments[p].slot \in Nat /\ tick.root \in Nat /\ root \in Nat /\ tick.root <= root
        /\ deadline[p[2]] \in Nat
    BY <2>2, TickFacts, ClusterTypes, SlotFacts
    DEF SafetyInv, TickInv, LedgerTypeOK, PaymentRows, TickLocals
  <2>4. Gone(p[2])
    BY <2>2, <2>3, SlotFacts DEF SeenIn, Recent, Gone
  <2>5. QED BY <2>1, <2>4 DEF BornOut
<1>2. CASE \E p \in ps : landed[p[2]] # Nowhere /\ v = [pay |-> p, says |-> Says(p[2])]
  <2>1. PICK p \in ps : landed[p[2]] # Nowhere /\ v = [pay |-> p, says |-> Says(p[2])]
    BY <1>2
  <2>2. p[2] \in Txs
    BY DEF Payments
  <2>3. Says(p[2]) # "dropped"
    BY DEF Says
  <2>4. Says(p[2]) = "failed" => p[2] \in MayFail
    BY <2>2 DEF Says, SafetyInv, ClusterInv
  <2>5. Says(p[2]) = "finalized" => Settlement(p[2])
    BY <2>1 DEF Says, Settlement, Rooted, Succeeded
  <2>6. QED BY <2>1, <2>3, <2>4, <2>5 DEF BornOut
<1>3. QED BY <1>1, <1>2 DEF Verdicts

LEMMA AskRecentKeeps ==
  ASSUME SafetyInv, TypeInv', AskRecent
  PROVE  SafetyInv'
<1> DEFINE asked == {p \in tick.rows : Recent(p)}
<1>1. tick \in TickLocals
  BY TickFacts DEF SafetyInv
<1>2. /\ tick'.root = tick.root /\ tick'.bodies = tick.bodies
      /\ tick'.rows = {p \in tick.rows : ~Recent(p)}
      /\ tick'.answers = Verdicts(asked, FALSE)
  BY <1>1 DEF AskRecent, TickLocals
<1>3. asked \in SUBSET Payments /\ \A p \in asked : Recorded(p)
  BY <1>1 DEF TickLocals, SafetyInv, TickInv
<1>4. \A v \in tick'.answers : Recorded(v.pay) /\ BornOut(v)
  BY <1>2, <1>3, VerdictsTrue
<1>5. UNCHANGED <<chainVars, payments>>
  BY DEF AskRecent, ledgerVars
<1>6. /\ \A b \in tick'.bodies : SeenIn(b.tx, b.slot)
      /\ \A p \in tick'.rows : Recorded(p) /\ ~Recent(p)
  BY <1>2 DEF SafetyInv, TickInv
<1>7. QED BY <1>2, <1>4, <1>5, <1>6, LearnKeeps

LEMMA AskOldKeeps ==
  ASSUME SafetyInv, TypeInv', AskOld
  PROVE  SafetyInv'
<1>1. tick \in TickLocals /\ tick.rows \in SUBSET Payments
  BY TickFacts DEF SafetyInv, TickLocals
<1>2. /\ tick'.root = tick.root /\ tick'.bodies = tick.bodies /\ tick'.rows = {}
      /\ tick'.answers = Verdicts(tick.rows, TRUE)
  BY <1>1 DEF AskOld, TickLocals
<1>3. \A p \in tick.rows : Recorded(p) /\ ~Recent(p)
  BY DEF AskOld, At, SafetyInv, TickInv
<1>4. \A v \in tick'.answers : Recorded(v.pay) /\ BornOut(v)
  BY <1>1, <1>2, <1>3, VerdictsTrue
<1>5. UNCHANGED <<chainVars, payments>>
  BY DEF AskOld, ledgerVars
<1>6. \A b \in tick'.bodies : SeenIn(b.tx, b.slot)
  BY <1>2 DEF SafetyInv, TickInv
<1>7. QED BY <1>2, <1>4, <1>5, <1>6, LearnKeeps
-----------------------------------------------------------------------------
(***************************************************************************)
(* The steps that write rows.                                              *)
(***************************************************************************)
LEMMA ApplyTransactionKeeps ==
  ASSUME SafetyInv, TypeInv', ApplyTransaction
  PROVE  SafetyInv'
<1>1. tick \in TickLocals /\ LedgerTypeOK
  BY TickFacts DEF SafetyInv
<1>2. PICK b \in tick.bodies :
        /\ RecordCredits(b.tx, Attributed(b.tx, tick.watched), b.slot)
        /\ tick' = [tick EXCEPT !.bodies = @ \ {b}, !.applied = @ \cup {b.tx},
                      !.todo = @ \cup Attributed(b.tx, tick.watched)]
  BY DEF ApplyTransaction
<1>3. /\ tick'.root = tick.root /\ tick'.bodies \subseteq tick.bodies
      /\ tick'.rows = tick.rows /\ tick'.answers = tick.answers /\ tick'.pc # "old"
  BY <1>1, <1>2 DEF TickLocals, ApplyTransaction, At
<1>4. UNCHANGED chainVars /\ SeenIn(b.tx, b.slot)
  BY DEF ApplyTransaction, SafetyInv, TickInv
<1>5. ASSUME NEW p \in Payments
      PROVE  \/ payments'[p] = payments[p]
             \/ p[2] = b.tx /\ payments'[p] = [status |-> "detected", slot |-> b.slot]
  BY <1>2 DEF RecordCredits
<1>6. ClusterInv'
  BY <1>4, ClusterRests DEF SafetyInv
<1>7. RowsInv'
  <2>1. ASSUME NEW p \in Payments
        PROVE  /\ Recorded(p)' => SeenIn(p[2], payments'[p].slot)
               /\ payments'[p].status = "orphaned" => p[2] \in MayFail \/ Gone(p[2])
               /\ payments'[p].status = "system_confirmed" => Settlement(p[2])
    BY <1>4, <1>5 DEF SafetyInv, RowsInv, Recorded
  <2>2. QED BY <1>4, <2>1, StillSame DEF RowsInv
<1>8. \A p \in Payments : Recorded(p) => Recorded(p)'
  BY <1>5 DEF Recorded
<1>9. TickInv'
  <2>1. \A v \in tick.answers : v.pay \in Payments /\ Recorded(v.pay)' /\ BornOut(v)
    BY <1>1, <1>8 DEF SafetyInv, TickInv, TickLocals, Answers
  <2>2. \A p \in tick.rows : Recorded(p)'
    BY <1>1, <1>8 DEF SafetyInv, TickInv, TickLocals
  <2>3. tick.root <= root /\ \A b1 \in tick.bodies : SeenIn(b1.tx, b1.slot)
    BY DEF SafetyInv, TickInv
  <2>4. QED BY <1>3, <1>4, <2>1, <2>2, <2>3, StillSame DEF TickInv
<1>10. QED BY <1>6, <1>7, <1>9 DEF SafetyInv

\* The row of an answer gets a status that the answer bears out.
LEMMA StatusKeeps ==
  ASSUME SafetyInv, TypeInv', UNCHANGED chainVars,
         NEW v \in tick.answers,
         NEW status \in PaymentStatuses \ {"absent"},
         payments' = [payments EXCEPT ![v.pay].status = status],
         status = "orphaned" => v.says \in {"dropped", "failed"},
         status = "system_confirmed" => v.says = "finalized",
         tick'.root = tick.root, tick'.bodies = tick.bodies, tick'.rows = tick.rows,
         tick'.pc = tick.pc, tick'.answers \subseteq tick.answers
  PROVE  SafetyInv'
<1>1. LedgerTypeOK /\ tick \in TickLocals
  BY TickFacts DEF SafetyInv
<1>2. v.pay \in Payments
  BY <1>1 DEF TickLocals, Answers
<1>3. ASSUME NEW p \in Payments
      PROVE  /\ payments'[p].slot = payments[p].slot
             /\ payments'[p].status = IF p = v.pay THEN status ELSE payments[p].status
  BY <1>1, <1>2 DEF LedgerTypeOK, PaymentRows
<1>4. ClusterInv'
  BY ClusterRests DEF SafetyInv
<1>5. RowsInv'
  <2>1. /\ status = "orphaned" => v.pay[2] \in MayFail \/ Gone(v.pay[2])
        /\ status = "system_confirmed" => Settlement(v.pay[2])
        /\ SeenIn(v.pay[2], payments[v.pay].slot)
    BY <1>2 DEF SafetyInv, TickInv, RowsInv, BornOut
  <2>2. ASSUME NEW p \in Payments
        PROVE  /\ Recorded(p)' => SeenIn(p[2], payments'[p].slot)
               /\ payments'[p].status = "orphaned" => p[2] \in MayFail \/ Gone(p[2])
               /\ payments'[p].status = "system_confirmed" => Settlement(p[2])
    BY <1>3, <2>1 DEF SafetyInv, RowsInv, Recorded
  <2>3. ASSUME NEW p \in Payments
        PROVE  /\ SeenIn(p[2], payments'[p].slot) => SeenIn(p[2], payments[p].slot)'
               /\ Gone(p[2])' = Gone(p[2]) /\ Settlement(p[2])' = Settlement(p[2])
    BY StillSame DEF SeenIn, chainVars
  <2>4. QED BY <2>2, <2>3 DEF RowsInv
<1>6. \A p \in Payments : /\ Recorded(p) => Recorded(p)'
                          /\ Recent(p)' = Recent(p)
  BY <1>3 DEF Recorded, Recent
<1>7. TickInv'
  <2>1. \A w \in tick.answers : w.pay \in Payments /\ Recorded(w.pay)' /\ BornOut(w)
    BY <1>1, <1>6 DEF SafetyInv, TickInv, TickLocals, Answers
  <2>2. \A p \in tick.rows : Recorded(p)' /\ (tick.pc = "old" => ~Recent(p)')
    BY <1>1, <1>6 DEF SafetyInv, TickInv, TickLocals
  <2>3. tick.root <= root /\ \A b \in tick.bodies : SeenIn(b.tx, b.slot)
    BY DEF SafetyInv, TickInv
  <2>4. QED BY <2>1, <2>2, <2>3, StillSame DEF TickInv
<1>8. QED BY <1>4, <1>5, <1>7 DEF SafetyInv

LEMMA OrphanKeeps ==
  ASSUME SafetyInv, TypeInv', Orphan
  PROVE  SafetyInv'
<1>1. PICK v \in tick.answers :
       /\ v.says \in {"dropped", "failed"}
       /\ OrphanPayment(v.pay)
       /\ tick' = [tick EXCEPT !.answers = @ \ {v}, !.todo = @ \cup {v.pay[1]}]
  BY DEF Orphan
<1>2. /\ tick'.root = tick.root /\ tick'.bodies = tick.bodies /\ tick'.rows = tick.rows
      /\ tick'.pc = tick.pc /\ tick'.answers \subseteq tick.answers
  BY <1>1, TickFacts DEF SafetyInv, TickLocals
<1>3. /\ payments' = [payments EXCEPT ![v.pay].status = "orphaned"]
      /\ UNCHANGED chainVars
  BY <1>1 DEF OrphanPayment, Orphan
<1>4. "orphaned" \in PaymentStatuses \ {"absent"}
  BY DEF PaymentStatuses
<1>5. QED BY <1>1, <1>2, <1>3, <1>4, StatusKeeps

LEMMA ConfirmKeeps ==
  ASSUME SafetyInv, TypeInv', Confirm
  PROVE  SafetyInv'
<1>1. PICK v \in tick.answers :
       /\ Promote(v.pay, "merchant_confirmed")
       /\ tick' = [tick EXCEPT !.notify = <<"payment.confirmed", v.pay>>,
                     !.answers = IF v.says = "finalized" THEN @ ELSE @ \ {v}]
  BY DEF Confirm
<1>2. /\ tick'.root = tick.root /\ tick'.bodies = tick.bodies /\ tick'.rows = tick.rows
      /\ tick'.pc = tick.pc /\ tick'.answers \subseteq tick.answers
  BY <1>1, TickFacts DEF SafetyInv, TickLocals
<1>3. /\ payments' = [payments EXCEPT ![v.pay].status = "merchant_confirmed"]
      /\ UNCHANGED chainVars
  BY <1>1 DEF Promote, Confirm
<1>4. "merchant_confirmed" \in PaymentStatuses \ {"absent"}
  BY DEF PaymentStatuses
<1>5. QED BY <1>2, <1>3, <1>4, StatusKeeps

LEMMA FinalisePaymentKeeps ==
  ASSUME SafetyInv, TypeInv', FinalisePayment
  PROVE  SafetyInv'
<1>1. PICK v \in tick.answers :
       /\ v.says = "finalized"
       /\ Promote(v.pay, "system_confirmed")
       /\ tick' = [tick EXCEPT !.notify = <<"payment.finalized", v.pay>>, !.answers = @ \ {v}]
  BY DEF FinalisePayment
<1>2. /\ tick'.root = tick.root /\ tick'.bodies = tick.bodies /\ tick'.rows = tick.rows
      /\ tick'.pc = tick.pc /\ tick'.answers \subseteq tick.answers
  BY <1>1, TickFacts DEF SafetyInv, TickLocals
<1>3. /\ payments' = [payments EXCEPT ![v.pay].status = "system_confirmed"]
      /\ UNCHANGED chainVars
  BY <1>1 DEF Promote, FinalisePayment
<1>4. "system_confirmed" \in PaymentStatuses \ {"absent"}
  BY DEF PaymentStatuses
<1>5. QED BY <1>1, <1>2, <1>3, <1>4, StatusKeeps
-----------------------------------------------------------------------------
LEMMA InitSafe == Init => SafetyInv
<1> SUFFICES ASSUME Init PROVE SafetyInv
  OBVIOUS
<1>1. TypeInv
  BY InitType
<1>2. ClusterInv
  BY DEF Init, ChainInit, ClusterInv
<1>3. RowsInv
  BY DEF Init, LedgerInit, RowsInv, Recorded
<1>4. TickInv
  BY SlotFacts DEF Init, ChainInit, Idle, TickInv
<1>5. QED BY <1>1, <1>2, <1>3, <1>4 DEF SafetyInv

LEMMA NextSafe == SafetyInv /\ [Next]_vars => SafetyInv'
<1> SUFFICES ASSUME SafetyInv, [Next]_vars PROVE SafetyInv'
  OBVIOUS
<1>1. TypeInv /\ ClusterInv /\ TypeInv'
  BY NextType DEF SafetyInv
<1>2. CASE \/ ExpireInvoices \/ AnnounceExpired \/ LoadWatched \/ ReadRoot
           \/ DiscoverSignatures \/ ScanFails \/ SkipBooked \/ FetchedAll
           \/ Recompute \/ Notify \/ PickFeeds \/ SaveCursor \/ PruneCursors \/ AbortTick
  BY <1>1, <1>2, QuietSteps, ClusterRests, QuietKeeps
<1>3. CASE \/ GrowChain \/ RootSlot \/ ForkChain \/ CreateInvoice \/ ExpireInvoice
           \/ UNCHANGED vars
  <2>1. Progress /\ ClusterInv'
    <3>1. CASE GrowChain \/ RootSlot \/ ForkChain
      BY <1>1, <3>1, GrowChainKeeps, RootSlotKeeps, ForkChainKeeps
    <3>2. CASE CreateInvoice \/ ExpireInvoice \/ UNCHANGED vars
      BY <1>1, <3>2, ClusterRests DEF CreateInvoice, ExpireInvoice, vars
    <3>3. QED BY <1>3, <3>1, <3>2
  <2>2. QED BY <1>1, <1>3, <2>1, OutsideSteps, QuietKeeps
<1>4. CASE FetchBatch \/ SelectInFlight \/ AskRecent \/ AskOld
  BY <1>1, <1>4, FetchBatchKeeps, SelectInFlightKeeps, AskRecentKeeps, AskOldKeeps
<1>5. CASE ApplyTransaction \/ Orphan \/ Confirm \/ FinalisePayment
  BY <1>1, <1>5, ApplyTransactionKeeps, OrphanKeeps, ConfirmKeeps, FinalisePaymentKeeps
<1>6. QED BY <1>2, <1>3, <1>4, <1>5 DEF Next, TickStep

LEMMA SafetyInvariant == Spec => []SafetyInv
  BY InitSafe, NextSafe, PTL DEF Spec

\* However the cluster forks between the RPC calls of a tick and its UPDATEs, a
\* payment that is system_confirmed is in a finalized slot and succeeded there.
THEOREM FinalCorrect == Spec => []FinalIsReal
<1>1. SafetyInv => FinalIsReal
  BY DEF SafetyInv, RowsInv, FinalIsReal, Settlement
<1>2. QED BY <1>1, SafetyInvariant, PTL

\* A payment that is orphaned has failed or is in no slot, whatever landed,
\* dropped out and landed again while the tick was asking: for every Lifetime
\* that is within RECENT_STATUS_WINDOW_SLOTS.
THEOREM OrphanCorrect == Spec => []OrphanIsGone
<1>1. SafetyInv => OrphanIsGone
  BY DEF SafetyInv, RowsInv, OrphanIsGone, Gone, Payments
<1>2. QED BY <1>1, SafetyInvariant, PTL
-----------------------------------------------------------------------------
(***************************************************************************)
(* What the merchant has been told.  Rows on record stay on record and     *)
(* events are never taken back, so what is left to show is that no step    *)
(* changes a row without owing its webhook.                                *)
(***************************************************************************)
LEMMA EventsGrow ==
  ASSUME [Next]_vars
  PROVE  events \subseteq events'
  BY DEF Next, TickStep, vars, ledgerVars, ExpireInvoices, MarkExpired, AnnounceExpired,
         LoadWatched, ReadRoot, DiscoverSignatures, ScanFails, SkipBooked, FetchBatch,
         ApplyTransaction, RecordCredits, FetchedAll, Recompute, WriteTotal, Notify, PickFeeds,
         SaveCursor, SelectInFlight, AskRecent, AskOld, Orphan, OrphanPayment, Confirm,
         FinalisePayment, Promote, PruneCursors, AbortTick, GrowChain, RootSlot, ForkChain,
         CreateInvoice, RegisterInvoice, ExpireInvoice, PassExpiry

\* The steps that write no payment row.
LEMMA RowsRest ==
  ASSUME [Next]_vars, ~ApplyTransaction, ~Orphan, ~Confirm, ~FinalisePayment
  PROVE  UNCHANGED payments
  BY DEF Next, TickStep, vars, ledgerVars, ExpireInvoices, MarkExpired, AnnounceExpired,
         LoadWatched, ReadRoot, DiscoverSignatures, ScanFails, SkipBooked, FetchBatch,
         FetchedAll, Recompute, WriteTotal, Notify, PickFeeds, SaveCursor, SelectInFlight,
         AskRecent, AskOld, PruneCursors, AbortTick, GrowChain, RootSlot, ForkChain,
         CreateInvoice, RegisterInvoice, ExpireInvoice, PassExpiry

\* An UPDATE of the status of a row, for an answer of the tick.
LEMMA AnswerActs ==
  ASSUME TypeInv, Orphan \/ Confirm \/ FinalisePayment
  PROVE  \E v \in tick.answers, status \in PaymentStatuses \ {"absent"} :
           /\ v.pay \in Payments
           /\ payments' = [payments EXCEPT ![v.pay].status = status]
           /\ \A p \in Payments :
                /\ payments'[p].slot = payments[p].slot
                /\ payments'[p].status = IF p = v.pay THEN status ELSE payments[p].status
           /\ \/ Orphan /\ status = "orphaned" /\ v.says \in {"dropped", "failed"}
              \/ Confirm /\ status = "merchant_confirmed" /\ v.says \in {"confirmed", "finalized"}
              \/ FinalisePayment /\ status = "system_confirmed" /\ v.says = "finalized"
<1>1. \A v \in tick.answers : v.pay \in Payments
  BY TickFacts DEF TickLocals, Answers
<1>2. ASSUME NEW v \in tick.answers, NEW status \in PaymentStatuses \ {"absent"},
             payments' = [payments EXCEPT ![v.pay].status = status]
      PROVE  \A p \in Payments :
               /\ payments'[p].slot = payments[p].slot
               /\ payments'[p].status = IF p = v.pay THEN status ELSE payments[p].status
  BY <1>1, <1>2, TickFacts DEF LedgerTypeOK, PaymentRows
<1>3. /\ "orphaned" \in PaymentStatuses \ {"absent"}
      /\ "merchant_confirmed" \in PaymentStatuses \ {"absent"}
      /\ "system_confirmed" \in PaymentStatuses \ {"absent"}
  BY DEF PaymentStatuses
<1>4. CASE Orphan
  <2>1. PICK v \in tick.answers : v.says \in {"dropped", "failed"} /\ OrphanPayment(v.pay)
    BY <1>4 DEF Orphan
  <2>2. payments' = [payments EXCEPT ![v.pay].status = "orphaned"]
    BY <2>1 DEF OrphanPayment
  <2>3. QED BY <1>1, <1>2, <1>3, <1>4, <2>1, <2>2
<1>5. CASE Confirm
  <2>1. PICK v \in tick.answers :
          v.says \in {"confirmed", "finalized"} /\ Promote(v.pay, "merchant_confirmed")
    BY <1>5 DEF Confirm
  <2>2. payments' = [payments EXCEPT ![v.pay].status = "merchant_confirmed"]
    BY <2>1 DEF Promote
  <2>3. QED BY <1>1, <1>2, <1>3, <1>5, <2>1, <2>2
<1>6. CASE FinalisePayment
  <2>1. PICK v \in tick.answers : v.says = "finalized" /\ Promote(v.pay, "system_confirmed")
    BY <1>6 DEF FinalisePayment
  <2>2. payments' = [payments EXCEPT ![v.pay].status = "system_confirmed"]
    BY <2>1 DEF Promote
  <2>3. QED BY <1>1, <1>2, <1>3, <1>6, <2>1, <2>2
<1>7. QED BY <1>4, <1>5, <1>6

\* A row, once there, is never deleted.
LEMMA RecordsStay ==
  ASSUME TypeInv, [Next]_vars, NEW p \in Payments, Recorded(p)
  PROVE  Recorded(p)'
<1>1. CASE ApplyTransaction
  <2>1. PICK b \in tick.bodies : RecordCredits(b.tx, Attributed(b.tx, tick.watched), b.slot)
    BY <1>1 DEF ApplyTransaction
  <2>2. QED BY <2>1 DEF RecordCredits, Recorded
<1>2. CASE Orphan \/ Confirm \/ FinalisePayment
  BY <1>2, AnswerActs DEF Recorded
<1>3. CASE ~(ApplyTransaction \/ Orphan \/ Confirm \/ FinalisePayment)
  BY <1>3, RowsRest DEF Recorded
<1>4. QED BY <1>1, <1>2, <1>3

\* What each step may announce, and the UPDATEs that leave a webhook to be sent.
LEMMA EventsNews ==
  ASSUME [Next]_vars, NEW e \in events' \ events
  PROVE  \/ Notify /\ e = tick.notify
         \/ \E x : e \in {<<"invoice.expired", x>>, <<"payment.detected", x>>,
                         <<"payment.orphaned", x>>}
<1>1. CASE AnnounceExpired
  BY <1>1 DEF AnnounceExpired
<1>2. CASE ApplyTransaction
  BY <1>2 DEF ApplyTransaction, RecordCredits
<1>3. CASE Orphan
  BY <1>3 DEF Orphan, OrphanPayment
<1>4. CASE Notify
  BY <1>4 DEF Notify
<1>5. CASE ~AnnounceExpired /\ ~ApplyTransaction /\ ~Orphan /\ ~Notify
  BY <1>5 DEF Next, TickStep, vars, ledgerVars, ExpireInvoices, MarkExpired, LoadWatched, ReadRoot,
         DiscoverSignatures, ScanFails, SkipBooked, FetchBatch, FetchedAll, Recompute, WriteTotal,
         PickFeeds, SaveCursor, SelectInFlight, AskRecent, AskOld, Confirm, FinalisePayment,
         Promote, PruneCursors, AbortTick, GrowChain, RootSlot, ForkChain, CreateInvoice,
         RegisterInvoice, ExpireInvoice, PassExpiry
<1>6. QED BY <1>1, <1>2, <1>3, <1>4, <1>5

LEMMA NotifyNews ==
  ASSUME TypeInv, [Next]_vars, ~Recompute, ~Confirm, ~FinalisePayment
  PROVE  tick'.notify \in {tick.notify, NoEvent}
<1>1. tick \in TickLocals
  BY TickFacts
<1>2. CASE DiscoverSignatures
  BY <1>1, <1>2 DEF DiscoverSignatures, TickLocals
<1>3. CASE FetchBatch
  BY <1>1, <1>3, SMTT(20) DEF FetchBatch, TickLocals
<1>4. CASE LoadWatched \/ PruneCursors \/ AbortTick
  <2>1. Idle.notify = NoEvent
    BY DEF Idle
  <2>2. tick' = Idle \/ tick' = [tick EXCEPT !.pc = "root", !.watched = WatchedInvoices]
    BY <1>4 DEF LoadWatched, PruneCursors, AbortTick
  <2>3. QED BY <1>1, <2>1, <2>2 DEF TickLocals
<1>5. CASE SaveCursor \/ ApplyTransaction \/ Orphan
  BY <1>1, <1>5 DEF SaveCursor, ApplyTransaction, Orphan, TickLocals
<1>6. CASE ExpireInvoices \/ AnnounceExpired \/ ReadRoot \/ ScanFails \/ SkipBooked
  BY <1>1, <1>6 DEF ExpireInvoices, AnnounceExpired, ReadRoot, ScanFails, SkipBooked, TickLocals
<1>7. CASE FetchedAll \/ PickFeeds \/ Notify \/ SelectInFlight \/ AskRecent \/ AskOld
  BY <1>1, <1>7 DEF FetchedAll, PickFeeds, Notify, SelectInFlight, AskRecent, AskOld, TickLocals
<1>8. CASE GrowChain \/ RootSlot \/ ForkChain \/ CreateInvoice \/ ExpireInvoice \/ UNCHANGED vars
  BY <1>8 DEF GrowChain, RootSlot, ForkChain, CreateInvoice, ExpireInvoice, vars
<1>9. QED BY <1>2, <1>3, <1>4, <1>5, <1>6, <1>7, <1>8 DEF Next, TickStep

\* An event, and a webhook that an UPDATE owes, is only lost with the tick.
LEMMA ToldStays ==
  ASSUME TypeInv, [Next]_vars, ~AbortTick, NEW e, e # NoEvent, Told(e)
  PROVE  Told(e)'
<1>1. CASE e \in events
  BY <1>1, EventsGrow DEF Told
<1>2. CASE tick.notify = e
  <2>1. CASE Notify
    BY <1>2, <2>1 DEF Notify, Told
  <2>2. CASE ~Notify
    <3>1. tick' = tick
      BY <1>2, <2>2 DEF Next, TickStep, At, Reconciled, vars, ExpireInvoices, AnnounceExpired,
         LoadWatched, ReadRoot, DiscoverSignatures, ScanFails, SkipBooked, FetchBatch,
         ApplyTransaction, FetchedAll, Recompute, PickFeeds, SaveCursor, SelectInFlight,
         AskRecent, AskOld, Orphan, Confirm, FinalisePayment, PruneCursors, GrowChain,
         RootSlot, ForkChain, CreateInvoice, ExpireInvoice
    <3>2. QED BY <1>2, <3>1 DEF Told
  <2>3. QED BY <2>1, <2>2
<1>3. QED BY <1>1, <1>2 DEF Told
-----------------------------------------------------------------------------
(***************************************************************************)
(* payment.finished: owed by the UPDATE that settles the invoice, and what *)
(* settled it was on record.                                               *)
(***************************************************************************)
RecordedFor(i) == {t \in Txs : Recorded(<<i, t>>)}
Funded(i) == Value[RecordedFor(i)] >= Requested[i]

FinishedInv ==
  TypeInv /\ \A i \in Invoices, status \in InvoiceStatuses :
               Told(<<"payment.finished", <<i, status>>>>) => Funded(i)

LEMMA FundedStays ==
  ASSUME TypeInv, [Next]_vars, NEW i \in Invoices, Funded(i)
  PROVE  Funded(i)'
<1>1. RecordedFor(i) \subseteq RecordedFor(i)'
  BY RecordsStay DEF RecordedFor, Payments
<1>2. RecordedFor(i) \in SUBSET Txs /\ RecordedFor(i)' \in SUBSET Txs
  BY DEF RecordedFor
<1>3. Value[RecordedFor(i)] <= Value[RecordedFor(i)']
  BY <1>1, <1>2, SolLedgerAssumption
<1>4. /\ Value[RecordedFor(i)] \in Nat /\ Value[RecordedFor(i)'] \in Nat
      /\ Requested[i] \in Nat
  BY <1>2, ConstantFacts, SolLedgerAssumption
<1>5. Funded(i)' <=> Value[RecordedFor(i)'] >= Requested[i]
  BY DEF Funded
<1> HIDE DEF Funded
<1>6. Value[RecordedFor(i)] >= Requested[i]
  BY DEF Funded
<1>7. QED BY <1>3, <1>4, <1>5, <1>6

LEMMA FinishesFunded ==
  ASSUME NEW i \in Invoices, Finishes(i)
  PROVE  Funded(i)
<1>1. /\ Credited(i) \in SUBSET Txs /\ RecordedFor(i) \in SUBSET Txs
      /\ Credited(i) \subseteq RecordedFor(i)
  BY DEF Credited, RecordedFor, Booked, Recorded
<1>2. /\ Value[Credited(i)] <= Value[RecordedFor(i)] /\ Value[Credited(i)] \in Nat
      /\ Value[RecordedFor(i)] \in Nat /\ Requested[i] \in Nat
  BY <1>1, ConstantFacts, SolLedgerAssumption
<1>3. Value[Credited(i)] >= Requested[i]
  BY DEF Finishes, Settled, StatusFor
<1>4. QED BY <1>2, <1>3 DEF Funded

LEMMA FinishedNews ==
  ASSUME TypeInv, [Next]_vars, NEW i \in Invoices, NEW status,
         Told(<<"payment.finished", <<i, status>>>>)'
  PROVE  Told(<<"payment.finished", <<i, status>>>>) \/ Finishes(i)
<1> DEFINE e == <<"payment.finished", <<i, status>>>>
<1>1. CASE Recompute
  <2>1. PICK j \in tick.todo :
          tick' = [tick EXCEPT !.todo = @ \ {j},
                     !.notify = IF Finishes(j)
                                THEN <<"payment.finished",
                                       <<j, StatusFor(j, Value[Credited(j)])>>>>
                                ELSE NoEvent]
    BY <1>1 DEF Recompute
  <2>2. tick'.notify = IF Finishes(j) THEN <<"payment.finished", <<j, StatusFor(j, Value[Credited(j)])>>>>
                       ELSE NoEvent
    BY <2>1, TickFacts DEF TickLocals
  <2>3. events' = events
    BY <1>1 DEF Recompute, WriteTotal
  <2>4. e # NoEvent
    BY DEF NoEvent
  <2>5. QED BY <2>2, <2>3, <2>4 DEF Told
<1>2. CASE Confirm \/ FinalisePayment
  <2>1. PICK v \in tick.answers :
          tick'.notify \in {<<"payment.confirmed", v.pay>>, <<"payment.finalized", v.pay>>}
    <3>1. tick \in TickLocals
      BY TickFacts
    <3>2. QED BY <1>2, <3>1 DEF TickLocals, Confirm, FinalisePayment
  <2>2. events' = events
    BY <1>2 DEF Confirm, FinalisePayment, Promote
  <2>3. tick'.notify # e
    BY <2>1
  <2>4. QED BY <2>2, <2>3 DEF Told
<1>3. CASE ~Recompute /\ ~Confirm /\ ~FinalisePayment
  <2>1. tick'.notify = e => tick.notify = e
    BY <1>3, NotifyNews DEF NoEvent
  <2>2. e \in events' \ events => tick.notify = e
    BY EventsNews
  <2>3. QED BY <2>1, <2>2 DEF Told
<1>4. QED BY <1>1, <1>2, <1>3

LEMMA FinishedInvariant == Spec => []FinishedInv
<1>1. Init => FinishedInv
  <2> SUFFICES ASSUME Init PROVE FinishedInv
    OBVIOUS
  <2>1. TypeInv /\ events = {} /\ tick.notify = NoEvent
    BY InitType DEF Init, LedgerInit, Idle
  <2>2. \A x : <<"payment.finished", x>> # NoEvent
    BY DEF NoEvent
  <2>3. QED BY <2>1, <2>2 DEF FinishedInv, Told
<1>2. FinishedInv /\ [Next]_vars => FinishedInv'
  <2> SUFFICES ASSUME FinishedInv, [Next]_vars PROVE FinishedInv'
    OBVIOUS
  <2>1. TypeInv /\ TypeInv'
    BY NextType DEF FinishedInv
  <2>2. ASSUME NEW i \in Invoices, NEW status \in InvoiceStatuses,
               Told(<<"payment.finished", <<i, status>>>>)'
        PROVE  Funded(i)'
    BY <2>1, <2>2, FinishedNews, FinishesFunded, FundedStays DEF FinishedInv
  <2>3. QED BY <2>1, <2>2 DEF FinishedInv
<1>3. QED BY <1>1, <1>2, PTL DEF Spec

\* However often payments are orphaned, land again and are counted again, no
\* merchant is told payment.finished of an invoice whose payments on record
\* do not add up to what was requested.
THEOREM FinishedFunded == Spec => []FinishedWasFunded
<1>1. FinishedInv => FinishedWasFunded
  BY DEF FinishedInv, FinishedWasFunded, Told, Funded, RecordedFor
<1>2. QED BY <1>1, FinishedInvariant, PTL
-----------------------------------------------------------------------------
(***************************************************************************)
(* Every change is told.  An answer is acted on after the row was read, so *)
(* the row must still be the one the answer is about: open, and with no    *)
(* other answer that would promote or orphan it twice.                     *)
(***************************************************************************)
StillOpen ==
  /\ \A p \in tick.rows : Open(p)
  /\ \A v \in tick.answers : Open(v.pay) /\ (tick.pc = "old" => v.pay \notin tick.rows)
  /\ \A v, w \in tick.answers : v.pay = w.pay => v = w

LEMMA StillOpenLess ==
  ASSUME StillOpen, UNCHANGED payments,
         tick'.rows \subseteq tick.rows, tick'.answers \subseteq tick.answers,
         tick'.pc = "old" => tick.pc = "old"
  PROVE  StillOpen'
  BY DEF StillOpen, Open

LEMMA VerdictsOpen ==
  ASSUME NEW ps \in SUBSET Payments, NEW history, \A p \in ps : Open(p)
  PROVE  /\ \A v \in Verdicts(ps, history) : Open(v.pay) /\ v.pay \in ps
         /\ \A v, w \in Verdicts(ps, history) : v.pay = w.pay => v = w
<1>1. ASSUME NEW v \in Verdicts(ps, history)
      PROVE  /\ v.pay \in ps
             /\ v = [pay |-> v.pay,
                     says |-> IF landed[v.pay[2]] = Nowhere THEN "dropped" ELSE Says(v.pay[2])]
  <2>1. CASE \E p \in ps : Dropped(p, history) /\ v = [pay |-> p, says |-> "dropped"]
    BY <2>1 DEF Dropped
  <2>2. CASE \E p \in ps : landed[p[2]] # Nowhere /\ v = [pay |-> p, says |-> Says(p[2])]
    BY <2>2
  <2>3. QED BY <1>1, <2>1, <2>2 DEF Verdicts
<1>2. \A v, w \in Verdicts(ps, history) : v.pay = w.pay => v = w
  BY <1>1
<1>3. QED BY <1>1, <1>2

LEMMA StillOpenNext ==
  ASSUME TypeInv, StillOpen, [Next]_vars
  PROVE  StillOpen'
<1>1. tick \in TickLocals
  BY TickFacts
<1>2. CASE \/ ExpireInvoices \/ AnnounceExpired \/ LoadWatched \/ ReadRoot
           \/ DiscoverSignatures \/ ScanFails \/ SkipBooked \/ FetchedAll
           \/ Recompute \/ Notify \/ PickFeeds \/ SaveCursor \/ PruneCursors \/ AbortTick
           \/ GrowChain \/ RootSlot \/ ForkChain \/ CreateInvoice \/ ExpireInvoice
           \/ UNCHANGED vars
  BY <1>2, QuietSteps, OutsideSteps, StillOpenLess DEF Quiet
<1>3. CASE FetchBatch
  <2>1. /\ tick'.rows = tick.rows /\ tick'.answers = tick.answers /\ tick'.pc = tick.pc
    BY <1>1, <1>3 DEF FetchBatch, TickLocals
  <2>2. QED BY <1>3, <2>1, StillOpenLess DEF FetchBatch, ledgerVars
<1>4. CASE ApplyTransaction
  <2>1. PICK b \in tick.bodies :
          /\ RecordCredits(b.tx, Attributed(b.tx, tick.watched), b.slot)
          /\ tick' = [tick EXCEPT !.bodies = @ \ {b}, !.applied = @ \cup {b.tx},
                        !.todo = @ \cup Attributed(b.tx, tick.watched)]
    BY <1>4 DEF ApplyTransaction
  <2>2. \A p \in Payments : Open(p) => Open(p)'
    BY <2>1 DEF RecordCredits, Open, Booked
  <2>3. tick'.rows = tick.rows /\ tick'.answers = tick.answers /\ tick'.pc = tick.pc
    BY <1>1, <2>1 DEF TickLocals
  <2>4. /\ \A p \in tick.rows : p \in Payments
        /\ \A v \in tick.answers : v.pay \in Payments
    BY <1>1 DEF TickLocals, Answers
  <2>5. QED BY <2>2, <2>3, <2>4 DEF StillOpen
<1>5. CASE SelectInFlight
  <2>1. /\ tick'.answers = tick.answers /\ tick'.pc = "recent"
        /\ tick'.rows = {p \in Payments : p[1] \in tick.watched /\ Open(p)}
    BY <1>1, <1>5 DEF SelectInFlight, TickLocals
  <2>2. \A p : Open(p)' = Open(p)
    BY <1>5 DEF SelectInFlight, ledgerVars, Open
  <2>3. QED BY <2>1, <2>2 DEF StillOpen
<1>6. CASE AskRecent \/ AskOld
  <2>1. PICK ps \in SUBSET tick.rows, history \in BOOLEAN :
          /\ tick'.answers = Verdicts(ps, history)
          /\ tick'.rows \subseteq tick.rows /\ tick'.rows \cap ps = {}
    <3>1. CASE AskRecent
      <4> DEFINE recent == {p \in tick.rows : Recent(p)}
      <4>1. /\ tick'.answers = Verdicts(recent, FALSE)
            /\ tick'.rows = {p \in tick.rows : ~Recent(p)}
        BY <1>1, <3>1 DEF AskRecent, TickLocals
      <4>2. recent \in SUBSET tick.rows /\ recent \cap {p \in tick.rows : ~Recent(p)} = {}
        OBVIOUS
      <4>3. QED BY <4>1, <4>2
    <3>2. CASE AskOld
      <4>1. tick'.answers = Verdicts(tick.rows, TRUE) /\ tick'.rows = {}
        BY <1>1, <3>2 DEF AskOld, TickLocals
      <4>2. QED BY <4>1
    <3>3. QED BY <1>6, <3>1, <3>2
  <2>2. ps \in SUBSET Payments /\ \A p \in ps : Open(p)
    BY <1>1 DEF StillOpen, TickLocals
  <2>3. /\ \A v \in tick'.answers : Open(v.pay) /\ v.pay \in ps
        /\ \A v, w \in tick'.answers : v.pay = w.pay => v = w
    BY <2>1, <2>2, VerdictsOpen
  <2>4. \A p : Open(p)' = Open(p)
    BY <1>6 DEF AskRecent, AskOld, ledgerVars, Open
  <2>5. QED BY <2>1, <2>3, <2>4 DEF StillOpen
<1>7. CASE Orphan \/ Confirm \/ FinalisePayment
  <2>1. PICK v \in tick.answers :
          /\ v.pay \in Payments
          /\ \A p \in Payments : p # v.pay => payments'[p].status = payments[p].status
          /\ \/ tick'.answers = tick.answers \ {v}
             \/ tick'.answers = tick.answers /\ payments'[v.pay].status = "merchant_confirmed"
          /\ tick'.rows = tick.rows /\ tick.pc = "old" /\ tick'.pc = "old"
    <3>1. CASE Orphan
      <4>1. PICK v \in tick.answers :
              /\ OrphanPayment(v.pay)
              /\ tick' = [tick EXCEPT !.answers = @ \ {v}, !.todo = @ \cup {v.pay[1]}]
        BY <3>1 DEF Orphan
      <4>2. v.pay \in Payments
        BY <1>1 DEF TickLocals, Answers
      <4>3. \A p \in Payments : p # v.pay => payments'[p] = payments[p]
        BY <4>1, <4>2, TickFacts DEF OrphanPayment, LedgerTypeOK
      <4>4. /\ tick'.answers = tick.answers \ {v} /\ tick'.rows = tick.rows
            /\ tick.pc = "old" /\ tick'.pc = "old"
        BY <1>1, <3>1, <4>1 DEF TickLocals, Orphan, At
      <4>5. QED BY <4>2, <4>3, <4>4
    <3>2. CASE Confirm
      <4>1. PICK v \in tick.answers :
              /\ Promote(v.pay, "merchant_confirmed")
              /\ tick' = [tick EXCEPT !.notify = <<"payment.confirmed", v.pay>>,
                            !.answers = IF v.says = "finalized" THEN @ ELSE @ \ {v}]
        BY <3>2 DEF Confirm
      <4>2. v.pay \in Payments
        BY <1>1 DEF TickLocals, Answers
      <4>3. /\ \A p \in Payments : p # v.pay => payments'[p] = payments[p]
            /\ payments'[v.pay].status = "merchant_confirmed"
        BY <4>1, <4>2, TickFacts DEF Promote, LedgerTypeOK, PaymentRows
      <4>4. /\ tick'.answers \in {tick.answers, tick.answers \ {v}} /\ tick'.rows = tick.rows
            /\ tick.pc = "old" /\ tick'.pc = "old"
        BY <1>1, <3>2, <4>1 DEF TickLocals, Confirm, At
      <4>5. QED BY <4>2, <4>3, <4>4
    <3>3. CASE FinalisePayment
      <4>1. PICK v \in tick.answers :
              /\ Promote(v.pay, "system_confirmed")
              /\ tick' = [tick EXCEPT !.notify = <<"payment.finalized", v.pay>>,
                            !.answers = @ \ {v}]
        BY <3>3 DEF FinalisePayment
      <4>2. v.pay \in Payments
        BY <1>1 DEF TickLocals, Answers
      <4>3. \A p \in Payments : p # v.pay => payments'[p] = payments[p]
        BY <4>1, <4>2, TickFacts DEF Promote, LedgerTypeOK
      <4>4. /\ tick'.answers = tick.answers \ {v} /\ tick'.rows = tick.rows
            /\ tick.pc = "old" /\ tick'.pc = "old"
        BY <1>1, <3>3, <4>1 DEF TickLocals, FinalisePayment, At
      <4>5. QED BY <4>2, <4>3, <4>4
    <3>4. QED BY <1>7, <3>1, <3>2, <3>3
  <2>2. \A p \in Payments : p # v.pay /\ Open(p) => Open(p)'
    BY <2>1 DEF Open
  <2>3. \A p \in tick'.rows : Open(p)'
    BY <1>1, <2>1, <2>2 DEF StillOpen, TickLocals
  <2>4. \A w \in tick'.answers : w.pay \in Payments /\ Open(w.pay)'
    <3>1. ASSUME NEW w \in tick'.answers PROVE w.pay \in Payments /\ Open(w.pay)'
      <4>1. w \in tick.answers /\ w.pay \in Payments /\ Open(w.pay)
        BY <1>1, <2>1 DEF TickLocals, Answers, StillOpen
      <4>2. CASE w.pay # v.pay
        BY <2>2, <4>1, <4>2
      <4>3. CASE w.pay = v.pay
        <5>1. w = v
          BY <4>1, <4>3 DEF StillOpen
        <5>2. payments'[v.pay].status = "merchant_confirmed"
          BY <2>1, <5>1
        <5>3. QED BY <4>1, <4>3, <5>2 DEF Open
      <4>4. QED BY <4>2, <4>3
    <3>2. QED BY <3>1
  <2>5. QED BY <2>1, <2>3, <2>4 DEF StillOpen
<1>8. QED BY <1>2, <1>3, <1>4, <1>5, <1>6, <1>7 DEF Next, TickStep

\* ChangesTold, with the expired invoices still to announce in their own step.
PaymentTold(p) ==
  /\ payments[p].status = "merchant_confirmed" => Told(<<"payment.confirmed", p>>)
  /\ payments[p].status = "system_confirmed"
       => Told(<<"payment.confirmed", p>>) /\ Told(<<"payment.finalized", p>>)
  /\ payments[p].status = "orphaned"
       => Told(<<"payment.orphaned", <<p, payments[p].slot>>>>)
InvoiceTold(i) ==
  /\ Settled(invoices[i].status)
       => \E status \in {"paid", "overpaid"} : Told(<<"payment.finished", <<i, status>>>>)
  /\ invoices[i].status = "expired"
       => Told(<<"invoice.expired", i>>) \/ (tick.pc = "expired" /\ i \in tick.todo)

ToldInv ==
  /\ TypeInv /\ StillOpen
  /\ aborts = 0 => (\A p \in Payments : PaymentTold(p)) /\ (\A i \in Invoices : InvoiceTold(i))

LEMMA PaymentToldRests ==
  ASSUME TypeInv, [Next]_vars, ~AbortTick, NEW p \in Payments, PaymentTold(p),
         payments'[p].status = payments[p].status, payments'[p].slot = payments[p].slot
  PROVE  PaymentTold(p)'
<1>1. \A e, x : Told(<<e, x>>) => <<e, x>> \in events' \/ tick'.notify = <<e, x>>
  <2>1. ASSUME NEW e, NEW x, Told(<<e, x>>) PROVE Told(<<e, x>>)'
    BY <2>1, ToldStays DEF NoEvent
  <2>2. QED BY <2>1 DEF Told
<1>2. QED BY <1>1 DEF PaymentTold, Told

LEMMA PaymentToldNext ==
  ASSUME ToldInv, [Next]_vars, ~AbortTick, aborts = 0, NEW p \in Payments
  PROVE  PaymentTold(p)'
<1>1. TypeInv /\ PaymentTold(p)
  BY DEF ToldInv
<1>2. CASE ~(ApplyTransaction \/ Orphan \/ Confirm \/ FinalisePayment)
  BY <1>1, <1>2, RowsRest, PaymentToldRests
<1>3. CASE ApplyTransaction
  <2>1. payments'[p] = payments[p] \/ payments'[p].status = "detected"
    <3>1. PICK b \in tick.bodies : RecordCredits(b.tx, Attributed(b.tx, tick.watched), b.slot)
      BY <1>3 DEF ApplyTransaction
    <3>2. QED BY <3>1 DEF RecordCredits
  <2>2. CASE payments'[p] = payments[p]
    BY <1>1, <2>2, PaymentToldRests
  <2>3. CASE payments'[p].status = "detected"
    BY <2>3 DEF PaymentTold
  <2>4. QED BY <2>1, <2>2, <2>3
<1>4. CASE Orphan
  <2>1. PICK v \in tick.answers : OrphanPayment(v.pay)
    BY <1>4 DEF Orphan
  <2>2. v.pay \in Payments
    BY <1>1, TickFacts DEF TickLocals, Answers
  <2>3. payments'[p].slot = payments[p].slot
    BY <1>1, <2>1, <2>2, TickFacts DEF OrphanPayment, LedgerTypeOK, PaymentRows
  <2>4. CASE p = v.pay
    <3>1. /\ payments'[p].status = "orphaned"
          /\ <<"payment.orphaned", <<p, payments'[p].slot>>>> \in events'
      BY <1>1, <2>1, <2>2, <2>3, <2>4, TickFacts DEF OrphanPayment, LedgerTypeOK, PaymentRows
    <3>2. QED BY <3>1 DEF PaymentTold, Told
  <2>5. CASE p # v.pay
    <3>1. payments'[p].status = payments[p].status
      BY <1>1, <2>1, <2>2, <2>5, TickFacts DEF OrphanPayment, LedgerTypeOK, PaymentRows
    <3>2. QED BY <1>1, <2>3, <3>1, PaymentToldRests
  <2>6. QED BY <2>4, <2>5
<1>5. CASE Confirm
  <2>1. PICK v \in tick.answers :
          /\ Promote(v.pay, "merchant_confirmed")
          /\ tick' = [tick EXCEPT !.notify = <<"payment.confirmed", v.pay>>,
                        !.answers = IF v.says = "finalized" THEN @ ELSE @ \ {v}]
    BY <1>5 DEF Confirm
  <2>2. v.pay \in Payments /\ tick'.notify = <<"payment.confirmed", v.pay>>
    BY <1>1, <2>1, TickFacts DEF TickLocals, Answers
  <2>3. /\ payments'[p].slot = payments[p].slot
        /\ p # v.pay => payments'[p].status = payments[p].status
        /\ p = v.pay => payments'[p].status = "merchant_confirmed"
    BY <1>1, <2>1, <2>2, TickFacts DEF Promote, LedgerTypeOK, PaymentRows
  <2>4. QED BY <1>1, <2>2, <2>3, PaymentToldRests DEF PaymentTold, Told
<1>6. CASE FinalisePayment
  <2>1. PICK v \in tick.answers :
          /\ v.says = "finalized" /\ ~DueConfirm(v.pay, v.says)
          /\ Promote(v.pay, "system_confirmed")
          /\ tick' = [tick EXCEPT !.notify = <<"payment.finalized", v.pay>>, !.answers = @ \ {v}]
    BY <1>6 DEF FinalisePayment
  <2>2. v.pay \in Payments /\ tick'.notify = <<"payment.finalized", v.pay>>
    BY <1>1, <2>1, TickFacts DEF TickLocals, Answers
  <2>3. /\ payments'[p].slot = payments[p].slot
        /\ p # v.pay => payments'[p].status = payments[p].status
        /\ p = v.pay => payments'[p].status = "system_confirmed"
    BY <1>1, <2>1, <2>2, TickFacts DEF Promote, LedgerTypeOK, PaymentRows
  <2>4. CASE p = v.pay
    <3>1. payments[p].status = "merchant_confirmed"
      BY <2>1, <2>4 DEF ToldInv, StillOpen, Open, DueConfirm, Reaches
    <3>2. Told(<<"payment.confirmed", p>>)'
      BY <1>1, <3>1, ToldStays DEF PaymentTold, NoEvent
    <3>3. Told(<<"payment.finalized", p>>)'
      BY <2>2, <2>4 DEF Told
    <3>4. QED BY <2>3, <2>4, <3>2, <3>3 DEF PaymentTold
  <2>5. QED BY <1>1, <2>3, <2>4, PaymentToldRests
<1>7. QED BY <1>2, <1>3, <1>4, <1>5, <1>6

LEMMA InvoicesRest ==
  ASSUME TypeInv, [Next]_vars, ~ExpireInvoices, ~Recompute, NEW i \in Invoices
  PROVE  invoices'[i].status = invoices[i].status
<1>1. CASE CreateInvoice
  <2>1. PICK j \in Invoices : invoices' = [invoices EXCEPT ![j].registered = TRUE]
    BY <1>1 DEF CreateInvoice, RegisterInvoice
  <2>2. QED BY <2>1, TickFacts DEF LedgerTypeOK, InvoiceRows
<1>2. CASE ExpireInvoice
  <2>1. PICK j \in Expiring : invoices' = [invoices EXCEPT ![j].timeUp = TRUE]
    BY <1>2 DEF ExpireInvoice, PassExpiry
  <2>2. QED BY <2>1, SolWatcherAssumption, TickFacts DEF LedgerTypeOK, InvoiceRows
<1>3. CASE ~CreateInvoice /\ ~ExpireInvoice
  <2>1. UNCHANGED invoices
    BY <1>3 DEF Next, TickStep, vars, ledgerVars, AnnounceExpired, LoadWatched, ReadRoot,
         DiscoverSignatures, ScanFails, SkipBooked, FetchBatch, ApplyTransaction, RecordCredits,
         FetchedAll, Notify, PickFeeds, SaveCursor, SelectInFlight, AskRecent, AskOld, Orphan,
         OrphanPayment, Confirm, FinalisePayment, Promote, PruneCursors, AbortTick, GrowChain,
         RootSlot, ForkChain
  <2>2. QED BY <2>1
<1>4. QED BY <1>1, <1>2, <1>3

\* The announcements still to come leave the tick only by being made.
LEMMA ExpiredStays ==
  ASSUME TypeInv, [Next]_vars, ~AbortTick, NEW i \in Invoices,
         Told(<<"invoice.expired", i>>) \/ (tick.pc = "expired" /\ i \in tick.todo)
  PROVE  Told(<<"invoice.expired", i>>)' \/ (tick'.pc = "expired" /\ i \in tick'.todo)
<1>1. CASE Told(<<"invoice.expired", i>>)
  <2>1. <<"invoice.expired", i>> # NoEvent
    BY DEF NoEvent
  <2>2. Told(<<"invoice.expired", i>>)'
    BY <1>1, <2>1, ToldStays
  <2>3. QED BY <2>2
<1>2. CASE tick.pc = "expired" /\ i \in tick.todo
  <2>1. tick \in TickLocals
    BY TickFacts
  <2>2. CASE AnnounceExpired
    <3>1. PICK j \in tick.todo : /\ events' = events \cup {<<"invoice.expired", j>>}
                                 /\ tick' = [tick EXCEPT !.todo = @ \ {j}]
      BY <2>2 DEF AnnounceExpired
    <3>2. tick'.pc = "expired" /\ tick'.todo = tick.todo \ {j}
      BY <1>2, <2>1, <3>1 DEF TickLocals
    <3>3. QED BY <1>2, <3>1, <3>2 DEF Told
  <2>3. CASE Notify
    BY <1>2, <2>1, <2>3 DEF Notify, TickLocals
  <2>4. CASE ~AnnounceExpired /\ ~Notify
    <3>1. tick' = tick
      BY <1>2, <2>4 DEF Next, TickStep, At, Reconciled, vars, ExpireInvoices,
         LoadWatched, ReadRoot, DiscoverSignatures, ScanFails, SkipBooked, FetchBatch,
         ApplyTransaction, FetchedAll, Recompute, PickFeeds, SaveCursor, SelectInFlight,
         AskRecent, AskOld, Orphan, Confirm, FinalisePayment, PruneCursors, GrowChain,
         RootSlot, ForkChain, CreateInvoice, ExpireInvoice
    <3>2. QED BY <1>2, <3>1
  <2>5. QED BY <2>2, <2>3, <2>4
<1>3. QED BY <1>1, <1>2

LEMMA InvoiceToldRests ==
  ASSUME TypeInv, [Next]_vars, ~AbortTick, NEW i \in Invoices, InvoiceTold(i),
         invoices'[i].status = invoices[i].status
  PROVE  InvoiceTold(i)'
<1>1. ASSUME NEW status, Told(<<"payment.finished", <<i, status>>>>)
      PROVE  Told(<<"payment.finished", <<i, status>>>>)'
  BY <1>1, ToldStays DEF NoEvent
<1>2. Settled(invoices[i].status)' => Settled(invoices[i].status)
  BY DEF Settled
<1>3. QED BY <1>1, <1>2, ExpiredStays DEF InvoiceTold

LEMMA InvoiceToldNext ==
  ASSUME ToldInv, [Next]_vars, ~AbortTick, aborts = 0, NEW i \in Invoices
  PROVE  InvoiceTold(i)'
<1>1. TypeInv /\ InvoiceTold(i) /\ tick \in TickLocals
  BY TickFacts DEF ToldInv
<1>2. CASE ~ExpireInvoices /\ ~Recompute
  BY <1>1, <1>2, InvoicesRest, InvoiceToldRests
<1>3. CASE ExpireInvoices
  <2>1. CASE Due(i)
    <3>1. invoices'[i].status = "expired"
      BY <1>1, <1>3, <2>1, TickFacts DEF ExpireInvoices, MarkExpired, LedgerTypeOK, InvoiceRows
    <3>2. tick'.pc = "expired" /\ i \in tick'.todo
      BY <1>1, <1>3, <2>1 DEF ExpireInvoices, TickLocals
    <3>3. QED BY <3>1, <3>2 DEF InvoiceTold, Settled
  <2>2. CASE ~Due(i)
    <3>1. invoices'[i].status = invoices[i].status
      BY <1>3, <2>2 DEF ExpireInvoices, MarkExpired
    <3>2. QED BY <1>1, <3>1, InvoiceToldRests
  <2>3. QED BY <2>1, <2>2
<1>4. CASE Recompute
  <2>1. PICK j \in tick.todo :
          /\ WriteTotal(j)
          /\ tick' = [tick EXCEPT !.todo = @ \ {j},
                     !.notify = IF Finishes(j)
                                THEN <<"payment.finished",
                                       <<j, StatusFor(j, Value[Credited(j)])>>>>
                                ELSE NoEvent]
    BY <1>4 DEF Recompute
  <2>2. j \in Invoices
    BY <1>1 DEF TickLocals
  <2>3. invoices' = [invoices EXCEPT ![j].received = Value[Credited(j)],
                       ![j].status = IF @ = "expired" THEN @
                                     ELSE StatusFor(j, Value[Credited(j)])]
    BY <2>1 DEF WriteTotal
  <2>4. CASE i # j \/ invoices[i].status = "expired"
    <3>1. invoices'[i].status = invoices[i].status
      BY <1>1, <2>2, <2>3, <2>4, TickFacts DEF LedgerTypeOK, InvoiceRows
    <3>2. QED BY <1>1, <3>1, InvoiceToldRests
  <2>5. CASE i = j /\ invoices[i].status # "expired"
    <3>0. PICK becomes : becomes = StatusFor(i, Value[Credited(i)])
      OBVIOUS
    <3>1. invoices'[i].status = becomes /\ becomes # "expired"
      <4>1. becomes # "expired"
        BY <3>0 DEF StatusFor
      <4>2. invoices'[i].status = becomes
        BY <1>1, <2>2, <2>3, <2>5, <3>0, TickFacts DEF LedgerTypeOK, InvoiceRows
      <4>3. QED BY <4>1, <4>2
    <3>2. tick'.notify = IF Finishes(i) THEN <<"payment.finished", <<i, becomes>>>> ELSE NoEvent
      BY <1>1, <2>1, <2>5, <3>0 DEF TickLocals
    <3>3. CASE Settled(becomes) /\ Finishes(i)
      <4>1. becomes \in {"paid", "overpaid"}
        BY <3>3 DEF Settled
      <4>2. Told(<<"payment.finished", <<i, becomes>>>>)'
        BY <3>2, <3>3 DEF Told
      <4>3. QED BY <3>1, <4>1, <4>2 DEF InvoiceTold
    <3>4. CASE Settled(becomes) /\ ~Finishes(i)
      <4>1. Settled(invoices[i].status)
        BY <2>5, <3>0, <3>4 DEF Finishes, Settled
      <4>2. PICK s \in {"paid", "overpaid"} : Told(<<"payment.finished", <<i, s>>>>)
        BY <1>1, <4>1 DEF InvoiceTold
      <4>3. <<"payment.finished", <<i, s>>>> # NoEvent
        BY DEF NoEvent
      <4>4. Told(<<"payment.finished", <<i, s>>>>)'
        BY <1>1, <4>2, <4>3, ToldStays
      <4>5. QED BY <3>1, <4>4 DEF InvoiceTold
    <3>5. CASE ~Settled(becomes)
      BY <3>1, <3>5 DEF InvoiceTold, Settled
    <3>6. QED BY <3>3, <3>4, <3>5
  <2>6. QED BY <2>4, <2>5
<1>5. QED BY <1>2, <1>3, <1>4

LEMMA ToldInvariant == Spec => []ToldInv
<1>1. Init => ToldInv
  <2> SUFFICES ASSUME Init PROVE ToldInv
    OBVIOUS
  <2>1. TypeInv
    BY InitType
  <2>2. StillOpen
    BY DEF Init, Idle, StillOpen
  <2>3. \A p \in Payments : PaymentTold(p)
    BY DEF Init, LedgerInit, PaymentTold
  <2>4. \A i \in Invoices : InvoiceTold(i)
    BY DEF Init, LedgerInit, InvoiceTold, Settled
  <2>5. QED BY <2>1, <2>2, <2>3, <2>4 DEF ToldInv
<1>2. ToldInv /\ [Next]_vars => ToldInv'
  <2> SUFFICES ASSUME ToldInv, [Next]_vars PROVE ToldInv'
    OBVIOUS
  <2>1. TypeInv' /\ StillOpen'
    BY NextType, StillOpenNext DEF ToldInv
  <2>2. aborts' = 0 => aborts = 0 /\ ~AbortTick
    <3>1. aborts \in Nat
      BY SolWatcherAssumption DEF ToldInv, TypeInv, SolTypeOK
    <3>2. AbortTick => aborts' # 0
      BY <3>1 DEF AbortTick
    <3>3. CASE ~AbortTick
      BY <3>3 DEF Next, TickStep, vars, ExpireInvoices, AnnounceExpired, LoadWatched, ReadRoot,
         DiscoverSignatures, ScanFails, SkipBooked, FetchBatch, ApplyTransaction,
         FetchedAll, Recompute, Notify, PickFeeds, SaveCursor, SelectInFlight, AskRecent,
         AskOld, Orphan, Confirm, FinalisePayment, PruneCursors, GrowChain, RootSlot,
         ForkChain, CreateInvoice, ExpireInvoice
    <3>4. QED BY <3>2, <3>3
  <2>3. QED BY <2>1, <2>2, PaymentToldNext, InvoiceToldNext DEF ToldInv
<1>3. QED BY <1>1, <1>2, PTL DEF Spec

\* As long as no tick is cut short, whatever single calls fail: every payment
\* that was confirmed, finalized or orphaned, and every invoice that settled or
\* expired, is one the merchant has been told of or is about to be.  (A tick
\* that dies between an UPDATE and its webhook forgets the webhook.)
THEOREM ChangesAreTold == Spec => [](aborts = 0 => ChangesTold)
<1>1. ToldInv => (aborts = 0 => ChangesTold)
  BY DEF ToldInv, ChangesTold, PaymentTold, InvoiceTold
<1>2. QED BY <1>1, ToldInvariant, PTL
=============================================================================
