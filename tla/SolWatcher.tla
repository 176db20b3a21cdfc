------------------------------ MODULE SolWatcher ------------------------------
(***************************************************************************)
(* The watch_addresses service of a SolanaNetwork over the rows of         *)
(* SolLedger and the cluster of SolChain.  One task runs tick after tick;  *)
(* the cluster, the clock and the token handlers run between its awaits,   *)
(* and every action below is the code between two awaits.  A tick is the   *)
(* walk of pc from "idle" back to "idle".                                  *)
(***************************************************************************)
EXTENDS SolLedger, FiniteSetsExt

CONSTANTS
  Addresses,       \* deposit addresses and reference keys
  WatchAddresses,  \* invoice -> the addresses whose feeds may carry its money
  Names,           \* transaction -> the addresses it names
  Rank,            \* transaction -> its place among those of its slot
  NoTx,            \* not a transaction
  MAX_TX_PER_BATCH,
  MAX_SIGS,        \* SIG_PAGE_LIMIT * MAX_SIG_PAGES_PER_ADDRESS
  RECENT_STATUS_WINDOW_SLOTS,
  Expiring,        \* bound: the invoices whose expiry falls in the run
  MaxLapses,       \* bound: how many single calls fail without ending the tick
  MaxAborts        \* bound: how many ticks fail or are cut by a crash

\* A transaction names the addresses of the invoices it pays, or it would not
\* be a payment.  RecentWindow is what makes a null from the history final:
\* a transaction cannot land again that long after the slot it was seen in
\* (300 slots, blockhashes expire after 150).
ASSUME SolWatcherAssumption ==
  /\ WatchAddresses \in [Invoices -> SUBSET Addresses]
  /\ Names \in [Txs -> SUBSET Addresses]
  /\ Rank \in [Txs -> Nat]
  /\ \A t, u \in Txs : Rank[t] = Rank[u] => t = u
  /\ NoTx \notin Txs
  /\ MAX_TX_PER_BATCH \in Nat \ {0}
  /\ MAX_SIGS \in Nat \ {0}
  /\ RECENT_STATUS_WINDOW_SLOTS \in Nat
  /\ Lifetime <= RECENT_STATUS_WINDOW_SLOTS
  /\ Expiring \subseteq Invoices
  /\ MaxLapses \in Nat
  /\ MaxAborts \in Nat

VARIABLES
  cursors,  \* network_address_cursors: address -> last_signature and last_slot
  tick,     \* where the tick is, and what it holds in memory
  lapses,   \* number of single calls that failed so far
  aborts    \* number of ticks cut short

vars == <<chainVars, ledgerVars, cursors, tick, lapses, aborts>>

-----------------------------------------------------------------------------
NoCursor == [tx |-> NoTx, slot |-> Nowhere]

\* A SigRef: a signature as a feed listed it.
Sightings == [tx : Txs, slot : Slots, failed : BOOLEAN]

\* A body that getTransaction returned, and the slot its feed listed it in.
Bodies == [tx : Txs, listed : Slots, slot : Slots]

\* What getSignatureStatuses says of a payment.
Answers == [pay : Payments, says : {"dropped", "failed", "confirmed", "finalized"}]

NoScan == [sigs |-> {}, complete |-> FALSE]

Steps == {"idle", "expired", "root", "feeds", "fetch", "totals", "park", "recent", "old"}

NoEvent == <<>>

\* The locals of a tick, which go back to their idle value when it has no more
\* use for them.
Idle == [pc |-> "idle",
         notify |-> NoEvent,  \* the webhook that the last UPDATE still owes
         todo |-> {},         \* invoices to announce as expired, or to recompute
         watched |-> {},      \* load_watched_invoices
         root |-> Nowhere,    \* finalized_slot
         feeds |-> {},        \* addresses still to list, or to park
         scans |-> [a \in Addresses |-> NoScan],  \* per_address
         sigs |-> {},         \* sig_slots, then to_fetch
         bodies |-> {},       \* the batch just fetched, still to apply
         applied |-> {},      \* already, then applied
         rows |-> {},         \* payments in flight
         answers |-> {}]      \* statuses still to act on

TickLocals ==
  [pc : Steps, notify : Events \cup {NoEvent}, todo : SUBSET Invoices,
   watched : SUBSET Invoices, root : Slots, feeds : SUBSET Addresses,
   scans : [Addresses -> [sigs : SUBSET Sightings, complete : BOOLEAN]],
   sigs : SUBSET Sightings, bodies : SUBSET Bodies, applied : SUBSET Txs,
   rows : SUBSET Payments, answers : SUBSET Answers]

Init ==
  /\ ChainInit
  /\ LedgerInit
  /\ cursors = [a \in Addresses |-> NoCursor]
  /\ tick = Idle
  /\ lapses = 0
  /\ aborts = 0

-----------------------------------------------------------------------------
\* The task is at a step, with no webhook outstanding.
At(step) == tick.pc = step /\ tick.notify = NoEvent

AddressesOf(watched) == UNION {WatchAddresses[i] : i \in watched}

\* The order of a feed: by slot, and within a slot as the block has them.
Before(t, u) == \/ landed[t] < landed[u]
                \/ landed[t] = landed[u] /\ Rank[t] < Rank[u]
Earlier(r, s) == \/ r.slot < s.slot
                 \/ r.slot = s.slot /\ Rank[r.tx] < Rank[s.tx]

\* Mutant: the slot of the cursor is taken as read.
FeedAboveSlot(a) == {t \in Txs : /\ a \in Names[t]
                                 /\ landed[t] > cursors[a].slot}

\* What getSignaturesForAddress has after the cursor: the loop stops at the
\* first entry below the slot of the cursor, or at its signature.
Feed(a) ==
  {t \in Txs : /\ a \in Names[t]
               /\ landed[t] # Nowhere
               /\ landed[t] >= cursors[a].slot
               /\ cursors[a].tx # NoTx => Before(cursors[a].tx, t)}

\* The pages go backwards from the newest, and end at the cap.
Newest(txs) == {t \in txs : Cardinality({u \in txs : Before(t, u)}) < MAX_SIGS}
Sighting(t) == [tx |-> t, slot |-> landed[t], failed |-> failed[t]]

\* Mutant: a listing cut off by the page cap counts as the whole feed.
AnyScan(a) == [sigs |-> {Sighting(t) : t \in Newest(Feed(a))}, complete |-> TRUE]

Scan(a) == [sigs |-> {Sighting(t) : t \in Newest(Feed(a))},
            complete |-> Cardinality(Feed(a)) < MAX_SIGS]

\* Mutant: a signature that is not on record is stepped over.
SatisfiedOrHole(s) == s.slot <= tick.root

\* A signature the cursor may pass: final, and failed or dealt with.
Satisfied(s) == s.slot <= tick.root /\ (s.failed \/ s.tx \in tick.applied)

\* Those up to the first that it may not pass.
Passable(a) == {s \in tick.scans[a].sigs :
                  \A r \in tick.scans[a].sigs : Satisfied(r) \/ (r # s /\ Earlier(s, r))}
Parkable(a) == tick.scans[a].complete /\ Passable(a) # {}

\* Which of the rows in flight are polled without the ledger's history.
Recent(p) == payments[p].slot > tick.root - RECENT_STATUS_WINDOW_SLOTS

-----------------------------------------------------------------------------
\* expire_invoices and the watch set.

ExpireInvoices ==
  /\ At("idle")
  /\ MarkExpired
  /\ tick' = [tick EXCEPT !.pc = "expired", !.todo = {i \in Invoices : Due(i)}]
  /\ UNCHANGED <<chainVars, cursors, lapses, aborts>>

AnnounceExpired ==
  /\ At("expired")
  /\ \E i \in tick.todo :
       /\ events' = events \cup {<<"invoice.expired", i>>}
       /\ tick' = [tick EXCEPT !.todo = @ \ {i}]
  /\ UNCHANGED <<chainVars, payments, invoices, cursors, lapses, aborts>>

\* Nothing to watch ends the tick, without the pruning.
LoadWatched ==
  /\ At("expired")
  /\ tick.todo = {}
  /\ tick' = IF WatchedInvoices = {} THEN Idle
             ELSE [tick EXCEPT !.pc = "root", !.watched = WatchedInvoices]
  /\ UNCHANGED <<chainVars, ledgerVars, cursors, lapses, aborts>>

ReadRoot ==
  /\ At("root")
  /\ tick' = [tick EXCEPT !.pc = "feeds", !.root = root,
                !.feeds = AddressesOf(tick.watched)]
  /\ UNCHANGED <<chainVars, ledgerVars, cursors, lapses, aborts>>

-----------------------------------------------------------------------------
\* Discovery: one listing per address, in any order.

\* The first listing that has a signature decides its slot and its standing.
DiscoverSignatures ==
  /\ At("feeds")
  /\ \E a \in tick.feeds :
       tick' = [tick EXCEPT !.feeds = @ \ {a}, !.scans[a] = Scan(a),
                  !.sigs = @ \cup {s \in Scan(a).sigs : \A r \in @ : r.tx # s.tx}]
  /\ UNCHANGED <<chainVars, ledgerVars, cursors, lapses, aborts>>

\* A listing that fails leaves its address out of this tick.
ScanFails ==
  /\ At("feeds")
  /\ lapses < MaxLapses
  /\ lapses' = lapses + 1
  /\ \E a \in tick.feeds : tick' = [tick EXCEPT !.feeds = @ \ {a}]
  /\ UNCHANGED <<chainVars, ledgerVars, cursors, aborts>>

\* A signature that is on record for some watched invoice.
Known(t) == \E i \in tick.watched : Booked(<<i, t>>)

SkipBooked ==
  /\ At("feeds")
  /\ tick.feeds = {}
  /\ LET known == {s \in tick.sigs : Known(s.tx)}
     IN  tick' = [tick EXCEPT !.pc = "fetch", !.applied = {s.tx : s \in known},
                    !.sigs = {s \in @ \ known : ~s.failed}]
  /\ UNCHANGED <<chainVars, ledgerVars, cursors, lapses, aborts>>

-----------------------------------------------------------------------------
\* Bodies, oldest first, in batches.

\* A batch: the next chunk of to_fetch in the order of the listed slots.
IsChunk(chunk) ==
  /\ Cardinality(chunk) = Min({MAX_TX_PER_BATCH, Cardinality(tick.sigs)})
  /\ \A s \in chunk, r \in tick.sigs \ chunk : s.slot <= r.slot

\* The batch of getTransaction calls: a body that is null, or whose call
\* failed, is a hole; a transaction that failed in its slot is done with.
FetchBatch ==
  /\ At("fetch")
  /\ tick.bodies = {}
  /\ tick.sigs # {}
  /\ \E chunk \in SUBSET tick.sigs :
       /\ IsChunk(chunk)
       /\ \E lost \in SUBSET {s \in chunk : landed[s.tx] # Nowhere} :
            LET got == {s \in chunk \ lost : landed[s.tx] # Nowhere}
            IN  /\ lapses + Cardinality(lost) <= MaxLapses
                /\ lapses' = lapses + Cardinality(lost)
                /\ tick' = [tick EXCEPT !.sigs = @ \ chunk,
                     !.bodies = {[tx |-> s.tx, listed |-> s.slot, slot |-> landed[s.tx]] :
                                   s \in {g \in got : ~failed[g.tx]}},
                     !.applied = @ \cup {s.tx : s \in {g \in got : failed[g.tx]}}]
  /\ UNCHANGED <<chainVars, ledgerVars, cursors, aborts>>

\* apply_transaction of the next body of the batch.
ApplyTransaction ==
  /\ At("fetch")
  /\ \E b \in tick.bodies :
       LET credits == Attributed(b.tx, tick.watched)
       IN  /\ \A c \in tick.bodies : b.listed <= c.listed
           /\ RecordCredits(b.tx, credits, b.slot)
           /\ tick' = [tick EXCEPT !.bodies = @ \ {b}, !.applied = @ \cup {b.tx},
                         !.todo = @ \cup credits]
  /\ UNCHANGED <<chainVars, cursors, lapses, aborts>>

FetchedAll ==
  /\ At("fetch")
  /\ tick.bodies = {}
  /\ tick.sigs = {}
  /\ tick' = [tick EXCEPT !.pc = "totals"]
  /\ UNCHANGED <<chainVars, ledgerVars, cursors, lapses, aborts>>

-----------------------------------------------------------------------------
\* recompute_invoice_totals, of what was credited and later of what was
\* orphaned, and the webhook that an UPDATE owes.

Reconciled == At("old") /\ tick.answers = {} /\ tick.rows = {}

Recompute ==
  /\ At("totals") \/ Reconciled
  /\ \E i \in tick.todo :
       /\ WriteTotal(i)
       /\ tick' = [tick EXCEPT !.todo = @ \ {i},
                     !.notify = IF Finishes(i)
                                THEN <<"payment.finished",
                                       <<i, StatusFor(i, Value[Credited(i)])>>>>
                                ELSE NoEvent]
  /\ UNCHANGED <<chainVars, cursors, lapses, aborts>>

\* Mutant: the webhook is forgotten.
NotifyNothing ==
  /\ tick.notify # NoEvent
  /\ tick' = [tick EXCEPT !.notify = NoEvent]
  /\ UNCHANGED <<chainVars, ledgerVars, cursors, lapses, aborts>>

\* payment.finished, payment.confirmed and payment.finalized go out in a
\* transaction of their own.
Notify ==
  /\ tick.notify # NoEvent
  /\ events' = events \cup {tick.notify}
  /\ tick' = [tick EXCEPT !.notify = NoEvent]
  /\ UNCHANGED <<chainVars, payments, invoices, cursors, lapses, aborts>>

-----------------------------------------------------------------------------
\* Cursors.

PickFeeds ==
  /\ At("totals")
  /\ tick.todo = {}
  /\ tick' = [tick EXCEPT !.pc = "park", !.feeds = {a \in Addresses : Parkable(a)}]
  /\ UNCHANGED <<chainVars, ledgerVars, cursors, lapses, aborts>>

\* save_address_cursor, which never goes back to an earlier slot.
SaveCursor ==
  /\ At("park")
  /\ \E a \in tick.feeds :
       /\ \E s \in Passable(a) :
            /\ \A r \in Passable(a) : r = s \/ Earlier(r, s)
            /\ cursors' = IF cursors[a].slot <= s.slot
                          THEN [cursors EXCEPT ![a] = [tx |-> s.tx, slot |-> s.slot]]
                          ELSE cursors
       /\ tick' = [tick EXCEPT !.feeds = @ \ {a}]
  /\ UNCHANGED <<chainVars, ledgerVars, lapses, aborts>>

-----------------------------------------------------------------------------
\* reconcile_statuses.

SelectInFlight ==
  /\ At("park")
  /\ tick.feeds = {}
  /\ tick' = [tick EXCEPT !.pc = "recent", !.applied = {},
                !.scans = [a \in Addresses |-> NoScan],
                !.rows = {p \in Payments : p[1] \in tick.watched /\ Open(p)}]
  /\ UNCHANGED <<chainVars, ledgerVars, cursors, lapses, aborts>>

\* Mutant: the cluster's newest slot stands in for its root.
SaysTooSoon(t) == IF failed[t] THEN "failed" ELSE "finalized"

\* What a node says of a signature that landed.
Says(t) == IF failed[t] THEN "failed"
           ELSE IF landed[t] <= root THEN "finalized" ELSE "confirmed"

Reaches(says, level) == says = "finalized" \/ level # "finalized"

DueConfirm(p, says) == /\ payments[p].status = "detected"
                       /\ Reaches(says, RequiredLevel[p[1]])

\* Mutant: a null from the cache counts as much as one from the history.
DroppedForCache(p, history) == landed[p[2]] = Nowhere /\ payments[p].slot <= tick.root

\* A null is believed of a row below the root, when the history was searched.
Dropped(p, history) ==
  history /\ landed[p[2]] = Nowhere /\ payments[p].slot <= tick.root

\* The statuses of the payments in ps that something follows from.
Verdicts(ps, history) ==
  {[pay |-> p, says |-> "dropped"] : p \in {q \in ps : Dropped(q, history)}}
  \cup {[pay |-> p, says |-> Says(p[2])] :
          p \in {q \in ps : /\ landed[q[2]] # Nowhere
                            /\ Says(q[2]) # "confirmed" \/ DueConfirm(q, "confirmed")}}

\* getSignatureStatuses, first of the recent rows, then of the old ones with
\* searchTransactionHistory.
AskRecent ==
  /\ At("recent")
  /\ tick' = [tick EXCEPT !.pc = "old", !.rows = {p \in @ : ~Recent(p)},
                !.answers = Verdicts({p \in tick.rows : Recent(p)}, FALSE)]
  /\ UNCHANGED <<chainVars, ledgerVars, cursors, lapses, aborts>>

AskOld ==
  /\ At("old")
  /\ tick.answers = {}
  /\ tick.rows # {}
  /\ tick' = [tick EXCEPT !.rows = {}, !.answers = Verdicts(tick.rows, TRUE)]
  /\ UNCHANGED <<chainVars, ledgerVars, cursors, lapses, aborts>>

\* The answers are handled in the order of the rows, lowest slot first.
Foremost(v) == \A w \in tick.answers : payments[v.pay].slot <= payments[w.pay].slot

\* Mutant: the total is left as it was.
OrphanOnly ==
  /\ At("old")
  /\ \E v \in tick.answers :
       /\ Foremost(v)
       /\ v.says \in {"dropped", "failed"}
       /\ OrphanPayment(v.pay)
       /\ tick' = [tick EXCEPT !.answers = @ \ {v}]
  /\ UNCHANGED <<chainVars, cursors, lapses, aborts>>

Orphan ==
  /\ At("old")
  /\ \E v \in tick.answers :
       /\ Foremost(v)
       /\ v.says \in {"dropped", "failed"}
       /\ OrphanPayment(v.pay)
       /\ tick' = [tick EXCEPT !.answers = @ \ {v}, !.todo = @ \cup {v.pay[1]}]
  /\ UNCHANGED <<chainVars, cursors, lapses, aborts>>

\* promote_payment, the merchant's threshold; a final payment has more to come.
Confirm ==
  /\ At("old")
  /\ \E v \in tick.answers :
       /\ Foremost(v)
       /\ v.says \in {"confirmed", "finalized"}
       /\ DueConfirm(v.pay, v.says)
       /\ Promote(v.pay, "merchant_confirmed")
       /\ tick' = [tick EXCEPT !.notify = <<"payment.confirmed", v.pay>>,
                     !.answers = IF v.says = "finalized" THEN @ ELSE @ \ {v}]
  /\ UNCHANGED <<chainVars, cursors, lapses, aborts>>

\* promote_payment, finality.
FinalisePayment ==
  /\ At("old")
  /\ \E v \in tick.answers :
       /\ Foremost(v)
       /\ v.says = "finalized"
       /\ ~DueConfirm(v.pay, v.says)
       /\ Promote(v.pay, "system_confirmed")
       /\ tick' = [tick EXCEPT !.notify = <<"payment.finalized", v.pay>>, !.answers = @ \ {v}]
  /\ UNCHANGED <<chainVars, cursors, lapses, aborts>>

\* prune_address_cursors, of those not watched now and not moved for a week,
\* and the sleep until the next tick.
PruneCursors ==
  /\ Reconciled
  /\ tick.todo = {}
  /\ \E stale \in SUBSET (Addresses \ AddressesOf(tick.watched)) :
       cursors' = [a \in Addresses |-> IF a \in stale THEN NoCursor ELSE cursors[a]]
  /\ tick' = Idle
  /\ UNCHANGED <<chainVars, ledgerVars, lapses, aborts>>

-----------------------------------------------------------------------------
\* A failing RPC or statement (the ? of the tick), or the death of the
\* process: what the tick holds in memory is gone, what it committed stays.
AbortTick ==
  /\ tick.pc # "idle"
  /\ aborts < MaxAborts
  /\ aborts' = aborts + 1
  /\ tick' = Idle
  /\ UNCHANGED <<chainVars, ledgerVars, cursors, lapses>>

TickStep ==
  \/ ExpireInvoices \/ AnnounceExpired \/ LoadWatched \/ ReadRoot
  \/ DiscoverSignatures \/ SkipBooked
  \/ FetchBatch \/ ApplyTransaction \/ FetchedAll \/ Recompute \/ Notify
  \/ PickFeeds \/ SaveCursor
  \/ SelectInFlight \/ AskRecent \/ AskOld \/ Orphan \/ Confirm \/ FinalisePayment
  \/ PruneCursors

\* A payer knows where to pay once the invoice has its addresses, and names
\* those of every invoice the transaction pays.
PayableTxs ==
  {t \in Txs : \A i \in Invoices : WatchAddresses[i] \cap Names[t] # {} => invoices[i].registered}

GrowChain == NextSlot(PayableTxs) /\ UNCHANGED <<ledgerVars, cursors, tick, lapses, aborts>>
RootSlot == Finalize /\ UNCHANGED <<ledgerVars, cursors, tick, lapses, aborts>>
ForkChain == SwitchFork(PayableTxs) /\ UNCHANGED <<ledgerVars, cursors, tick, lapses, aborts>>
CreateInvoice == /\ \E i \in Invoices : RegisterInvoice(i)
                 /\ UNCHANGED <<chainVars, cursors, tick, lapses, aborts>>
ExpireInvoice == /\ \E i \in Expiring : PassExpiry(i)
                 /\ UNCHANGED <<chainVars, cursors, tick, lapses, aborts>>

Next ==
  \/ TickStep
  \/ ScanFails
  \/ AbortTick
  \/ GrowChain
  \/ RootSlot
  \/ ForkChain
  \/ CreateInvoice
  \/ ExpireInvoice

\* The service loops for ever (an error ends the tick, not the loop), slots
\* keep coming and get finalized, and invoices get created.
Fairness ==
  /\ WF_vars(TickStep)
  /\ WF_vars(GrowChain)
  /\ WF_vars(RootSlot)
  /\ WF_vars(CreateInvoice)

Spec == Init /\ [][Next]_vars
FairSpec == Spec /\ Fairness
-----------------------------------------------------------------------------
\* Properties.

\* Every variable and every local of the tick keeps its type.  Once the watch
\* set is loaded the tick only ever owes work to invoices in it, so the early
\* return of recompute_invoice_totals, for an invoice outside the index, never
\* swallows a total.
SolTypeOK ==
  /\ ChainTypeOK
  /\ LedgerTypeOK
  /\ cursors \in [Addresses -> [tx : Txs \cup {NoTx}, slot : Slots]]
  /\ tick \in TickLocals
  /\ tick.pc # "expired" => tick.todo \subseteq tick.watched
  /\ lapses \in 0 .. MaxLapses
  /\ aborts \in 0 .. MaxAborts

\* A cursor never passes money: a transaction that pays an invoice beyond
\* dispute, in a feed whose cursor is at it or beyond it, is on record for that
\* invoice and counted.  This is what the holes, the finalized
\* watermark, the page cap and the order within a slot of the tick's step 6
\* are about.
Behind(t, a) == \/ cursors[a].tx = t
                \/ landed[t] < cursors[a].slot
                \/ landed[t] = cursors[a].slot /\ cursors[a].tx # NoTx /\ Rank[t] < Rank[cursors[a].tx]
CursorSafe ==
  \A t \in Txs : \A i \in Attributed(t, Invoices) : \A a \in WatchAddresses[i] \cap Names[t] :
    Succeeded(t) /\ Behind(t, a) => Booked(<<i, t>>)

\* A payment called final is in a finalized slot, succeeded there, and so can
\* never be taken back: neither a fork nor a status asked for long ago makes a
\* payment system_confirmed that the cluster may still drop.
FinalIsReal ==
  \A p \in Payments :
    payments[p].status = "system_confirmed" => Rooted(p[2]) /\ Succeeded(p[2])

\* A payment is only given up when it is gone: one that is orphaned and cannot
\* have failed is in no slot, so no merchant walks back an order that is paid.
\* A null from the cache of recent statuses proves nothing, and one from
\* the history only long after the slot (reconcile_statuses).
OrphanIsGone ==
  \A p \in Payments :
    payments[p].status = "orphaned" /\ p[2] \notin MayFail => landed[p[2]] = Nowhere

\* Nothing happens to a payment or an invoice that the merchant is not told
\* of, or is about to be: the UPDATE and its webhook are two transactions in
\* expire_invoices, promote_payment and recompute_invoice_totals.
Told(event) == event \in events \/ tick.notify = event
ChangesTold ==
  /\ \A p \in Payments :
       /\ payments[p].status = "merchant_confirmed" => Told(<<"payment.confirmed", p>>)
       /\ payments[p].status = "system_confirmed"
            => Told(<<"payment.confirmed", p>>) /\ Told(<<"payment.finalized", p>>)
       /\ payments[p].status = "orphaned"
            => Told(<<"payment.orphaned", <<p, payments[p].slot>>>>)
  /\ \A i \in Invoices :
       /\ Settled(invoices[i].status)
            => \E status \in {"paid", "overpaid"} : Told(<<"payment.finished", <<i, status>>>>)
       /\ invoices[i].status = "expired" => Told(<<"invoice.expired", i>>) \/ i \in tick.todo

\* payment.finished only goes out for an invoice whose payments, those
\* orphaned since included, add up to what was requested
\* (recompute_invoice_totals).
FinishedWasFunded ==
  \A i \in Invoices, status \in InvoiceStatuses :
    <<"payment.finished", <<i, status>>>> \in events
      => Value[{t \in Txs : Recorded(<<i, t>>)}] >= Requested[i]

\* An invoice ends up with the sum of its payments that are not orphaned,
\* however many forks, rescans and failed calls there were
\* (recompute_invoice_totals, always a full recompute).
TotalsConverge ==
  \A i \in Invoices : <>[](invoices[i].received = Value[Credited(i)])

\* A transaction that the cluster finalizes ends as system_confirmed for every
\* invoice it pays beyond dispute, unless the invoice took no more money when the
\* transaction was noticed.
NotNeeded(i, t) == ~Booked(<<i, t>>) /\ invoices[i].status \in {"paid", "overpaid", "expired"}
EventuallyFinal ==
  \A t \in Txs : \A i \in Attributed(t, Invoices) :
    <>[](Rooted(t) /\ Succeeded(t))
      => <>[](payments[i, t].status = "system_confirmed" \/ NotNeeded(i, t))
=============================================================================
