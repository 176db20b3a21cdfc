------------------------------ MODULE EvmWatcher ------------------------------
(***************************************************************************)
(* The two services of an EVMNetwork, watch_addresses and watch_logs, over *)
(* the rows of EvmLedger and the chain of EvmChain.  spin_up runs them as  *)
(* two futures of one task, so either may run whenever the other awaits a  *)
(* statement or an RPC: every action below is the code between two such    *)
(* awaits.  A tick is the walk of pc from "idle" back to "idle".           *)
(***************************************************************************)
EXTENDS EvmLedger, FiniteSetsExt

CONSTANTS
  Services,            \* {"addresses"}, or {"addresses", "logs"} with a vault
  Kind,                \* transaction -> "native", "erc20" or "vault"
  NoTx,                \* not a transaction
  MAX_REORG_DEPTH,
  MAX_BLOCKS_PER_TICK,
  MAX_LOG_BLOCK_RANGE,
  MaxAborts,           \* bound: how many ticks fail or are cut by a crash
  Expiring             \* bound: the invoices whose expiry falls in the run

ASSUME WatcherAssumption ==
  /\ Services \subseteq {"addresses", "logs"}
  /\ Kind \in [Txs -> {"native", "erc20", "vault"}]
  /\ NoTx \notin Txs
  /\ MAX_REORG_DEPTH \in Nat
  /\ MAX_BLOCKS_PER_TICK \in Nat \ {0}
  /\ MAX_LOG_BLOCK_RANGE \in Nat \ {0}
  /\ MaxAborts \in Nat
  /\ Expiring \subseteq Invoices

VARIABLES
  cursors,  \* network_scan_state: scope -> last_block and last_block_hash
  seen,     \* network_seen_blocks: scope -> height -> hash, NoHash if no row
  svc,      \* service -> where its tick is, and what the tick holds in memory
  aborts    \* number of ticks cut short

vars == <<chainVars, ledgerVars, cursors, seen, svc, aborts>>

-----------------------------------------------------------------------------
NoCursor == [block |-> -1, hash |-> NoHash]

\* What getLogs or a block told about one transaction.
Sightings == [tx : Txs, block : Heights \ {Unmined}, hash : Hashes]

Steps == {"idle", "tip", "resume", "fork", "unwind", "locate", "relocate",
          "skip", "chunk", "block", "apply", "gap", "refresh", "select", "promote",
          "confirmed", "finalize", "finalized", "sum", "total", "settled"}

\* The locals of a tick.  Those that only matter for a while go back to their
\* idle value when the tick is done with them.
Idle == [pc |-> "idle",
         watched |-> {},    \* load_watched_invoices
         tip |-> 0,         \* eth_blockNumber
         plan |-> {},       \* load_scan_plan
         fork |-> 0,        \* detect_fork_point
         rows |-> {},       \* payments still to handle (reorg, refresh)
         snap |-> [t \in Txs |-> NoPayment], \* those rows as the SELECT saw them
         found |-> {},      \* sightings fetched with the chunk
         todo |-> {},       \* sightings to apply now
         anchor |-> NoHash, \* hash of the block or anchor just fetched
         end |-> 0,         \* chunk_end, or to
         rangeEnd |-> 0,    \* plan_range_end of the chunk
         scanned |-> 0,     \* blocks of the budget already used
         tx |-> NoTx,       \* the payment being handled
         sum |-> 0,         \* received, in recompute_invoice_totals
         ret |-> "idle"]    \* where recompute_invoice_totals returns to

TickLocals ==
  [pc : Steps, watched : SUBSET Invoices, tip : Heights, plan : SUBSET Heights,
   fork : Heights, rows : SUBSET Txs, snap : [Txs -> PaymentRows],
   found : SUBSET Sightings, todo : SUBSET Sightings, anchor : Hashes \cup {NoHash},
   end : Heights, rangeEnd : Heights, scanned : Nat,
   tx : Txs \cup {NoTx}, sum : Nat, ret : Steps]

Init ==
  /\ ChainInit
  /\ LedgerInit
  /\ cursors = [s \in Services |-> NoCursor]
  /\ seen = [s \in Services |-> [h \in Heights |-> NoHash]]
  /\ svc = [s \in Services |-> Idle]
  /\ aborts = 0

-----------------------------------------------------------------------------
\* Helpers of the tick.

At(s, step) == svc[s].pc = step
Go(s, step) == svc' = [svc EXCEPT ![s].pc = step]

Ceiling(s) == svc[s].tip - 1

\* save_cursor together with remember_block of the same header.
Park(s, block, hash) ==
  /\ cursors' = [cursors EXCEPT ![s] = [block |-> block, hash |-> hash]]
  /\ seen' = [seen EXCEPT ![s][block] = hash]

\* Mutant: the block the scan wants next is not looked at.
PlanAfter(plan, want) == {h \in plan : h > want}

\* plan_next_block: the first height of the plan from want on, if any.
PlanFrom(plan, want) == {h \in plan : h >= want}
PlanNext(plan, want) == Min(PlanFrom(plan, want))

\* plan_range_end: the end of the run of the plan that n is in.
PlanRangeEnd(plan, n, ceiling) ==
  IF n \in plan
  THEN Max({h \in plan : n <= h /\ (n .. h) \subseteq plan})
  ELSE ceiling

\* detect_fork_point demands a hash at every height: a height without one is
\* where it stops.  detect_fork_point_sparse goes on to the next anchor.
\* Both clamp at the floor.
ForkPoint(s) ==
  LET last == cursors[s].block
      floor == Max({last - MAX_REORG_DEPTH, 0})
      agree == {h \in floor .. last - 1 :
                  \/ seen[s][h] = hashAt[h]
                  \/ s = "addresses" /\ seen[s][h] = NoHash}
  IN  IF agree = {} THEN floor ELSE Max(agree)

Reorganised(s) ==
  /\ cursors[s].hash # NoHash
  /\ hashAt[cursors[s].block] # cursors[s].hash
  /\ ForkPoint(s) < cursors[s].block

\* Mutant: a payment just above the fork is left alone.
AffectedAboveNext(s) ==
  {t \in Txs : /\ InvoiceOf[t] \in svc[s].watched
               /\ payments[t].status \notin {"absent", "orphaned"}
               /\ payments[t].block > svc[s].fork + 1}

\* The payments handle_reorg no longer trusts.
Affected(s) ==
  {t \in Txs : /\ InvoiceOf[t] \in svc[s].watched
               /\ payments[t].status \notin {"absent", "orphaned"}
               /\ payments[t].block > svc[s].fork}

\* The next block is built on the last one the scanner applied.
Extends(s) == cursors[s].hash \in {NoHash, hashAt[cursors[s].block]}

\* The transactions of canonical block h that a watched invoice waits for.
Payable(s, kinds, h) ==
  {t \in Txs : /\ minedAt[t] = h
               /\ h # Unmined
               /\ Kind[t] \in kinds
               /\ InvoiceOf[t] \in svc[s].watched
               /\ invoices[InvoiceOf[t]].created <= h}
SightingsOf(txs, h) == {[tx |-> t, block |-> h, hash |-> hashAt[h]] : t \in txs}

-----------------------------------------------------------------------------
\* The start of a tick: tick_addresses and tick_logs, steps 1 and 2.

LoadWatched(s) ==
  /\ At(s, "idle")
  /\ svc' = [svc EXCEPT ![s].pc = "tip", ![s].watched = WatchedInvoices]
  /\ UNCHANGED <<chainVars, ledgerVars, cursors, seen, aborts>>

ReadTip(s) ==
  /\ At(s, "tip")
  /\ svc' = [svc EXCEPT ![s].pc = "resume", ![s].tip = tip]
  /\ UNCHANGED <<chainVars, ledgerVars, cursors, seen, aborts>>

\* load_scan_plan and load_cursor; without a cursor, start below the plan.
Resume(s) ==
  /\ At(s, "resume")
  /\ svc' = [svc EXCEPT ![s].pc = "fork", ![s].plan = ScanPlan]
  /\ cursors' = IF cursors[s] # NoCursor THEN cursors
                ELSE [cursors EXCEPT ![s] =
                        [block |-> IF ScanPlan = {} THEN Ceiling(s)
                                   ELSE Max({Min(ScanPlan) - 1, 0}),
                         hash |-> NoHash]]
  /\ UNCHANGED <<chainVars, ledgerVars, seen, aborts>>

DetectFork(s) ==
  /\ At(s, "fork")
  /\ svc' = IF Reorganised(s)
            THEN [svc EXCEPT ![s].pc = "unwind", ![s].fork = ForkPoint(s)]
            ELSE [svc EXCEPT ![s].pc = "skip"]
  /\ UNCHANGED <<chainVars, ledgerVars, cursors, seen, aborts>>

-----------------------------------------------------------------------------
\* handle_reorg.

SelectAffected(s) ==
  /\ At(s, "unwind")
  /\ svc' = [svc EXCEPT ![s].pc = "locate",
               ![s].rows = Affected(s)]
  /\ UNCHANGED <<chainVars, ledgerVars, cursors, seen, aborts>>

\* locate_tx: found keeps where the transaction is mined now, if it is.
LocateTx(s) ==
  /\ At(s, "locate")
  /\ \E t \in svc[s].rows :
       svc' = [svc EXCEPT ![s].pc = "relocate", ![s].tx = t,
                 ![s].rows = @ \ {t},
                 ![s].found = IF minedAt[t] = Unmined THEN {}
                              ELSE SightingsOf({t}, minedAt[t])]
  /\ UNCHANGED <<chainVars, ledgerVars, cursors, seen, aborts>>

\* Mutant: the totals are left for a later tick.
ContinueWith(s, step) == svc' = [svc EXCEPT ![s].pc = step, ![s].found = {}]

RecomputeThen(s, step) ==
  svc' = [svc EXCEPT ![s].pc = "sum", ![s].ret = step, ![s].found = {}]

ReorgReset(s) ==
  /\ At(s, "relocate")
  /\ \E f \in svc[s].found : ResetPayment(svc[s].tx, f.block, f.hash)
  /\ RecomputeThen(s, "locate")
  /\ UNCHANGED <<chainVars, cursors, seen, aborts>>

ReorgOrphan(s) ==
  /\ At(s, "relocate")
  /\ svc[s].found = {}
  /\ OrphanPayment(svc[s].tx)
  /\ RecomputeThen(s, "locate")
  /\ UNCHANGED <<chainVars, cursors, seen, aborts>>

\* our_hash_at and save_cursor: only after every affected payment is handled.
Rewind(s) ==
  /\ At(s, "locate")
  /\ svc[s].rows = {}
  /\ cursors' = [cursors EXCEPT ![s] = [block |-> svc[s].fork,
                                        hash |-> seen[s][svc[s].fork]]]
  /\ svc' = [svc EXCEPT ![s].pc = "skip", ![s].fork = 0, ![s].tx = NoTx]
  /\ UNCHANGED <<chainVars, ledgerVars, seen, aborts>>

-----------------------------------------------------------------------------
\* Scanning: tick_addresses and tick_logs, steps 3 and 4.

\* Step 3: park the cursor below the next height of the plan, or on the
\* ceiling when there is none; fast_forward_cursor leaves an anchor there.
SkipDeadSpace(s) ==
  LET want == cursors[s].block + 1
      idle == PlanFrom(svc[s].plan, want) = {}
      to == IF idle THEN Ceiling(s)
            ELSE Min({PlanNext(svc[s].plan, want) - 1, Ceiling(s)})
  IN  /\ At(s, "skip")
      /\ IF to > cursors[s].block THEN Park(s, to, hashAt[to])
                                  ELSE UNCHANGED <<cursors, seen>>
      /\ Go(s, IF idle THEN "refresh" ELSE "chunk")
      /\ UNCHANGED <<chainVars, ledgerVars, aborts>>

CanScan(s) == /\ svc[s].scanned < MAX_BLOCKS_PER_TICK
              /\ cursors[s].block + 1 <= Ceiling(s)

\* The head of the loop and the getLogs of the chunk: ERC-20 transfers to the
\* watched addresses, or Payment events of the vault.
FetchChunk(s) ==
  LET n == cursors[s].block + 1
      rangeEnd == PlanRangeEnd(svc[s].plan, n, Ceiling(s))
      end == Min({Ceiling(s), rangeEnd, n + MAX_BLOCKS_PER_TICK - svc[s].scanned - 1,
                  n + MAX_LOG_BLOCK_RANGE - 1})
      kinds == IF s = "logs" THEN {"vault"} ELSE {"erc20"}
  IN  /\ At(s, "chunk")
      /\ CanScan(s)
      /\ svc' = [svc EXCEPT ![s].pc = "block", ![s].end = end, ![s].rangeEnd = rangeEnd,
                   ![s].found = UNION {SightingsOf(Payable(s, kinds, h), h) : h \in n .. end}]
      /\ UNCHANGED <<chainVars, ledgerVars, cursors, seen, aborts>>

\* The loop ends: the budget is spent or the ceiling is reached.
StopScanning(s) ==
  /\ At(s, "chunk")
  /\ ~CanScan(s)
  /\ Go(s, "refresh")
  /\ UNCHANGED <<chainVars, ledgerVars, cursors, seen, aborts>>

\* get_block(m): a block that does not extend the last one applied ends the
\* scan; otherwise its native transfers, and those of the fetched transfers
\* that carry its hash, are applied.
GetBlock(s) ==
  LET m == cursors[s].block + 1
  IN  /\ At(s, "block")
      /\ s = "addresses"
      /\ svc' = IF Extends(s)
                THEN [svc EXCEPT ![s].pc = "apply", ![s].anchor = hashAt[m],
                        ![s].todo = SightingsOf(Payable(s, {"native"}, m), m)
                          \cup {f \in svc[s].found : f.block = m /\ f.hash = hashAt[m]},
                        ![s].found = {f \in @ : f.block # m}]
                ELSE [svc EXCEPT ![s].pc = "refresh", ![s].found = {}]
      /\ UNCHANGED <<chainVars, ledgerVars, cursors, seen, aborts>>

\* Mutant: the cursor is saved before the logs are applied.
GetAnchorAndPark(s) ==
  /\ At(s, "block")
  /\ s = "logs"
  /\ Park(s, svc[s].end, hashAt[svc[s].end])
  /\ svc' = [svc EXCEPT ![s].pc = "apply", ![s].anchor = hashAt[svc[s].end],
               ![s].todo = svc[s].found, ![s].found = {}]
  /\ UNCHANGED <<chainVars, ledgerVars, aborts>>

\* The header of the chunk's last block, fetched after the logs.
GetAnchor(s) ==
  /\ At(s, "block")
  /\ s = "logs"
  /\ svc' = [svc EXCEPT ![s].pc = "apply", ![s].anchor = hashAt[svc[s].end],
               ![s].todo = svc[s].found, ![s].found = {}]
  /\ UNCHANGED <<chainVars, ledgerVars, cursors, seen, aborts>>

\* One iteration of apply_block, apply_erc20_transfers or apply_payment_log.
Apply(s) ==
  /\ At(s, "apply")
  /\ \E f \in svc[s].todo :
       /\ \/ InsertPayment(f.tx, f.block, f.hash)
          \/ RelocatePayment(f.tx, f.block, f.hash)
       /\ svc' = [svc EXCEPT ![s].pc = "sum", ![s].ret = "apply", ![s].tx = f.tx,
                    ![s].todo = @ \ {f}]
  /\ UNCHANGED <<chainVars, cursors, seen, aborts>>

\* Everything of the block (or of the chunk) is applied: remember_block and
\* save_cursor, then the next block, the next chunk, or the end of a range.
Advance(s) ==
  LET m == IF s = "logs" THEN svc[s].end ELSE cursors[s].block + 1
      next == PlanFrom(svc[s].plan, m + 1)
  IN  /\ At(s, "apply")
      /\ svc[s].todo = {}
      /\ Park(s, m, svc[s].anchor)
      /\ svc' = [svc EXCEPT ![s].anchor = NoHash, ![s].tx = NoTx,
                   ![s].scanned = @ + m - cursors[s].block,
                   ![s].pc = IF m < svc[s].end THEN "block"
                             ELSE IF m + 1 <= svc[s].rangeEnd \/ m + 1 \in next THEN "chunk"
                             ELSE IF next = {} THEN "refresh" ELSE "gap"]
      /\ UNCHANGED <<chainVars, ledgerVars, aborts>>

\* Walked off a range: jump to the next one, if the ceiling is beyond.
JumpGap(s) ==
  LET to == Min({PlanNext(svc[s].plan, cursors[s].block + 1) - 1, Ceiling(s)})
  IN  /\ At(s, "gap")
      /\ IF to > cursors[s].block
         THEN Park(s, to, hashAt[to]) /\ Go(s, "chunk")
         ELSE UNCHANGED <<cursors, seen>> /\ Go(s, "refresh")
      /\ UNCHANGED <<chainVars, ledgerVars, aborts>>

-----------------------------------------------------------------------------
\* refresh_confirmations.

Recount(s) ==
  /\ At(s, "refresh")
  /\ CountConfirmations(svc[s].watched, svc[s].tip)
  /\ svc' = [svc EXCEPT ![s].pc = "select", ![s].plan = {}, ![s].end = 0,
               ![s].rangeEnd = 0, ![s].scanned = 0]
  /\ UNCHANGED <<chainVars, cursors, seen, aborts>>

SelectOpen(s) ==
  /\ At(s, "select")
  /\ LET open == {t \in Txs : InvoiceOf[t] \in svc[s].watched /\ Open(t)}
     IN  svc' = [svc EXCEPT ![s].pc = "promote", ![s].rows = open,
                   ![s].snap = [t \in Txs |-> IF t \in open THEN payments[t] ELSE NoPayment]]
  /\ UNCHANGED <<chainVars, ledgerVars, cursors, seen, aborts>>

\* Mutant: a payment due for both promotions only gets the last one.
DueConfirmOnly(s, t) == /\ svc[s].snap[t].status = "detected"
                        /\ svc[s].snap[t].confs >= Required[InvoiceOf[t]]
                        /\ svc[s].snap[t].confs < FINAL_CONFIRMATIONS

\* What the selected row of a payment is due for, as the SELECT saw it.
DueConfirm(s, t) == /\ svc[s].snap[t].status = "detected"
                    /\ svc[s].snap[t].confs >= Required[InvoiceOf[t]]

\* Mutant: one confirmation early.
DueFinalEarly(s, t) == svc[s].snap[t].confs + 1 >= FINAL_CONFIRMATIONS

DueFinal(s, t) == svc[s].snap[t].confs >= FINAL_CONFIRMATIONS
AfterConfirm(s, t) == IF DueFinal(s, t) THEN "finalize" ELSE "sum"

\* The rows come lowest block first; the guarded UPDATE to merchant_confirmed
\* when the row is due for it.
PromoteNext(s) ==
  /\ At(s, "promote")
  /\ \E t \in svc[s].rows :
       /\ \A u \in svc[s].rows : svc[s].snap[t].block <= svc[s].snap[u].block
       /\ Promote(t, DueConfirm(s, t) /\ MayConfirm(t), "merchant_confirmed")
       /\ svc' = [svc EXCEPT ![s].tx = t, ![s].rows = @ \ {t}, ![s].ret = "promote",
                    ![s].pc = IF DueConfirm(s, t) /\ MayConfirm(t) THEN "confirmed"
                              ELSE AfterConfirm(s, t)]
  /\ UNCHANGED <<chainVars, cursors, seen, aborts>>

\* payment.confirmed goes out in a transaction of its own.
NotifyConfirmed(s) ==
  /\ At(s, "confirmed")
  /\ Enqueue("payment.confirmed", svc[s].tx)
  /\ Go(s, AfterConfirm(s, svc[s].tx))
  /\ UNCHANGED <<chainVars, payments, invoices, cursors, seen, aborts>>

\* Mutant: the last promotion is not announced.
FinalizeSilently(s) ==
  /\ At(s, "finalize")
  /\ Promote(svc[s].tx, MayFinalize(svc[s].tx), "system_confirmed")
  /\ Go(s, "sum")
  /\ UNCHANGED <<chainVars, cursors, seen, aborts>>

\* The guarded UPDATE to system_confirmed.
Finalize(s) ==
  /\ At(s, "finalize")
  /\ Promote(svc[s].tx, MayFinalize(svc[s].tx), "system_confirmed")
  /\ Go(s, IF MayFinalize(svc[s].tx) THEN "finalized" ELSE "sum")
  /\ UNCHANGED <<chainVars, cursors, seen, aborts>>

NotifyFinalized(s) ==
  /\ At(s, "finalized")
  /\ Enqueue("payment.finalized", svc[s].tx)
  /\ Go(s, "sum")
  /\ UNCHANGED <<chainVars, payments, invoices, cursors, seen, aborts>>

\* prune_seen_blocks, and the sleep until the next tick.
EndTick(s) ==
  /\ At(s, "promote")
  /\ svc[s].rows = {}
  /\ seen' = [seen EXCEPT ![s] = [h \in Heights |->
                IF h < cursors[s].block - 2 * MAX_REORG_DEPTH THEN NoHash ELSE seen[s][h]]]
  /\ svc' = [svc EXCEPT ![s] = Idle]
  /\ UNCHANGED <<chainVars, ledgerVars, cursors, aborts>>

-----------------------------------------------------------------------------
\* recompute_invoice_totals of the invoice of svc[s].tx: SUM, the guarded
\* UPDATE, and payment.finished in a transaction of its own.

ReadTotal(s) ==
  /\ At(s, "sum")
  /\ svc' = [svc EXCEPT ![s].pc = "total", ![s].sum = Value[Credited(InvoiceOf[svc[s].tx])]]
  /\ UNCHANGED <<chainVars, ledgerVars, cursors, seen, aborts>>

SaveTotal(s) ==
  LET i == InvoiceOf[svc[s].tx]
  IN  /\ At(s, "total")
      /\ WriteTotal(i, svc[s].sum)
      /\ svc' = IF Finishes(i, svc[s].sum)
                THEN [svc EXCEPT ![s].pc = "settled"]
                ELSE [svc EXCEPT ![s].pc = svc[s].ret, ![s].sum = 0, ![s].ret = "idle"]
      /\ UNCHANGED <<chainVars, cursors, seen, aborts>>

NotifySettled(s) ==
  LET i == InvoiceOf[svc[s].tx]
  IN  /\ At(s, "settled")
      /\ Enqueue("payment.finished", <<i, StatusFor(i, svc[s].sum)>>)
      /\ svc' = [svc EXCEPT ![s].pc = svc[s].ret, ![s].sum = 0, ![s].ret = "idle"]
      /\ UNCHANGED <<chainVars, payments, invoices, cursors, seen, aborts>>

-----------------------------------------------------------------------------
\* A failing RPC or statement (the ? of the tick), or the death of the
\* process: what the tick holds in memory is gone, what it committed stays.
AbortTick(s) ==
  /\ ~At(s, "idle")
  /\ aborts < MaxAborts
  /\ aborts' = aborts + 1
  /\ svc' = [svc EXCEPT ![s] = Idle]
  /\ UNCHANGED <<chainVars, ledgerVars, cursors, seen>>

TickStep(s) ==
  \/ LoadWatched(s) \/ ReadTip(s) \/ Resume(s) \/ DetectFork(s)
  \/ SelectAffected(s) \/ LocateTx(s) \/ ReorgReset(s) \/ ReorgOrphan(s) \/ Rewind(s)
  \/ SkipDeadSpace(s) \/ FetchChunk(s) \/ StopScanning(s) \/ GetBlock(s) \/ GetAnchor(s)
  \/ Apply(s) \/ Advance(s) \/ JumpGap(s)
  \/ Recount(s) \/ SelectOpen(s) \/ PromoteNext(s) \/ NotifyConfirmed(s)
  \/ Finalize(s) \/ NotifyFinalized(s) \/ EndTick(s)
  \/ ReadTotal(s) \/ SaveTotal(s) \/ NotifySettled(s)

\* A payer knows where to pay once the invoice has its address.
PayableTxs == {t \in Txs : Registered(InvoiceOf[t])}

GrowChain == MineBlock(PayableTxs) /\ UNCHANGED <<ledgerVars, cursors, seen, svc, aborts>>
ReorgChain == Reorganise(PayableTxs) /\ UNCHANGED <<ledgerVars, cursors, seen, svc, aborts>>
CreateInvoice == /\ \E i \in Invoices : RegisterInvoice(i)
                 /\ UNCHANGED <<chainVars, cursors, seen, svc, aborts>>
ExpireInvoice == /\ \E i \in Expiring : PassExpiry(i)
                 /\ UNCHANGED <<chainVars, cursors, seen, svc, aborts>>

Next ==
  \/ \E s \in Services : TickStep(s)
  \/ \E s \in Services : AbortTick(s)
  \/ GrowChain
  \/ ReorgChain
  \/ CreateInvoice
  \/ ExpireInvoice

\* Each service loops for ever (an error ends the tick, not the loop), blocks
\* keep coming, and invoices get created.
Fairness ==
  /\ \A s \in Services : WF_vars(TickStep(s))
  /\ WF_vars(GrowChain)
  /\ WF_vars(CreateInvoice)

Spec == Init /\ [][Next]_vars
FairSpec == Spec /\ Fairness
-----------------------------------------------------------------------------
\* Properties.

\* Every variable and every local of a tick keeps its type; among others the
\* confirmation counter stays between 0 and the height of the chain
\* (GREATEST(0, ...) in refresh_confirmations).
TypeOK ==
  /\ ChainTypeOK
  /\ LedgerTypeOK
  /\ cursors \in [Services -> [block : Heights \cup {-1}, hash : Hashes \cup {NoHash}]]
  /\ seen \in [Services -> [Heights -> Hashes \cup {NoHash}]]
  /\ svc \in [Services -> TickLocals]
  /\ aborts \in 0 .. MaxAborts

\* A payment is promoted only when the block its row names is deep enough for
\* the promotion, in the chain as it is at that moment: neither a tip read at
\* the start of the tick nor a row selected before the loop of
\* refresh_confirmations is too old to decide on.
Becomes(t, status) == payments[t].status # status /\ payments'[t].status = status
PromotionIsDeep ==
  [][\A t \in Txs :
       /\ Becomes(t, "merchant_confirmed")
            => Depth(tip, payments[t].block) >= Required[InvoiceOf[t]]
       /\ Becomes(t, "system_confirmed")
            => Depth(tip, payments[t].block) >= FINAL_CONFIRMATIONS]_vars

\* An orphaned payment comes back as "detected" or not at all: no promotion
\* takes a payment out of "orphaned", whatever row the tick selected before it
\* was orphaned (refresh_confirmations, where "both promotions are guarded
\* UPDATEs whose WHERE clause includes the prior status").
OrphansStayOut ==
  [][\A t \in Txs : payments[t].status = "orphaned"
       => payments'[t].status \in {"orphaned", "detected"}]_vars

\* A promoted payment and a settled invoice have been announced, or the tick
\* that changed the row is about to announce it: the UPDATE and its webhook
\* are two transactions in refresh_confirmations and
\* recompute_invoice_totals.
Announcing(step, txs) == \E s \in Services : At(s, step) /\ svc[s].tx \in txs
PromotionsAnnounced ==
  /\ \A t \in Txs :
       /\ payments[t].status = "merchant_confirmed"
            => <<"payment.confirmed", t>> \in events \/ Announcing("confirmed", {t})
       /\ payments[t].status = "system_confirmed"
            => <<"payment.finalized", t>> \in events \/ Announcing("finalized", {t})
  /\ \A i \in Invoices : Settled(invoices[i].status)
       => \/ \E status \in {"paid", "overpaid"} : <<"payment.finished", <<i, status>>>> \in events
          \/ Announcing("settled", PaymentsOf(i))

\* payment.finalized never reaches a merchant who was not sent
\* payment.confirmed before, also when one refresh_confirmations takes the
\* payment over both thresholds.
ConfirmedBeforeFinalized ==
  \A t \in Txs : <<"payment.finalized", t>> \in events => <<"payment.confirmed", t>> \in events

\* The scanner misses nothing it has passed: between two ticks, with the
\* cursor on a canonical block, every transaction mined up to there that pays
\* an invoice still waiting for money is on record and credited (tick_addresses
\* and tick_logs, the plan, chunks, parent check and rewinding together).  It
\* speaks of the invoices that were there before the scanner: a tick loads its
\* watch set before it asks for the tip, so one that is created in between may
\* be passed over.
Passed(s, block) ==
  At(s, "idle") /\ block <= cursors[s].block /\ cursors[s].hash = hashAt[cursors[s].block]
ServiceOf(t) == IF Kind[t] = "vault" THEN "logs" ELSE "addresses"
ScanComplete ==
  \A s \in Services, t \in Txs :
    /\ s = ServiceOf(t)
    /\ minedAt[t] # Unmined
    /\ Passed(s, minedAt[t])
    /\ InvoiceOf[t] \in Existing
    /\ Live(InvoiceOf[t])
    => payments[t].status \notin {"absent", "orphaned"}

\* The other direction: between two ticks, with the cursor on a canonical
\* block, an open payment below it is where its row says it is.  A payment of
\* a replaced block is always found and moved or orphaned (detect_fork_point,
\* detect_fork_point_sparse, handle_reorg).
NoPhantom ==
  \A s \in Services, t \in Txs :
    /\ s = ServiceOf(t)
    /\ Open(t)
    /\ Passed(s, payments[t].block)
    => minedAt[t] = payments[t].block /\ hashAt[minedAt[t]] = payments[t].hash

\* The cursor is only moved over blocks it does not scan when none of them
\* holds a payment, not yet on record, to an invoice that this tick watches and
\* that still waits for money (steps 3 and the jump at the end of step 4, load_scan_plan,
\* merge_ranges, plan_next_block).
SkipsOnlyDeadSpace ==
  [][\A s \in Services, t \in Txs :
       /\ s = ServiceOf(t)
       /\ At(s, "skip") \/ At(s, "gap")
       /\ minedAt[t] # Unmined
       /\ cursors[s].block < minedAt[t] /\ minedAt[t] <= cursors'[s].block
       /\ InvoiceOf[t] \in svc[s].watched
       /\ Live(InvoiceOf[t])
       => payments[t].status \notin {"absent", "orphaned"}]_vars

\* A tick cut between a row and the total of its invoice is made up for before
\* the cursor gets past the row: between two ticks, an invoice whose payments
\* are all behind the cursor, on a canonical block, has the total they add up
\* to (the cursor is saved last, and apply_block, apply_erc20_transfers and
\* apply_payment_log recompute for a payment they know as well).
TotalsBehindCursor ==
  \A s \in Services, i \in Invoices :
    (\A t \in PaymentsOf(i) :
       payments[t].status # "absent" => s = ServiceOf(t) /\ Passed(s, payments[t].block))
    => invoices[i].received = Value[Credited(i)]

\* An invoice ends up with the sum of its payments that are not orphaned,
\* however many reorganisations, rescans and repeated ticks there were
\* (recompute_invoice_totals, always a full recompute).
TotalsConverge ==
  \A i \in Invoices : <>[](invoices[i].received = Value[Credited(i)])

\* A transaction that stays in a block deep enough ends as system_confirmed,
\* and is not forgotten on the way when its invoice is settled or expires,
\* unless the invoice stopped waiting for money before this was recorded, or
\* was created while the scanner ran (load_watched_invoices keeps an invoice
\* while a payment is open).
Buried(t) == /\ minedAt[t] # Unmined
             /\ minedAt[t] < tip
             /\ Depth(tip, minedAt[t]) >= FINAL_CONFIRMATIONS
NotNeeded(t) == /\ payments[t].status \in {"absent", "orphaned"}
                /\ ~Live(InvoiceOf[t]) \/ InvoiceOf[t] \notin Existing
EventuallyFinal ==
  \A t \in Txs : <>[]Buried(t) => <>[](payments[t].status = "system_confirmed" \/ NotNeeded(t))
=============================================================================
