---------------------------- MODULE EsploraWatcher ----------------------------
(***************************************************************************)
(* The two loops of an EsploraNetwork over the rows of EsploraLedger and   *)
(* the chain of EsploraChain.  chain_loop follows the tip, detects         *)
(* reorganisations and re-reads the payments above the fork; address_loop  *)
(* expires invoices and reads the address of every watched one.  spin_up   *)
(* joins them in one task, and an address tick runs process_invoice for    *)
(* several invoices at once: every action below is the code between two    *)
(* awaits.  A tick is the walk of pc from "idle" back to "idle".  Three    *)
(* actions fold several awaits of the chain loop into one step: the header *)
(* fetch with record_seen_block and save_cursor in CheckCursor and         *)
(* WalkPage, and the walk of find_fork_point, one SELECT and one GET per   *)
(* height, with the DELETE that follows it in ForgetAboveFork.             *)
(***************************************************************************)
EXTENDS EsploraLedger, FiniteSetsExt

CONSTANTS
  NoPay,                     \* not a payment
  ORPHAN_STRIKES,
  REORG_DEPTH,
  MAX_BLOCKS_PER_TICK,
  HEADER_PAGE,
  SEEN_BLOCK_RETENTION,
  ADDRESS_TX_PAGE_SATURATED,
  Expiring                   \* bound: the invoices whose expiry falls in the run

ASSUME EsploraWatcherAssumption ==
  /\ NoPay \notin Pays
  /\ ORPHAN_STRIKES \in Nat \ {0}
  /\ REORG_DEPTH \in Nat
  /\ MAX_BLOCKS_PER_TICK \in Nat \ {0}
  /\ HEADER_PAGE \in Nat \ {0}
  /\ SEEN_BLOCK_RETENTION \in Nat
  /\ ADDRESS_TX_PAGE_SATURATED \in Nat \ {0}
  /\ Expiring \subseteq Invoices

VARIABLES
  cursor,      \* network_scan_state: last_block and last_block_hash
  seen,        \* network_seen_blocks: height -> hash, NoHash if no row
  tip_height,  \* the tip the chain loop saw last, 0 before the first time
  strikes,     \* orphan_strikes: transaction -> consecutive denials
  chain,       \* where the tick of chain_loop is, and what it holds
  round,       \* where the tick of address_loop is, and its tip
  worker       \* invoice -> where its process_invoice is, and what it holds

loopVars == <<chain, round, worker>>
scanVars == <<cursor, seen, tip_height>>
vars == <<esploraChainVars, ledgerVars, scanVars, strikes, loopVars>>

-----------------------------------------------------------------------------
NoCursor == [block |-> -1, hash |-> NoHash]
NoRows == [p \in Pays |-> NoPayment]

\* A loop over payments: those still to ask about, their rows as the SELECT
\* saw them, the payment in hand and the answer about it.
IdleChain == [pc |-> "idle", target |-> 0, fork |-> 0, todo |-> {},
              snap |-> NoRows, pay |-> NoPay, at |-> Gone]
IdleRound == [pc |-> "idle", tip |-> 0]
IdleWorker == [pc |-> "idle", listed |-> {}, todo |-> {}, snap |-> NoRows,
               pay |-> NoPay, at |-> Gone]

ChainLocals ==
  [pc : {"idle", "cursor", "walk", "fork", "rewind", "select", "verify", "apply"},
   target : Heights, fork : Heights, todo : SUBSET Pays,
   snap : [Pays -> PaymentRows], pay : Pays \cup {NoPay}, at : Answers]
RoundLocals == [pc : {"idle", "watch", "work"}, tip : Heights]
WorkerLocals ==
  [pc : {"idle", "list", "load", "apply", "decide"}, listed : SUBSET Entries,
   todo : SUBSET Pays, snap : [Pays -> PaymentRows], pay : Pays \cup {NoPay}, at : Answers]

Init ==
  /\ EsploraChainInit
  /\ LedgerInit
  /\ cursor = NoCursor
  /\ seen = [h \in Heights |-> NoHash]
  /\ tip_height = 0
  /\ strikes = [t \in Txs |-> 0]
  /\ chain = IdleChain
  /\ round = IdleRound
  /\ worker = [i \in Invoices |-> IdleWorker]

-----------------------------------------------------------------------------
\* tick_chain.

ChainAt(step) == chain.pc = step
ChainGo(step) == chain' = [chain EXCEPT !.pc = step]
ChainDone == chain' = IdleChain
LedgerAndRestUnchanged == UNCHANGED <<ledgerVars, strikes, round, worker>>

\* save_cursor and record_seen_block of the same header.
Park(block) ==
  /\ cursor' = [block |-> block, hash |-> hashAt[block]]
  /\ seen' = [seen EXCEPT ![block] = hashAt[block]]

ReadTip ==
  /\ ChainAt("idle")
  /\ \E v \in Heights : /\ AnswersTip(v)
                        /\ tip_height' = v
  /\ ChainGo("cursor")
  /\ UNCHANGED <<chainVars, known, cursor, seen>> /\ LedgerAndRestUnchanged

\* A cold start anchors at the tip; an endpoint behind the cursor ends the
\* tick; then the hash of the last block decides between fork and walk.
CheckCursor ==
  /\ ChainAt("cursor")
  /\ \/ /\ cursor = NoCursor
        /\ Park(tip_height)
        /\ ChainDone
     \/ /\ cursor # NoCursor
        /\ chain' = IF tip_height < cursor.block THEN IdleChain
                    ELSE IF hashAt[cursor.block] # cursor.hash
                    THEN [chain EXCEPT !.pc = "fork"]
                    ELSE [chain EXCEPT !.pc = "walk",
                            !.target = Min({tip_height, cursor.block + MAX_BLOCKS_PER_TICK})]
        /\ UNCHANGED <<cursor, seen>>
  /\ UNCHANGED <<esploraChainVars, tip_height>> /\ LedgerAndRestUnchanged

\* One page of headers, from one response.  Its first header names the last
\* block committed as its parent, or the walk ends in a fork.
ParentMatches == hashAt[cursor.block] = cursor.hash
WalkPage ==
  LET last == Min({chain.target, cursor.block + HEADER_PAGE})
  IN  /\ ChainAt("walk")
      /\ cursor.block < chain.target
      /\ IF ParentMatches
         THEN /\ cursor' = [block |-> last, hash |-> hashAt[last]]
              /\ seen' = [h \in Heights |->
                            IF h \in cursor.block + 1 .. last THEN hashAt[h] ELSE seen[h]]
              /\ UNCHANGED chain
         ELSE chain' = [IdleChain EXCEPT !.pc = "fork"] /\ UNCHANGED <<cursor, seen>>
      /\ UNCHANGED <<esploraChainVars, tip_height>> /\ LedgerAndRestUnchanged

\* prune_seen_blocks, and the sleep until the next tick.
FinishWalk ==
  /\ ChainAt("walk")
  /\ cursor.block >= chain.target
  /\ seen' = [h \in Heights |->
                IF h < tip_height - SEEN_BLOCK_RETENTION THEN NoHash ELSE seen[h]]
  /\ ChainDone
  /\ UNCHANGED <<esploraChainVars, cursor, tip_height>> /\ LedgerAndRestUnchanged

\* Mutant: only a remembered height ends the search, and the floor is not
\* kept at zero.
ForkUnclamped ==
  Max({cursor.block - REORG_DEPTH} \cup
      {h \in 0 .. cursor.block - 1 : seen[h] = hashAt[h]})

\* find_fork_point: the first height below the cursor that has no row or whose
\* row agrees with the chain, and the floor if there is none above it.
ForkPoint ==
  LET floor == Max({cursor.block - REORG_DEPTH, 0})
  IN  Max({floor} \cup {h \in floor + 1 .. cursor.block - 1 : seen[h] \in {NoHash, hashAt[h]}})

\* find_fork_point and the DELETE of handle_reorg.
ForgetAboveFork ==
  /\ ChainAt("fork")
  /\ chain' = [chain EXCEPT !.pc = "rewind", !.fork = ForkPoint]
  /\ seen' = [h \in Heights |-> IF h > ForkPoint THEN NoHash ELSE seen[h]]
  /\ UNCHANGED <<esploraChainVars, cursor, tip_height>> /\ LedgerAndRestUnchanged

\* handle_reorg, block_hash_at and save_cursor.
Rewind ==
  /\ ChainAt("rewind")
  /\ cursor' = [block |-> chain.fork, hash |-> hashAt[chain.fork]]
  /\ ChainGo("select")
  /\ UNCHANGED <<esploraChainVars, seen, tip_height>> /\ LedgerAndRestUnchanged

\* reverify_payments_above: the SELECT, then GET and apply row by row.
AboveFork == {p \in Pays : /\ invoices[p[2]].clock # "unset"
                           /\ payments[p].block > chain.fork
                           /\ payments[p].status \notin {"absent", "orphaned"}}
RowsOf(S) == [p \in Pays |-> IF p \in S THEN payments[p] ELSE NoPayment]
ChainRests(c) == IF c.pc = "verify" /\ c.todo = {} THEN IdleChain ELSE c

SelectAboveFork ==
  /\ ChainAt("select")
  /\ chain' = ChainRests([chain EXCEPT !.pc = "verify", !.fork = 0, !.todo = AboveFork,
                            !.snap = RowsOf(AboveFork)])
  /\ UNCHANGED <<esploraChainVars, scanVars>> /\ LedgerAndRestUnchanged

AskAboveFork ==
  /\ ChainAt("verify")
  /\ \E p \in chain.todo, at \in Answers :
       /\ AnswersStatus(p[1], at)
       /\ chain' = [chain EXCEPT !.pc = "apply", !.todo = @ \ {p}, !.pay = p, !.at = at]
  /\ UNCHANGED <<chainVars, known, scanVars>> /\ LedgerAndRestUnchanged

\* The tip is the one this tick stored.
ApplyAboveFork ==
  /\ ChainAt("apply")
  /\ ApplyChainState(chain.pay, chain.snap[chain.pay], chain.at, tip_height)
  /\ chain' = ChainRests([chain EXCEPT !.pc = "verify", !.pay = NoPay, !.at = Gone,
                            !.snap[chain.pay] = NoPayment])
  /\ UNCHANGED <<esploraChainVars, scanVars, strikes, round, worker>>

ChainStep ==
  \/ ReadTip \/ CheckCursor \/ WalkPage \/ FinishWalk \/ ForgetAboveFork \/ Rewind
  \/ SelectAboveFork \/ AskAboveFork \/ ApplyAboveFork

-----------------------------------------------------------------------------
\* address_loop and tick_addresses.

\* expire_invoices; the tip of the tick is read when it returns.
Sweep ==
  /\ round.pc = "idle"
  /\ tip_height # 0
  /\ ExpireInvoices
  /\ round' = [pc |-> "watch", tip |-> tip_height]
  /\ UNCHANGED <<esploraChainVars, scanVars, strikes, chain, worker>>

LoadWatchSet ==
  /\ round.pc = "watch"
  /\ round' = IF WatchSet = {} THEN IdleRound ELSE [round EXCEPT !.pc = "work"]
  /\ worker' = [i \in Invoices |->
                  IF i \in WatchSet THEN [IdleWorker EXCEPT !.pc = "list"] ELSE IdleWorker]
  /\ UNCHANGED <<esploraChainVars, ledgerVars, scanVars, strikes, chain>>

FinishRound ==
  /\ round.pc = "work"
  /\ \A i \in Invoices : worker[i].pc = "idle"
  /\ round' = IdleRound
  /\ UNCHANGED <<esploraChainVars, ledgerVars, scanVars, strikes, chain, worker>>

RoundStep == Sweep \/ LoadWatchSet \/ FinishRound

-----------------------------------------------------------------------------
\* process_invoice.

WorkerAt(i, step) == worker[i].pc = step
Paying(i) == {p[1] : p \in PaymentsOf(i)}

ListAddress(i) ==
  /\ WorkerAt(i, "list")
  /\ \E listed \in SUBSET Entries :
       /\ ListsAddress(Paying(i), ADDRESS_TX_PAGE_SATURATED, listed)
       /\ worker' = [worker EXCEPT ![i].pc = "load", ![i].listed = listed]
  /\ UNCHANGED <<chainVars, known, ledgerVars, scanVars, strikes, chain, round>>

\* load_payments, and which of its rows are left to ask about: none if the
\* page was full, else those that are not orphaned and not listed.
Rests(w) == IF w.pc = "apply" /\ w.listed = {} /\ w.todo = {} THEN IdleWorker ELSE w

Recorded(i) == {p \in PaymentsOf(i) : payments[p].status # "absent"}
Unlisted(i) ==
  IF Cardinality(worker[i].listed) >= ADDRESS_TX_PAGE_SATURATED THEN {}
  ELSE {p \in Recorded(i) : /\ payments[p].status # "orphaned"
                            /\ \A e \in worker[i].listed : e.tx # p[1]}
LoadPayments(i) ==
  /\ WorkerAt(i, "load")
  /\ worker' = [worker EXCEPT ![i] = Rests([@ EXCEPT !.pc = "apply",
                  !.snap = RowsOf(Recorded(i)), !.todo = Unlisted(i)])]
  /\ UNCHANGED <<esploraChainVars, ledgerVars, scanVars, strikes, chain, round>>

\* Mutant: the newest tip is used with an older page.
ApplyListedAtTip(i) ==
  /\ WorkerAt(i, "apply")
  /\ \E e \in worker[i].listed :
       LET p == <<e.tx, i>>
           row == worker[i].snap[p]
           rest == [worker[i] EXCEPT !.listed = @ \ {e}, !.snap[p] = NoPayment]
       IN  /\ IF row.status = "absent"
              THEN InsertPayment(p, e.block, tip_height) /\ UNCHANGED strikes
              ELSE /\ ApplyChainState(p, row, e.block, tip_height)
                   /\ strikes' = [strikes EXCEPT ![e.tx] = 0]
           /\ worker' = [worker EXCEPT ![i] = Rests(rest)]
  /\ UNCHANGED <<esploraChainVars, scanVars, chain, round>>

\* A listed transaction: insert_payment, or clear_strike and apply_chain_state.
ApplyListed(i) ==
  /\ WorkerAt(i, "apply")
  /\ \E e \in worker[i].listed :
       LET p == <<e.tx, i>>
           row == worker[i].snap[p]
           rest == [worker[i] EXCEPT !.listed = @ \ {e}, !.snap[p] = NoPayment]
       IN  /\ IF row.status = "absent"
              THEN InsertPayment(p, e.block, round.tip) /\ UNCHANGED strikes
              ELSE /\ ApplyChainState(p, row, e.block, round.tip)
                   /\ strikes' = [strikes EXCEPT ![e.tx] = 0]
           /\ worker' = [worker EXCEPT ![i] = Rests(rest)]
  /\ UNCHANGED <<esploraChainVars, scanVars, chain, round>>

\* strike: this denial is the last one needed.
StruckOut(t) == strikes[t] + 1 >= ORPHAN_STRIKES

\* A row that is no longer listed: GET /tx/:txid/status, then clear_strike, or
\* strike and go on unless it was the last strike.
AskUnlisted(i) ==
  /\ WorkerAt(i, "apply")
  /\ worker[i].listed = {}
  /\ \E p \in worker[i].todo, at \in Answers :
       LET asked == [worker[i] EXCEPT !.todo = @ \ {p}]
       IN  /\ AnswersStatus(p[1], at)
           /\ strikes' = [strikes EXCEPT ![p[1]] = IF at # Gone THEN 0
                                                   ELSE Min({@ + 1, ORPHAN_STRIKES})]
           /\ worker' = [worker EXCEPT ![i] =
                IF at # Gone \/ StruckOut(p[1])
                THEN [asked EXCEPT !.pc = "decide", !.pay = p, !.at = at]
                ELSE Rests([asked EXCEPT !.snap[p] = NoPayment])]
  /\ UNCHANGED <<chainVars, known, ledgerVars, scanVars, chain, round>>

\* apply_chain_state, and clear_strike after the last strike.
ApplyUnlisted(i) ==
  LET p == worker[i].pay
  IN  /\ WorkerAt(i, "decide")
      /\ ApplyChainState(p, worker[i].snap[p], worker[i].at, round.tip)
      /\ strikes' = IF worker[i].at = Gone THEN [strikes EXCEPT ![p[1]] = 0] ELSE strikes
      /\ worker' = [worker EXCEPT ![i] = Rests([@ EXCEPT !.pc = "apply", !.pay = NoPay,
                                                !.at = Gone, !.snap[p] = NoPayment])]
      /\ UNCHANGED <<esploraChainVars, scanVars, chain, round>>

WorkerStep(i) ==
  \/ ListAddress(i) \/ LoadPayments(i) \/ ApplyListed(i)
  \/ AskUnlisted(i) \/ ApplyUnlisted(i)

-----------------------------------------------------------------------------
\* Failures.  Every error ends the tick of its loop, or the worker of its
\* invoice; a failed GET about one payment only skips that payment.

AbortChain ==
  /\ Fault
  /\ ~ChainAt("idle")
  /\ ChainDone
  /\ UNCHANGED <<chainVars, known, ledgerVars, scanVars, strikes, round, worker>>

SkipAboveFork ==
  /\ Fault
  /\ ChainAt("verify")
  /\ \E p \in chain.todo :
       chain' = ChainRests([chain EXCEPT !.todo = @ \ {p}, !.snap[p] = NoPayment])
  /\ UNCHANGED <<chainVars, known, ledgerVars, scanVars, strikes, round, worker>>

AbortWorker(i) ==
  /\ Fault
  /\ ~WorkerAt(i, "idle")
  /\ worker' = [worker EXCEPT ![i] = IdleWorker]
  /\ UNCHANGED <<chainVars, known, ledgerVars, scanVars, strikes, chain, round>>

SkipUnlisted(i) ==
  /\ Fault
  /\ WorkerAt(i, "apply")
  /\ worker[i].listed = {}
  /\ \E p \in worker[i].todo :
       LET rest == [worker[i] EXCEPT !.todo = @ \ {p}, !.snap[p] = NoPayment]
       IN  worker' = [worker EXCEPT ![i] = Rests(rest)]
  /\ UNCHANGED <<chainVars, known, ledgerVars, scanVars, strikes, chain, round>>

\* A failed sweep does not end the tick; a failed load_watch_set does.
SkipSweep ==
  /\ Fault
  /\ round.pc = "idle"
  /\ tip_height # 0
  /\ round' = [pc |-> "watch", tip |-> tip_height]
  /\ UNCHANGED <<chainVars, known, ledgerVars, scanVars, strikes, chain, worker>>

AbortRound ==
  /\ Fault
  /\ round.pc = "watch"
  /\ round' = IdleRound
  /\ UNCHANGED <<chainVars, known, ledgerVars, scanVars, strikes, chain, worker>>

\* The process dies and comes back: the rows and the cursor are all that is
\* left of both loops.
Crash ==
  /\ Fault
  /\ ChainDone
  /\ round' = IdleRound
  /\ worker' = [i \in Invoices |-> IdleWorker]
  /\ tip_height' = 0
  /\ strikes' = [t \in Txs |-> 0]
  /\ UNCHANGED <<chainVars, known, ledgerVars, cursor, seen>>

-----------------------------------------------------------------------------
\* The chain, the payers and the clock.

\* A payer knows where to pay once the invoice has its address.
PayableTxs == {p[1] : p \in {q \in Pays : invoices[q[2]].clock # "unset"}}
WatcherUnchanged == UNCHANGED <<ledgerVars, scanVars, strikes, loopVars>>

PayTx == Broadcast(PayableTxs) /\ WatcherUnchanged
LosePayTx == DropTx /\ WatcherUnchanged
GrowChain == MineKnown /\ WatcherUnchanged
ReorgChain == ReorgKnown /\ WatcherUnchanged
CreateInvoice == /\ \E i \in Invoices : RegisterInvoice(i)
                 /\ UNCHANGED <<esploraChainVars, scanVars, strikes, loopVars>>
ClockPasses == /\ \E i \in Expiring : PassTime(i)
               /\ UNCHANGED <<esploraChainVars, scanVars, strikes, loopVars>>

Next ==
  \/ ChainStep
  \/ RoundStep
  \/ \E i \in Invoices : WorkerStep(i)
  \/ AbortChain
  \/ SkipAboveFork
  \/ \E i \in Invoices : AbortWorker(i)
  \/ \E i \in Invoices : SkipUnlisted(i)
  \/ SkipSweep
  \/ AbortRound
  \/ Crash
  \/ PayTx
  \/ LosePayTx
  \/ GrowChain
  \/ ReorgChain
  \/ CreateInvoice
  \/ ClockPasses

\* Both loops swallow their errors and run for ever, and blocks keep coming.
\* Each subscript is what every step of its action changes.
Fairness ==
  /\ WF_<<chain, cursor>>(ChainStep)
  /\ WF_round(RoundStep)
  /\ \A i \in Invoices : WF_worker(WorkerStep(i))
  /\ WF_tip(GrowChain)

Spec == Init /\ [][Next]_vars
FairSpec == Spec /\ Fairness
-----------------------------------------------------------------------------
\* Properties.

\* Every variable and every local of the two loops keeps its type.
TypeOK ==
  /\ EsploraChainTypeOK
  /\ LedgerTypeOK
  /\ cursor \in [block : Heights \cup {-1}, hash : Hashes \cup {NoHash}]
  /\ seen \in [Heights -> Hashes \cup {NoHash}]
  /\ tip_height \in Heights
  /\ strikes \in [Txs -> 0 .. ORPHAN_STRIKES]
  /\ chain \in ChainLocals
  /\ round \in RoundLocals
  /\ worker \in [Invoices -> WorkerLocals]

\* The total and the status of an invoice are those of its payments at every
\* moment, whatever the two loops do to them at the same time: every
\* transaction that changes which payments count recomputes the total
\* (insert_payment, apply_chain_state, orphan_payment, settle_invoice).
TotalsExact ==
  \A i \in Invoices :
    /\ invoices[i].received = Total(payments, i)
    /\ invoices[i].status \in {"expired", StatusFor(i, Total(payments, i))}

\* A payment is final only while its transaction is buried under enough blocks
\* of the chain as it is now: neither a page read before a reorganisation nor a
\* tip read before that page makes a payment final that can still be lost
\* (promote, with the tip of tick_addresses or of reverify_payments_above).
FinalIsBuried ==
  \A p \in Pays : payments[p].status = "system_confirmed"
    => minedAt[p[1]] # Unmined /\ tip - minedAt[p[1]] + 1 >= FINAL_CONFIRMATIONS

\* The two loops together keep the books of InvoiceBook: whatever they
\* interleave, every step is one atomic entry, or none (settle_invoice and
\* maybe_finish inside the transaction of each change).
Book == INSTANCE InvoiceBook WITH
  counted <- {p \in Pays : payments[p].status \notin {"absent", "orphaned"}},
  book <- [i \in Invoices |->
             [status |-> invoices[i].status, received |-> invoices[i].received]],
  announced <- {i \in Invoices : <<"payment.finished", InvoiceKey, i>> \in events}
KeepsBooks == Book!Spec

\* Whatever a row says of a payment, the merchant has been told, if the
\* transaction pays one invoice of the merchant only (the dedupe suffix of
\* these webhooks is the transaction hash).
RowsAnnounced ==
  \A p \in Pays :
    LET told(type) == <<type, p[1], p[2]>> \in events
        status == payments[p].status
    IN  /\ status # "absent" => told("payment.detected")
        /\ status = "merchant_confirmed" => told("payment.confirmed")
        /\ status = "system_confirmed" => told("payment.finalized")
        /\ status = "orphaned" => told("payment.orphaned")

\* A settled invoice has been announced to its merchant (settle_invoice's
\* finished_now and maybe_finish; every finished invoice is an occurrence of
\* its own for enqueue_webhook).
SettledAnnounced ==
  \A i \in Invoices : invoices[i].status \in {"paid", "overpaid"}
    => <<"payment.finished", InvoiceKey, i>> \in events

\* A transaction that stays in a block deep enough ends as system_confirmed,
\* however many answers lag and calls fail, unless its invoice had left the
\* watch set before it was recorded (load_watch_set keeps an invoice while a
\* payment is short of system_confirmed).
Buried(t) == /\ minedAt[t] # Unmined
             /\ minedAt[t] < tip
             /\ tip - minedAt[t] + 1 >= FINAL_CONFIRMATIONS
NotWatched(p) == /\ payments[p].status \in {"absent", "orphaned"}
                 /\ p[2] \notin WatchSet
EventuallyFinal ==
  \A p \in Pays :
    <>[]Buried(p[1]) => <>[](payments[p].status = "system_confirmed" \/ NotWatched(p))

\* A transaction that is never mined again does not stay on record as mined:
\* its payment ends as orphaned, or as a detected one of the mempool
\* (handle_reorg, the strikes of process_invoice).
EventuallyOrphaned ==
  \A p \in Pays :
    <>[](minedAt[p[1]] = Unmined)
      => <>[](\/ payments[p].status \in {"absent", "orphaned"}
              \/ payments[p] = [status |-> "detected", block |-> Unmined] /\ p[1] \in known)

\* A payment that reached the network before expires_at is recorded, unless
\* it is dropped or even the grace period ends first (WATCH_GRACE_MINUTES: the
\* address is watched past expires_at because "a payer can broadcast inside
\* the window and be seen after it").
PaidInTimeIsRecorded ==
  \A p \in Pays :
    []((p[1] \in known /\ invoices[p[2]].clock = "open")
         => <>(\/ payments[p].status # "absent"
               \/ p[1] \notin known
               \/ invoices[p[2]].clock = "over"))
=============================================================================
