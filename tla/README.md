# Verification of the payment watchers

TLA+ models of this payment processor, their TLC runs and their TLAPS proofs.
The service creates an invoice with an address of its own, watches a chain for
money sent there, counts confirmations, follows reorganisations and queues
webhooks for the merchant. What is hard about it is not any single statement but
what a chain, two scanners, failing calls and a database do *between* the
statements; that is what the modules here are about.

Paths below are relative to the repository root (`src/` holds the Rust code).

## 1. Inventory

| Component | State | Operations | Talks to |
|---|---|---|---|
| EVM scanners, `src/networks/evm.rs` | `network_scan_state` (one cursor per scope), `network_seen_blocks`, locals of a tick | `watch_addresses`, `watch_logs`: a tick each, every few seconds; `spin_up` runs both in one task | JSON-RPC of the chain; the payment rows |
| Payment rows, `migrations/0001_init.sql` | `invoices`, `payments`, `webhook_events` | the `INSERT`s and guarded `UPDATE`s of `evm.rs`, `enqueue_webhook` of `networks/mod.rs` | shared by both scanners, the handlers and the API |
| Solana watcher, `src/networks/sol.rs` | `network_address_cursors`, payments | `tick`: expire, watch set, finalized slot, signatures per address, transactions, totals, cursors, statuses, prune | JSON-RPC of the cluster; the payment rows |
| Bitcoin watcher, `src/networks/esplora.rs` | one cursor, seen blocks; in memory the tip and the orphan strikes | `chain_loop` (headers, reorganisations), `address_loop` (expiry sweep, then eight invoices at a time) | Esplora REST; the payment rows |
| Token handlers, `src/tokens/*.rs`, and `src/orchestrator.rs` | the invoice row | `create_invoice`: skeleton row, handler, address, the `UPDATE` that makes the row watchable | the networks (addresses, tip) |
| Addresses, `get_derive_address` and `ensure_merchant_wallets` of each network | `merchant_network_indices`, `merchant_wallets` | an upsert that hands out an index; main wallets inserted at start-up | the handlers; the EVM watch set joins the wallets |
| Merchant signup, `src/api/merchants.rs` | merchants, key material, the EVM wallet | one transaction | - |
| Invoice API and checkout, `src/api/*.rs` | none of its own | read, render, create | orchestrator |
| Vault, `contract.sol` | none (balances) | `pay`, `payNative`, `sweep` | `watch_logs` reads its `Payment` events |
| Frontend, `frontend/src` | none | renders a checkout page | HTTP API |
| Webhook dispatcher, ledger, reconciliation, compliance | - | described in documents; there is no code | - |

### What makes each correct, and what is hard

* **EVM scanners.** Nothing paid to a watched invoice in a block the cursor
  passed is missed; no payment stays credited that the chain has dropped;
  promotions happen at the promised depth, in order, and never undo an orphaning;
  totals follow the payments. Hard: the two scanners interleave at every `await`
  over the same rows; the chain reorganises between two RPC calls of one step;
  the cursor jumps over "dead space" computed from rows that change; a tick may
  die anywhere and is run again.
* **Payment rows.** A state change and the event that announces it; events at
  most once; a total that is rebuilt rather than adjusted. Hard: some of these
  pairs are one transaction and some are two.
* **Solana watcher.** A transaction is credited once and its invoice's total
  rebuilt; a cursor never steps over a transaction that was not credited; only
  a vanished transaction is orphaned. Hard: transactions become visible out of
  order, a page or a fetch has holes, a tick dies between crediting and totals.
* **Bitcoin watcher.** Totals that are exact at every moment, with the events of
  every change in the same transaction; a final payment stays in its block; a
  payment whose transaction is gone ends as orphaned. Hard: two concurrent loops on
  the same rows, a cursor saved before the work it stands for, answers of an indexer
  that lag behind the chain, an in-memory count of denials that a restart loses.
* **Invoice creation.** One address, one invoice; a row becomes watchable only
  when it is complete and pays its own merchant; whoever is given a checkout URL is
  watched. Hard: several statements without a transaction, each of which may fail,
  by concurrent requests, next to start-ups that insert wallets; two families count
  indices from 1 and one from 0, with the main wallets at 0.

## 2. Plan

| # | Module | Content | State |
|---|---|---|---|
| 1 | `EvmChain` | the chain behind the RPC (external) | done |
| 2 | `EvmLedger` | rows and statements, one action each | done |
| 3 | `EvmWatcher` | both scanners over 1 and 2 | done |
| 4 | `EvmWatcherProofs`, `EvmSafetyProofs`, `EvmScanProofs` | type invariant; events, promotions and their order; the scan up to the first reorganisation; the payments of replaced blocks up to the second | done |
| 5 | `SolChain` | the cluster: slots, forks, root (external) | done |
| 6 | `SolLedger` | rows and statements of `sol.rs` | done |
| 7 | `SolWatcher` | the tick of `sol.rs` over 5 and 6: cursors per address, holes, statuses, cuts | done |
| 8 | `SolProofs`, `SolCursorProofs` | all invariants of 7; the cursors in a module of their own | done |
| 9 | `EsploraChain`, `EsploraLedger`, `EsploraWatcher` | mempool and lagging answers (external); rows and transactions; both loops | done |
| 10 | `InvoiceCreation` | signup, start-up, orchestrator, handlers, index allocation | done |
| 11 | `InvoiceBook` | the book-keeping a watcher promises, implemented by 9 | done |
| 12 | `EsploraProofs`, `EsploraSafetyProofs`, `InvoiceCreationProofs` | types, safety and the refinement of 9; all invariants of 10 | done |
| 13 | `ScanPlan` | `merge_ranges`, `plan_next_block`, `plan_range_end` as list algorithms against the set they stand for in 2 | open |
| 14 | `RpcQuorum`, `Vault` | the provider quorum of `call_rpc`; `contract.sol` | open |

Each chain module is composed into its ledger and the ledger into its watcher by
`EXTENDS`: the watcher's actions are conjunctions of a statement of the ledger
and a step of the tick, the environment's are a step of the chain and a stutter
of the rest. `EsploraChain` extends `EvmChain`: a Bitcoin chain is one with a mempool.
`InvoiceBook` is the abstract specification: a set of payments that count, and totals
and statuses that follow it, with no chain, loop or database in it. The EVM and
Solana watchers do not implement it, since they write a payment, its total and its
events in separate statements; what they promise instead is `TotalsConverge`.
`InvoiceCreation` stands by itself: what it guarantees of a row (own address, mint,
floor) is what the watchers' `RegisterInvoice` takes for granted.

## 3. Modules

### EVM

* **`EvmChain`** - a canonical chain: `tip`, a hash per height, and where each
  transaction is mined. `MineBlock` grows it, `Reorganise` replaces at most
  `MaxReorgSpan` blocks by new ones and moves their transactions anywhere,
  the mempool included. Block 0 is never a payment's, so it doubles as "not mined".
* **`EvmLedger`** - `payments`, `invoices`, `events`. An operator per committed
  statement: `InsertPayment` (row and `payment.detected` in one transaction),
  `RelocatePayment`, `ResetPayment`, `OrphanPayment`, `CountConfirmations`,
  `Promote` with its guards, `WriteTotal`, and `RegisterInvoice` for the token
  handler. `WatchedInvoices` and `ScanPlan` are the two queries a tick starts from.
* **`EvmWatcher`** - a tick of either service as a walk of `svc[s].pc`; the record
  `svc[s]` holds exactly what the Rust function holds in local variables across
  an `await`. One action per stretch of code between two awaits:

  | Code | Actions |
  |---|---|
  | `tick_addresses` / `tick_logs`, start | `LoadWatched`, `ReadTip`, `Resume` |
  | `detect_fork_point`, `detect_fork_point_sparse` | `DetectFork` with `ForkPoint` |
  | `handle_reorg` | `SelectAffected`, `LocateTx`, `ReorgReset`, `ReorgOrphan`, `Rewind` |
  | step 3, `fast_forward_cursor` | `SkipDeadSpace` |
  | step 4 | `FetchChunk`, `GetBlock` or `GetAnchor`, `Apply`, `Advance`, `JumpGap`, `StopScanning` |
  | `refresh_confirmations` | `Recount`, `SelectOpen`, `PromoteNext`, `NotifyConfirmed`, `Finalize`, `NotifyFinalized` |
  | `recompute_invoice_totals` | `ReadTotal`, `SaveTotal`, `NotifySettled` |
  | `prune_seen_blocks`, sleep | `EndTick` |
  | any `?`, or the death of the process | `AbortTick` |

* **`MCEvmWatcher`** - the definitions the configurations choose from.

Simplifications, each on the data side: `remember_block` and `save_cursor` of the
same header are one step; the several `get_block` calls of a fork detection are
one step; loading the plan and loading the cursor are one step; a provider that
lags behind its own tip (a `None` block) is not modelled; the ceiling is `tip - 1`
(the code's clamp at 0 never applies, the model's chain starts at 1); the open end
of a range is the last height, which every use takes the minimum of with the
ceiling; the in-memory `pending` hints and the splitting of address lists over
several `eth_getLogs` are left out; the merchant has a wallet and a webhook URL;
a replaced block never returns; a transaction pays one invoice once. The death of
the process is the end of the ticks of both services, one `AbortTick` each.

### Solana

* **`SolChain`** - a cluster: the newest confirmed slot `head`, the finalized
  `root`, and for every transaction the slot it landed in (or `Nowhere`), whether
  it failed there, and its `deadline`, the last slot at which its blockhash lets it
  land. `NextSlot` grows the cluster, `Finalize` moves the root, `SwitchFork`
  moves what is above the root to other slots or to none.
* **`SolLedger`** - the same rows as seen by `sol.rs`. One transaction may pay
  several invoices here, so a payment is a pair. `RecordCredits` is
  `apply_transaction` (all credits of a transaction in one database transaction),
  `OrphanPayment`, `Promote`, `WriteTotal`, `MarkExpired`, and `RegisterInvoice`
  for the token handler. `Attributed` is `classify`: deposit addresses first,
  then each credit that exactly one watched invoice claims by its reference.
* **`SolWatcher`** - the tick as a walk of `tick.pc`, with the locals of the Rust
  function in `tick`; the cluster, the clock and the handlers run between its awaits.

  | Code | Actions |
  |---|---|
  | `expire_invoices` | `ExpireInvoices`, `AnnounceExpired` |
  | `load_watched_invoices`, `finalized_slot` | `LoadWatched`, `ReadRoot` |
  | steps 2 and 3: signatures per address | `DiscoverSignatures`, `ScanFails`, `SkipBooked` |
  | step 4: bodies in batches, `apply_transaction` | `FetchBatch`, `ApplyTransaction`, `FetchedAll` |
  | step 5, `recompute_invoice_totals` | `Recompute`, `Notify` |
  | step 6: the cursor of each address | `PickFeeds`, `SaveCursor` |
  | `reconcile_statuses`, `promote_payment`, `orphan_payment` | `SelectInFlight`, `AskRecent`, `AskOld`, `Confirm`, `FinalisePayment`, `Orphan`, `Notify`, `Recompute` |
  | `prune_address_cursors`, sleep | `PruneCursors` |
  | any `?`, or the death of the process | `AbortTick` |

* **`MCSolWatcher`** - the definitions the configurations choose from.

Simplifications: `SUM` and `UPDATE` of a total are one step, because this task is
the only writer of this cluster's payments; the batches of `getTransaction` and the
256 signatures of a status call are each one look at the cluster; a node that
answers tells the truth and does not lag behind the others (a call may fail, a
body may be missing); answers that nothing follows from are dropped when they are
asked for; the `confirmations` column, `invoices.tx_hash`, the "processed" level,
the slot floor of new invoices, `MAX_WATCHED_INVOICES` and the backfill of
merchant wallets are left out. The week after which a cursor is pruned is a
free choice among the cursors of unwatched addresses.

### Bitcoin

* **`EsploraChain`** - `EvmChain` plus `known`, the transactions in the mempool or in a
  block, and `faults`. A reorganisation may put a transaction elsewhere, back into the
  mempool, or lose it to a conflicting one. `AnswersStatus`, `ListsAddress` and `AnswersTip` are the
  endpoints: they tell the truth, or, at the price of a fault, lag behind it (a 404 or
  "unconfirmed" for a mined transaction, a listing without it, a tip one lower).
* **`EsploraLedger`** - the rows as seen by `esplora.rs`. A payment, the total of its
  invoice and the events about both are one transaction there, hence one step here:
  `InsertPayment`, `ApplyMined`, `OrphanPayment`, `ApplyChainState`,
  `ExpireInvoices`. `Announce` is `enqueue_webhook` with the uniqueness of
  dedupe keys per merchant.
* **`EsploraWatcher`** - three walks: `chain.pc` (a tick of `chain_loop`),
  `round.pc` (a tick of `address_loop`) and `worker[i].pc` (`process_invoice` of
  each watched invoice).

  | Code | Actions |
  |---|---|
  | `tick_chain` | `ReadTip`, `CheckCursor`, `WalkPage`, `FinishWalk` |
  | `find_fork_point`, `handle_reorg` | `ForgetAboveFork`, `Rewind` |
  | `reverify_payments_above` | `SelectAboveFork`, `AskAboveFork`, `ApplyAboveFork` |
  | `address_loop`, `tick_addresses` | `Sweep`, `LoadWatchSet`, `FinishRound` |
  | `process_invoice` | `ListAddress`, `LoadPayments`, `ApplyListed`, `AskUnlisted`, `ApplyUnlisted` |
  | a failed call or statement | `AbortChain`, `AbortRound`, `AbortWorker`, `SkipSweep`, `SkipAboveFork`, `SkipUnlisted` |
  | the death of the process | `Crash`: the three walks, the tip and the strikes are lost |

* **`InvoiceBook`** - the abstract specification; `EsploraWatcher` instantiates it with a
  refinement mapping (`Book`) from the rows that are neither absent nor orphaned, the
  status and total of each invoice, and the `payment.finished` events.
* **`MCEsploraWatcher`** - the definitions the configurations choose from.

Simplifications: `find_fork_point` and the deletion that follows it are one look at the
chain; `record_seen_block` and `save_cursor` of one header page are one step; a page of
headers that cannot be completed is an abort; each database transaction is one step,
which the row locks it takes (the payment, then the invoice) justify; all watched
invoices may be processed at once instead of `ADDRESS_CONCURRENCY` at a time;
`block_hash` and `confirmations` of a payment are left out.

### Invoice creation

* **`InvoiceCreation`** - the `invoices`, `merchants`, `merchant_wallets` and
  `merchant_network_indices` rows, a request per invoice (`requests[i].pc` and its
  locals) and the start-up of each network client.

  | Code | Actions |
  |---|---|
  | `signup_merchant_handler` | `SignUp` |
  | `spin_up`, `ensure_merchant_wallets` | `SpinUp`, `Backfill`, `BackfillFails` |
  | `create_invoice` | `InsertInvoice`, `GetHandler` |
  | the handlers, `get_derive_address` | `FetchKeys`, `SetToken`, `ReadToken`, `TakeIndex`, `ReadHeight`, `Publish` |
  | `create_invoice_handler` | `Answer` |
  | any error, the death of the process | `Fail`, `Crash` |
  | the chains | `Grow`, `Finalize`, `Fork` |

  The handlers differ in what they write: `Nameless` are the tokens whose handler
  writes no `network_type`, `chain_ref` or `created_block` (`eth.rs`, `base.rs`,
  `base_sepolia.rs`), `TestMnemonic` those that derive from a fixed phrase.
  `WatchedAddresses` is what `watch_addresses` of `sol.rs` and the watch sets of the
  other two listen to.
* **`MCInvoiceCreation`** - a registry with one token of each kind of handler and the
  symmetry set. It registers `BTC_SIGNET`, which `TokenRegistry::new` does not, so that
  the Bitcoin handler's code is checked too.

Simplifications: derivation is injective, so an address is the tuple it is derived from;
encryption, decimals, amounts and expiry times are left out; a payer pays only after the
URL went out, at most once per invoice. Any merchants may have the same phrase, since
neither `signup_merchant_handler` (`merchants.rs:113-118`) nor the schema refuses it:
`PhraseOf` is any function. `Nameless` is set by hand from a reading of the handlers.

## 4. Runs

`evm_*` run on `MCEvmWatcher`, `sol_*` on `MCSolWatcher`, `btc_*` on
`MCEsploraWatcher`, `creation` on `MCInvoiceCreation`. The constants are scaled
down together so that every limit is hit: for EVM, final confirmations 2 or 3
instead of 48, reorganisation depth 4 instead of 64, a few blocks per tick and
per log query, on a chain of three to nine blocks; for Solana, one body per batch
instead of 50, a page cap of 2 or 3 signatures instead of 20 pages of 1000, a recent
window and a blockhash life of one slot instead of 300 and 150; for Bitcoin, two
final confirmations instead of 6, two strikes instead of 3, one header per page
instead of 10, two blocks per tick.

| Run | Question | Result |
|---|---|---|
| `evm_native` | address scanner, two payments, an expiry, one reorganisation of up to three blocks at any await: nothing missed, nothing stale, promotions deep, in order and announced, totals converge, buried payments become final | holds (about 0.6 million states) |
| `evm_two_services` | both services, two payments that only together suffice: rows and events agree, never finished without funds | holds |
| `evm_vault_retries` | log scanner, a tick cut anywhere, a second invoice created behind a gap, no reorganisation: rescanning makes up for the cut, rows and totals, and skipping passes no money | holds (about 2.5 million states) |
| `evm_orphan_finalized` | both services: one orphans what the other has selected | violated |
| `evm_erc20_sibling` | reorganisation between `eth_getLogs` and the block | violated |
| `sol_watch` | three transactions, one may fail, a fork at any await, a cut, a page cap: cursors pass no money, final is final, orphaned is gone, finished is funded | holds (about 4 million states) |
| `sol_settles` | a transaction that pays two invoices, expiry, a fork, a failed call, with fairness: totals converge, finalized becomes final, every change is told | holds (about 0.5 million states) |
| `sol_crash_total` | cut between crediting and recomputing | violated |
| `btc_loops` | both loops at every interleaving of their awaits, a reorganisation, an expiry, one fault of any kind, with fairness: exact totals, buried finals, announced changes, `InvoiceBook` implemented, buried becomes final, gone becomes orphaned | holds |
| `btc_grace` | a payment broadcast just before its invoice expires, nothing fails | violated |
| `btc_finished` | two invoices of one merchant settle | violated |
| `creation` | two requests of any tokens and of two merchants with one phrase, signups and start-ups, a failure at any statement, a restart, forks below: addresses apart, the right merchant and mint, answered is watched, the floor is below every payment | holds (about 3 million states) |

The violated runs each state what a comment or a document of the repository
says; `PROJECT.json` quotes it under "findings". They also draw the line around
the passing runs: `ScanComplete` holds for native transfers under
reorganisations and for all kinds under failures, not for logs under
reorganisations; `OrphansStayOut` fails with two services; `TotalsConverge` holds on
Solana under forks and failed calls, not under a cut, and `TotalsExact` holds on Bitcoin under all of them.

### Known divergences

Disagreements with a comment or a document, or plain surprises, met while modelling
that no run asks for. The passing runs are configured on the near side of these (one
service, or no cut, or no invoice created at the wrong moment), and their properties
are not claimed beyond.

* EVM. With two services, `TotalsConverge` is false: the older sum may be written last
  (`evm.rs:1547`). A tick cut after an `UPDATE` to `orphaned` and before its recompute
  (`evm.rs:1248`) leaves the old total. A tick cut between a payment and its
  cursor, followed by a reorganisation of that block only, leaves a payment no
  fork detection looks at (`evm.rs:1057`; `NETWORKS.md:206-209` says nothing
  irreversible happens before the cursor moves): `handle_reorg` asks for the rows above the
  fork only when the hash at the cursor differs, so the row keeps counting, is promoted and
  credited. TLC finds it when `evm_native` is given `MaxAborts = 1`.

  No cut is needed with a second reorganisation: `handle_reorg` (`evm.rs:1144`) moves a row
  to the block its transaction is in now, above the fork, and the cursor goes back to the
  fork. If the second reorganisation drops the transaction before the scan has come that
  far again, the hash at the cursor still agrees (`evm.rs:1103-1107`),
  no fork is found, and the row above the cursor stays open for a transaction that is gone.
  TLC finds it when `evm_native` is given `MaxReorgs = 2`.

  Nor is a cut needed where the plan has a gap. `fast_forward_cursor` (`evm.rs:559-578`)
  stores the block it jumps to without a look at its parent. A block that is replaced
  between its scan and the jump over the gap behind it (`evm.rs:1064-1085`) is never
  compared again: the cursor is on a canonical block above it. `detect_fork_point`, which
  stops at the first height without a hash (`evm.rs:1118`), would also find a fork below a
  skipped gap too high. It takes a second invoice, created late, and a first one that is
  settled and then paid once more in the last block of its range; TLC finds it when
  `evm_native` is given these two invoices, `Requested <- One`, `MaxTip = 8` and four blocks
  per tick and per query.

  A cut between an `UPDATE` and its webhook loses the webhook. An invoice created
  after `load_watched_invoices` and
  before `get_block_number` and `load_scan_plan` (`evm.rs:912-915`), paid in
  blocks the tip then shows, is scanned past unwatched. `load_scan_plan` is called
  (`evm.rs:915`, 2045) before `detect_fork_point` and `handle_reorg` (953): when the
  reorganisation orphans the payment that had settled an invoice, the invoice waits
  for money again, but the plan of this tick only covers the blocks around the old
  payment, so step 3 (969-995) jumps from the fork over the blocks below them and a
  payment mined there is never recorded, although `evm.rs:485-499` calls the plan the
  ranges "that can possibly contain money we care about". It takes an invoice that one
  payment settles, a second payment and a reorganisation; TLC finds it when `evm_native` is
  given `Requested <- One`. `created_block` is the newest
  tip without a margin (`evm.rs:682`, 1275, 1913): after a reorganisation a payment
  below it is dropped. A payment that is orphaned and found again is announced once.
  A reorganisation deeper than `MAX_REORG_DEPTH` is clamped to a height that does not
  agree either.
* Solana. A signature on record for one invoice is skipped for another one that was
  registered later (`sol.rs:732`). A cursor at the page cap keeps the unread tail
  unread for as long as newer signatures keep coming (`sol.rs:959`). A request that fails
  after the skeleton leaves a row that never expires, although `sol_devnet.rs:221-222`
  says it "simply expires". A merchant who signs up after start-up has no Solana
  wallet until the next one.
* Bitcoin. A listing that lags can take a payment out of `orphaned` that the chain loop
  has just orphaned; a single 404 during re-verification orphans without strikes
  (`esplora.rs:744`); a full listing page is never asked for the transactions it does
  not show; a failure between the deletion of the seen blocks and the saved cursor makes
  the next `find_fork_point` stop one block below the old cursor. All of these heal as long
  as somebody looks at the payment again, which is what `EventuallyOrphaned` and
  `EventuallyFinal` say under one fault; after a reorganisation as deep as
  `FINAL_CONFIRMATIONS`, a crash between `save_cursor` and the re-verification leaves a
  final payment of a replaced block that nobody asks about again. `TokenRegistry::new` (`tokens/mod.rs:155-171`) never
  registers the Bitcoin handler, and `NETWORKS.md` section 6 calls Esplora a TODO.
* Creation. The invoices of `eth.rs`, `base.rs` and `base_sepolia.rs` name no network
  and are in no watch set, although `README.md:116` says the handler starts watching;
  `eth.rs` and `base.rs` derive from one test phrase. `AnsweredIsWatched` excepts the three
  by the constant `Nameless`; it does not show that there are no others. Two merchants who
  sign up with the same mnemonic (`merchants.rs:113-118` takes any) have the same
  addresses, index by index: a transfer credits the invoices of both, and
  `AddressesApart` excepts such pairs. `NETWORKS.md:277` says that one
  deposit address "*can* legitimately appear on two invoices" of a merchant and keeps a
  multimap for it; no path of the code does that, as `AddressesApart` says. `NETWORKS.md:1019` and
  `RECONCILIATION.md:65` reserve index 0 for the main address, but Esplora gives it
  to the first Bitcoin invoice (there is no Bitcoin main wallet, so `AddressesApart`
  holds). Signup writes index rows for "EVM", "SOL" and "ESPLORA", names that no
  client reads. An error in `spin_up` ends the watcher of that network until the next
  restart (`networks/mod.rs:125-172` only logs it).

**Bounds.** EVM: `MaxReorgSpan` stays within `MAX_REORG_DEPTH`, beyond which the
code gives up by design. `MaxReorgs` of one: it may strike at any await of a tick; what a
second one breaks is under the known divergences. `MaxAborts` of one: the rerun after
a cut starts from the database alone, as every tick does. Two payments are needed for
sums and orderings; two invoices for gaps.
Solana: `MaxSlot` of 3 or 4 gives a transaction room to be credited, dropped and
landed again before its deadline, and a slot above the root at every stage;
`MaxForks` of one moves any number of transactions at once; `MaxLapses` (calls that
fail without ending the tick) and `MaxAborts` of one; three transactions against a
page cap of two are what leaves a listing incomplete. `Expiring` names the
invoices whose expiry falls in the run. `MaxTip` of 7 in `evm_vault_retries` leaves room
for a gap between the last payment of a settled invoice and the creation of the other.
Bitcoin: one payment and one invoice suffice for the races of two loops over one row;
`MaxFaults` of one pays for a crash, a failed call, an answer that lags or a dropped
transaction at any point; `MaxReorgSpan` stays below `FINAL_CONFIRMATIONS`, the
depth the code calls final. Two invoices of one merchant are needed for a dedupe key
to collide. Creation: two requests are what a collision takes; a tip of 2 is enough to
store a floor, lose the block and pay in its replacement; two merchants with one phrase
are the hardest case for main wallets (`SamePhrase`), and two phrases are covered by the proof; `Chains` are those that move,
the one whose floor a property is about. A third request or a second restart repeats
what the invariants, proved for any number, say already.

**Fairness.** EVM: weak fairness of each service's `TickStep`: the loops of
`watch_addresses` and `watch_logs` never end, an error ends a tick only, and
neither can keep the other from running at its awaits. Weak fairness of block
production up to the bound and of invoice creation. Solana: the same for the one
`TickStep`, for `GrowChain`, `RootSlot` and `CreateInvoice`. Bitcoin: weak fairness
of `ChainStep`, of `RoundStep` and of each invoice's `WorkerStep`, which `spin_up`
joins in one task and whose errors end a tick only, and of block production. The
failures, `AbortTick`, `ScanFails`, `ReorgChain`, `ForkChain`, `ExpireInvoice` and
the like, have none: they need not happen. Runs without a liveness property are
of `Spec`, without fairness (in `creation` a request may be abandoned).

## 5. Proofs

### EVM

TLAPS proves, for every value of the constants that meets the three named
assumptions (`ChainAssumption`, `LedgerAssumption`, `WatcherAssumption`):

* `TypeCorrect`: `Spec => []TypeOK`, from `TypeInvariant`: `Spec => []TypeInv`.
  `TypeOK` alone is not inductive. The counter of `Recount` is bounded by the
  height only because recorded payments are in blocks above genesis (`RowsMined`);
  the address of a sum and of an event has the right type only because a tick in
  the middle of a recompute has a payment at hand, and because the payments it
  selected are recorded (`LocalsOK`, indexed by the program counter).
* `PaymentsAlwaysAnnounced`: `Spec => []PaymentsAnnounced`. Given `TypeInv` it is
  inductive: the two statements that make a payment recorded or orphaned carry their
  event, and no promotion creates a row.
* `FinishedAlwaysFunded`: `Spec => []FinishedWasFunded`. The event is sent two awaits
  after the sum was read, so the invariant (`Backed`) also says that the sum a tick
  holds was backed by payments recorded then (`SumsBacked`). Recorded payments are
  never deleted and `Value` is monotone, so an old sum stays a lower bound
  (`ValueGrows`), whatever the other service does in between.
* `PromotionsAreAnnounced`: `Spec => [](aborts = 0 => PromotionsAnnounced)`, for any
  number of services. A row and its event are two statements, so the invariant follows
  the event from the `UPDATE` to its `enqueue_webhook` through the program counter.
* With one service (`OneService`), from `RefreshInv`: what a refresh selected is still
  the row it selected, the tip it holds is the tip it counted with and that the chain
  had, and no counter exceeds what that tip gives.
  `PromotionsAreDeep`: `Spec => PromotionIsDeep`; and, with `OrderInv` on top,
  `ConfirmedComesFirst`: `Spec => [](aborts = 0 => ConfirmedBeforeFinalized)`, if no invoice
  asks for more confirmations than `FINAL_CONFIRMATIONS` (`RequiredFirst`).
* `EvmScanProofs` proves the scan, with one service and up to the first
  reorganisation, from `ScanInv`, which has four parts. `CalmInv`: no step of
  `handle_reorg` is ever taken and cursors are on canonical blocks. `BehindInv`: a row, a
  log at hand and a watched invoice's creation are never above the tip the tick read, which
  is never above the real one. `PaidInv`: a paid invoice is paid by
  rows, so `Live` cannot come back. `InterestInv`: the plan a tick read still contains every block from
  the creation of each invoice it watches and that waits for money (`Interest`); hence
  `PlanCovers`. Then:
  - `NothingIsMissed`: `Spec => [][reorgs' = 0 => MissesNothing]_vars`: no jump passes a
    payment the tick should see; and `DeadSpaceIsDead`: `Spec => SkipsOnlyDeadSpace` when
    `MaxReorgs = 0`.
  - `ScanIsComplete`: `Spec => [](reorgs = 0 => ScanComplete)`, from
    `TrackedInv`, which follows a payment of an invoice of `Existing` from the block
    through the chunk and the logs at hand to the row: cuts at any point included, since a
    cut forgets the chunk and leaves the cursor.
* `NoPhantomUntilTheSecondReorg`, at the end of `EvmScanProofs`:
  `Spec => [](aborts = 0 /\ reorgs <= 1 => NoPhantom)`, with one service,
  a plan without gaps (`OneInvoice`, or `NoneSettles` of any number) and a reorganisation no
  deeper than `FINAL_CONFIRMATIONS` and `MAX_REORG_DEPTH` (`SmallReorgs`; 48 and 64 in reality).
  Its hypotheses hold of `evm_native`, where the reorganisation may strike at any await and
  replace three blocks. `NoPhantom` speaks of a service at rest whose cursor agrees with the
  chain; the invariant (`HeldInv`) has to say what becomes, from the reorganisation
  on, of a row that is not where it says it is. Such a row (`Doubtful`, `RowOK`) is either
  above the cursor in a tick that is just applying its block, and then the cursor will be
  moved to that very block with its replaced hash (`SightOK`: what was fetched before the
  reorganisation carries the old hash); or it is below a cursor whose hash is old and under
  which every remembered hash down to the row is old too (`Under`, `Remembered`). A
  cursor with an old hash is a dead end: no new block has it as a parent, so `GetBlock`
  ends the scan, and no plan without gaps lets the tick jump over it (`PlanOK`). So the next
  `DetectFork` runs, and since all blocks from the row to the cursor were
  replaced (`Replaced`), it goes below the row (`ForkIsBelow`); from there to the
  `UPDATE` of `handle_reorg`, the row is in what `SelectAffected` returned. TLC checked
  `HeldInv` on four instances, with one and two invoices, before it was proved.

Why the hypotheses are there. `OneService`: with both, a stale row or a stale
total of one undoes what the other wrote (`evm_orphan_finalized`, known divergences);
`PromotionIsDeep` is false then, and a paid invoice can wait for money again after the plan
was read. `watch_logs` returns at once on a network whose vault is not deployed
(`evm.rs:2009`), so one service is what such a network runs. `reorgs = 0`: after a
reorganisation the plan may be too narrow, and logs may be of another block than the one
fetched (`evm_erc20_sibling`); what the watcher keeps then, `evm_native` checks.
`aborts = 0`: a cut between a statement and its webhook loses the webhook, and one between a
payment and its cursor leaves a row no fork detection reaches. `Existing`: an
invoice created between the watch set and the tip may be passed over. `reorgs <= 1` and the plan
without gaps: `NoPhantom` is false otherwise, as TLC shows (known divergences); both were met
as proof steps that would not go through. `SmallReorgs`: below `MAX_REORG_DEPTH` the walk of
`detect_fork_point` gives up by design, and a row that is `FINAL_CONFIRMATIONS` deep is no
longer open, hence no longer looked for.

### Solana

For every value of the constants under `ChainAssumption`, `SolLedgerAssumption` and
`SolWatcherAssumption`, the last of which holds the one assumption about timing:
`Lifetime <= RECENT_STATUS_WINDOW_SLOTS`, blockhashes expire within the window
(150 against 300 slots in reality).

* `SolTypeCorrect`: `Spec => []SolTypeOK`. `SolTypeOK` says, besides types, that a
  tick owes totals only to invoices of its watch set. An orphaning adds to what it
  owes, so the inductive `TypeInv` adds (`Fits`) that the rows in flight and the
  answers are of watched invoices, and that there are none before the watch set is
  loaded.
* `FinalCorrect`: `Spec => []FinalIsReal`, and `OrphanCorrect`:
  `Spec => []OrphanIsGone`, from one invariant `SafetyInv`. Neither property is
  inductive, because a status is acted on several awaits after it was asked for and
  the cluster moves in between. `ClusterInv` says that a landed transaction's
  deadline is at most `Lifetime` after its slot (`SeenIn`), `RowsInv`
  that this holds of the slot of every row, and `TickInv` that every answer still to
  be acted on is one the cluster cannot take back: `finalized` is in a rooted slot and
  did not fail (`Settlement`), and `dropped` was said of a row so old that the
  transaction's deadline lies at or below the root, so it can land nowhere again
  (`Gone`). `SwitchFork` only moves what is above the root, `NextSlot` only
  lands what is within its deadline: both keep it.
* `FinishedFunded`: `Spec => []FinishedWasFunded`. `FinishedInv` counts an event as told
  from the `UPDATE` on (`Told`), and what is on record for an invoice, orphaned rows
  included, only grows (`Funded`).
* `ChangesAreTold`: `Spec => [](aborts = 0 => ChangesTold)`. `ToldInv` follows each event
  through the one slot a tick has for it (`tick.notify`), and knows that a tick which
  promotes or orphans holds a row that is still open (`StillOpen`), so that a statement whose guard
  fails owes nothing.
* `CursorCorrect`, in `SolCursorProofs`: `Spec => []CursorSafe`, cuts, forks, failed calls, holes
  and page caps included, under two hypotheses. `OwnAddresses`: invoices share no
  address, which is `AddressesApart` of `InvoiceCreation`. `SinglePayee`: a
  transaction with money beyond dispute for one invoice pays no other; without it `SkipBooked` may
  skip the second invoice (known divergences). `CursorInv` says that a
  cursor is at a finalized transaction (`CursorsInv`), that what a tick listed at or
  below the root it read is where it was listed and that a complete listing lacks
  nothing above the cursor (`ScanInv`, `Listed`), that what is marked as applied is on
  record unless it failed (`AppliedInv`), and that no cursor has passed a transaction about to
  be orphaned (`AnswersInv`), since what is passed is rooted and stays (`Frozen`).

### Bitcoin

For every value of the constants under `EsploraChainAssumption`,
`EsploraLedgerAssumption` and `EsploraWatcherAssumption`:

* `TypeCorrect`: `Spec => []TypeOK`; `TypeInv` adds that each walk holds a payment in
  hand exactly where it acts on one, and that what it holds is of its invoice.
* `TotalsAlwaysExact`: `Spec => []TotalsExact`. Every step either leaves the rows alone,
  changes one payment and rebuilds the total of its invoice, moves a row without
  changing what it counts, or is the clock (`Bookings`, from one lemma per
  transaction); the first three keep a total exact by definition of `Settled`, the
  last only touches invoices without money.
* `KeepsTheBooks`: `Spec => KeepsBooks`, the refinement of `InvoiceBook`, from the same
  case split: a rebuilt total is `Count` or `Discount`, the clock is `Close`, anything else
  stutters. `InvoiceBook` knows the merchants: `Count` announces a settled invoice
  unless its merchant had a `payment.finished` before, which is what the code
  does and not what its documents promise (`btc_finished`). No hypothesis is needed beyond
  the named assumptions.
* `FinalStaysBuried`: `Spec => []FinalIsBuried`, if `MaxReorgSpan <
  FINAL_CONFIRMATIONS`. A loop promotes on a height and a tip it read earlier, so the
  invariant (`FinalInv`) says that whatever a walk holds and would count as final is
  still in that block and that deep (`SightingsTrue`), that tips held are not above the
  real one (`TipsBehind`), and that a worker holds nothing between rounds
  (`WorkersRest`).
* `RowsAreAnnounced`: `Spec => []RowsAnnounced`, if a transaction pays at most one
  invoice of a merchant (`OnePayee`), else the hash that is the dedupe suffix is taken.
  `AnnounceInv` adds that only payments of the model were ever announced, so
  a key that is taken was taken by the payment itself.

### Invoice creation

For every value of the constants under `InvoiceCreationAssumption`, all five invariants
of `creation`: `CreationTyped`, `AddressesStayApart`, `PaysTheRightMerchant`,
`AnsweredStaysWatched`, `FloorStaysBelow`, from one inductive invariant `CInv`. None of
the properties is inductive, because rows are made by requests that hold their index,
phrase, mint and floor across several awaits. `Progress` says what the statements
a request has passed have established, `Stored` what a published row carries, `IndexInv`
that an index held by a request or stored in a row (`Taken`) was handed out
(`IndexBelow`: from 1 up, from 0 on Esplora) and that no two invoices of a merchant took
the same one in the same namespace; nothing is assumed of phrases, so the first part of
`AddressesApart` is for pairs of one merchant or of two phrases (`SeedsApart`), the second,
about main wallets, for all; `WalletInv` that every merchant has its EVM
wallet; `ChainInv` that roots only advance, so that a floor read from one stays below
every payment.

### What is only model-checked

Liveness under fairness: `TotalsConverge`, `EventuallyFinal`, `EventuallyOrphaned`; it and
`ENABLED` are beyond the prover. On the EVM scanners it is checked for ticks that are not
cut. `TotalsBehindCursor` is an invariant, checked with one cut and no reorganisation, and
not proved. Every other invariant and every action property of a passing run
is stated by a theorem, under the hypotheses given with it. Some of these are narrower than
the run, and there the run is all there is: `ScanComplete` after a reorganisation is checked on `evm_native` (where no
single payment settles the invoice) and not proved, because it is false in general. That `Value[S]` is what it is assumed to be, a
monotone sum, is an assumption on a constant and not a recursive definition, which the
prover could not unfold.

## 6. Not modelled

Key derivation and encryption (pure cryptography), the checkout pages and the status
endpoints (they read rows and format them; the view rows the registry inserts at
start-up only choose a page), the frontend, the test endpoints, container files; the
ledger, reconciliation, compliance and dispatcher documents, for which there is no
code. The provider quorum of `call_rpc`, the list algorithms behind the scan plan and
the vault contract are left open, see 2.
