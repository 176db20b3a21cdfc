--------------------------- MODULE EvmWatcherProofs ---------------------------
(***************************************************************************)
(* Type correctness of EvmWatcher for every value of its constants: the    *)
(* inductive invariant, one lemma per step of a tick, and the theorems.    *)
(* A lemma on a step shows what record the step leaves in svc[s], that it  *)
(* is a record of TickLocals that fits the cursor, and leaves the rest to  *)
(* TickMoves (the cursor stays) or CursorMoves (it does not).              *)
(***************************************************************************)
EXTENDS EvmWatcher, TLAPS, WellFoundedInduction

(***************************************************************************)
(* What every statement of EvmLedger preserves, whoever runs it and        *)
(* whenever: lemmas that the steps of the services put together.           *)
(***************************************************************************)

\* A row on record is in a block: never in the genesis block, whose height
\* stands for "not mined".  With it a counter stays below the height of the
\* chain.
Recorded == {t \in Txs : payments[t].status # "absent"}
RowsMined == \A t \in Recorded : payments[t].block # Unmined
LedgerInv == LedgerTypeOK /\ RowsMined

MinedHeights == Heights \ {Unmined}

LEMMA InsertPaymentType ==
  ASSUME LedgerInv, NEW t \in Txs, NEW block \in MinedHeights, NEW hash \in Hashes,
         InsertPayment(t, block, hash)
  PROVE  LedgerInv'
<1> DEFINE row == [status |-> "detected", block |-> block, hash |-> hash, confs |-> 0]
<1>1. row \in PaymentRows
  BY ChainAssumption DEF PaymentRows, PaymentStatuses, MinedHeights
<1>2. payments' \in [Txs -> PaymentRows] /\ RowsMined'
  BY <1>1 DEF InsertPayment, LedgerInv, LedgerTypeOK, RowsMined, Recorded, MinedHeights
<1>3. events' \subseteq Events /\ UNCHANGED invoices
  BY DEF InsertPayment, Enqueue, Events, LedgerInv, LedgerTypeOK
<1>4. QED BY <1>2, <1>3 DEF LedgerInv, LedgerTypeOK

LEMMA RelocatePaymentType ==
  ASSUME LedgerInv, NEW t \in Txs, NEW block \in MinedHeights, NEW hash \in Hashes,
         RelocatePayment(t, block, hash)
  PROVE  LedgerInv'
<1> DEFINE row == [payments[t] EXCEPT !.block = block, !.hash = hash,
                     !.status = IF @ = "orphaned" THEN "detected" ELSE @]
<1>1. row \in PaymentRows
  BY DEF LedgerInv, LedgerTypeOK, PaymentRows, PaymentStatuses, MinedHeights
<1>2. payments' = payments \/ payments' = [payments EXCEPT ![t] = row]
  BY DEF RelocatePayment, LedgerInv, LedgerTypeOK
<1>3. payments' \in [Txs -> PaymentRows] /\ RowsMined'
  BY <1>1, <1>2 DEF LedgerInv, LedgerTypeOK, RowsMined, Recorded, MinedHeights, PaymentRows
<1>4. QED BY <1>3 DEF LedgerInv, LedgerTypeOK, RelocatePayment

LEMMA ResetPaymentType ==
  ASSUME LedgerInv, NEW t \in Txs, NEW block \in MinedHeights, NEW hash \in Hashes,
         ResetPayment(t, block, hash)
  PROVE  LedgerInv'
<1> DEFINE row == [status |-> "detected", block |-> block, hash |-> hash, confs |-> 0]
<1>1. row \in PaymentRows
  BY ChainAssumption DEF PaymentRows, PaymentStatuses, MinedHeights
<1>2. payments' \in [Txs -> PaymentRows] /\ RowsMined'
  BY <1>1 DEF ResetPayment, LedgerInv, LedgerTypeOK, RowsMined, Recorded, MinedHeights
<1>3. QED BY <1>2 DEF LedgerInv, LedgerTypeOK, ResetPayment

LEMMA OrphanPaymentType ==
  ASSUME LedgerInv, NEW t \in Recorded, OrphanPayment(t)
  PROVE  LedgerInv'
<1> DEFINE row == [payments[t] EXCEPT !.status = "orphaned", !.confs = 0]
<1>1. t \in Txs /\ row \in PaymentRows
  <2>1. t \in Txs /\ payments[t] \in PaymentRows
    BY DEF Recorded, LedgerInv, LedgerTypeOK
  <2>2. "orphaned" \in PaymentStatuses /\ 0 \in 0 .. MaxTip
    BY ChainAssumption DEF PaymentStatuses
  <2>3. QED BY <2>1, <2>2 DEF PaymentRows
<1>2. payments' = [payments EXCEPT ![t] = row]
  BY DEF OrphanPayment, LedgerInv, LedgerTypeOK
<1>3. payments' \in [Txs -> PaymentRows] /\ RowsMined'
  BY <1>1, <1>2 DEF LedgerInv, LedgerTypeOK, RowsMined, Recorded, PaymentRows
<1>4. events' \subseteq Events /\ UNCHANGED invoices
  BY <1>1 DEF OrphanPayment, Enqueue, Events, LedgerInv, LedgerTypeOK
<1>5. QED BY <1>3, <1>4 DEF LedgerInv, LedgerTypeOK

\* The depth of a payment on record is at most the height of the chain.
LEMMA DepthType ==
  ASSUME NEW at \in Heights, NEW block \in MinedHeights
  PROVE  Depth(at, block) \in 0 .. MaxTip
  BY ChainAssumption DEF Depth, Heights, MinedHeights, Unmined

LEMMA CountConfirmationsType ==
  ASSUME LedgerInv, NEW watched, NEW at \in Heights, CountConfirmations(watched, at)
  PROVE  LedgerInv'
<1>1. ASSUME NEW t \in Txs
      PROVE  /\ payments'[t] \in PaymentRows
             /\ payments'[t].status = payments[t].status
             /\ payments'[t].block = payments[t].block
  <2>1. CASE InvoiceOf[t] \in watched /\ Open(t)
    <3>1. payments[t].block \in MinedHeights
      BY <2>1 DEF Open, LedgerInv, LedgerTypeOK, RowsMined, Recorded, PaymentRows, MinedHeights
    <3>2. Depth(at, payments[t].block) \in 0 .. MaxTip
      BY <3>1, DepthType
    <3>3. payments'[t] = [payments[t] EXCEPT !.confs = Depth(at, payments[t].block)]
      BY <2>1 DEF CountConfirmations
    <3>4. QED BY <3>2, <3>3 DEF LedgerInv, LedgerTypeOK, PaymentRows
  <2>2. CASE ~(InvoiceOf[t] \in watched /\ Open(t))
    BY <2>2 DEF CountConfirmations, LedgerInv, LedgerTypeOK
  <2>3. QED BY <2>1, <2>2
<1>2. payments' \in [Txs -> PaymentRows]
  BY <1>1 DEF CountConfirmations
<1>3. RowsMined'
  BY <1>1 DEF LedgerInv, RowsMined, Recorded
<1>4. QED BY <1>2, <1>3 DEF LedgerInv, LedgerTypeOK, CountConfirmations

LEMMA PromoteType ==
  ASSUME LedgerInv, NEW t \in Recorded, NEW may, NEW status \in PaymentStatuses,
         Promote(t, may, status)
  PROVE  LedgerInv'
<1> DEFINE row == [payments[t] EXCEPT !.status = status]
<1>1. t \in Txs /\ row \in PaymentRows
  BY DEF Recorded, LedgerInv, LedgerTypeOK, PaymentRows
<1>2. payments' = payments \/ payments' = [payments EXCEPT ![t] = row]
  BY DEF Promote, LedgerInv, LedgerTypeOK
<1>3. payments' \in [Txs -> PaymentRows] /\ RowsMined'
  BY <1>1, <1>2 DEF LedgerInv, LedgerTypeOK, RowsMined, Recorded, PaymentRows
<1>4. QED BY <1>3 DEF LedgerInv, LedgerTypeOK, Promote

LEMMA StatusForType ==
  ASSUME NEW i, NEW received
  PROVE  StatusFor(i, received) \in InvoiceStatuses
  BY DEF StatusFor, InvoiceStatuses

LEMMA WriteTotalType ==
  ASSUME LedgerInv, NEW i \in Invoices, NEW received \in Nat, WriteTotal(i, received)
  PROVE  LedgerInv'
<1> DEFINE row == [invoices[i] EXCEPT !.received = received,
                     !.status = IF @ = "expired" THEN @ ELSE StatusFor(i, received)]
<1>1. row \in InvoiceRows
  BY StatusForType DEF LedgerInv, LedgerTypeOK, InvoiceRows
<1>2. invoices' = invoices \/ invoices' = [invoices EXCEPT ![i] = row]
  BY DEF WriteTotal, LedgerInv, LedgerTypeOK
<1>3. invoices' \in [Invoices -> InvoiceRows]
  BY <1>1, <1>2 DEF LedgerInv, LedgerTypeOK
<1>4. QED BY <1>3 DEF LedgerInv, LedgerTypeOK, WriteTotal, RowsMined, Recorded

LEMMA EnqueueType ==
  ASSUME LedgerInv, NEW type, NEW suffix, <<type, suffix>> \in Events,
         Enqueue(type, suffix), UNCHANGED <<payments, invoices>>
  PROVE  LedgerInv'
  BY DEF LedgerInv, LedgerTypeOK, Enqueue, RowsMined, Recorded

LEMMA RegisterInvoiceType ==
  ASSUME ChainTypeOK, LedgerInv, NEW i \in Invoices, RegisterInvoice(i)
  PROVE  LedgerInv'
<1>1. [invoices[i] EXCEPT !.created = tip] \in InvoiceRows
  BY DEF ChainTypeOK, LedgerInv, LedgerTypeOK, InvoiceRows
<1>2. QED BY <1>1 DEF RegisterInvoice, LedgerInv, LedgerTypeOK, RowsMined, Recorded

LEMMA PassExpiryType ==
  ASSUME LedgerInv, NEW i \in Invoices, PassExpiry(i)
  PROVE  LedgerInv'
<1>1. [invoices[i] EXCEPT !.expired = TRUE] \in InvoiceRows
  BY DEF LedgerInv, LedgerTypeOK, InvoiceRows
<1>2. QED BY <1>1 DEF PassExpiry, LedgerInv, LedgerTypeOK, RowsMined, Recorded

\* No statement deletes a row.
LEMMA RowsStay ==
  ASSUME LedgerInv, NEW t \in Txs, NEW block, NEW hash,
         \/ InsertPayment(t, block, hash)
         \/ RelocatePayment(t, block, hash)
         \/ ResetPayment(t, block, hash)
         \/ OrphanPayment(t)
  PROVE  Recorded \subseteq Recorded' /\ (~OrphanPayment(t) => t \in Recorded')
<1>1. CASE InsertPayment(t, block, hash)
  BY <1>1 DEF InsertPayment, Recorded, LedgerInv, LedgerTypeOK
<1>2. CASE RelocatePayment(t, block, hash)
  BY <1>2 DEF RelocatePayment, Recorded, LedgerInv, LedgerTypeOK, PaymentRows
<1>3. CASE ResetPayment(t, block, hash)
  BY <1>3 DEF ResetPayment, Recorded, LedgerInv, LedgerTypeOK
<1>4. CASE OrphanPayment(t)
  BY <1>4 DEF OrphanPayment, Recorded, LedgerInv, LedgerTypeOK, PaymentRows
<1>5. QED BY <1>1, <1>2, <1>3, <1>4

LEMMA RowsStayCounted ==
  ASSUME LedgerInv, NEW watched, NEW at, CountConfirmations(watched, at)
  PROVE  Recorded' = Recorded
<1>1. \A t \in Txs : payments'[t].status = payments[t].status
  BY DEF CountConfirmations, LedgerInv, LedgerTypeOK, PaymentRows
<1>2. QED BY <1>1 DEF Recorded

LEMMA RowsStayPromoted ==
  ASSUME LedgerInv, NEW t \in Recorded, NEW may, NEW status, status # "absent",
         Promote(t, may, status)
  PROVE  Recorded \subseteq Recorded'
  BY DEF Promote, Recorded, LedgerInv, LedgerTypeOK, PaymentRows
-----------------------------------------------------------------------------
LEMMA MinOfNat ==
  ASSUME NEW S, S \subseteq Nat, S # {}
  PROVE  /\ Min(S) \in S
         /\ \A y \in S : Min(S) <= y
<1> DEFINE Less == {ss \in Nat \X Nat : ss[1] < ss[2]}
<1>1. IsWellFoundedOn(Less, Nat)
  BY NatLessThanWellFounded, Zenon DEF OpToRel
<1>2. PICK x \in S : \A y \in S : <<y, x>> \notin Less
  <2> HIDE DEF Less
  <2> QED BY <1>1, WFMin, Zenon
<1>3. ASSUME NEW y \in S PROVE x <= y
  <2>1. <<y, x>> \in Nat \X Nat /\ <<y, x>>[1] = y /\ <<y, x>>[2] = x
    OBVIOUS
  <2>2. ~(y < x)
    BY <1>2, <2>1
  <2>3. QED BY <2>2
<1>4. QED BY <1>3 DEF Min

LEMMA MaxOfInterval ==
  ASSUME NEW n \in Nat, NEW S, S \subseteq 0 .. n, S # {}
  PROVE  /\ Max(S) \in S
         /\ \A y \in S : y <= Max(S)
<1> DEFINE T == {n - x : x \in S}
<1>1. T \subseteq Nat /\ T # {}
  OBVIOUS
<1>2. Min(T) \in T /\ \A y \in T : Min(T) <= y
  BY <1>1, MinOfNat
<1>3. PICK x \in S : Min(T) = n - x
  BY <1>2
<1>4. \A y \in S : y <= x
  BY <1>2, <1>3
<1>5. QED BY <1>4 DEF Max
-----------------------------------------------------------------------------
(***************************************************************************)
(* The inductive invariant behind TypeOK.  TypeOK alone is not inductive:  *)
(* a counter stays in range because no row on record is in block 0, an     *)
(* event names a transaction because the tick is handling one on record,   *)
(* and a cursor stays on the chain because the chunk ends above it.        *)
(***************************************************************************)
Cursors == [block : Heights \cup {-1}, hash : Hashes \cup {NoHash}]

\* Of the locals r of a tick whose cursor is on block.
Recomputing(r) == r.pc \in {"sum", "total", "settled"}
Handling(r) == Recomputing(r) \/ r.pc \in {"relocate", "confirmed", "finalize", "finalized"}
Applying(r) == r.pc \in {"block", "apply"} \/ (Recomputing(r) /\ r.ret = "apply")
LocalsOK(r, block, recorded) ==
  /\ r.rows \subseteq recorded
  /\ Handling(r) => r.tx \in recorded
  /\ Recomputing(r) => r.ret \in {"locate", "apply", "promote"}
  /\ r.pc \in {"confirmed", "finalize", "finalized"} => r.ret = "promote"
  /\ Applying(r) => block < r.end
  /\ r.pc = "gap" => PlanFrom(r.plan, block + 1) # {}

TypeInv ==
  /\ TypeOK
  /\ RowsMined
  /\ \A s \in Services : LocalsOK(svc[s], cursors[s].block, Recorded)

\* What a step of a tick has to show: the record it leaves behind is well
\* typed and fits the cursor, and the rows it changed are in order.
LEMMA TickMoves ==
  ASSUME TypeInv, NEW s \in Services, NEW r \in TickLocals,
         svc' = [svc EXCEPT ![s] = r],
         LedgerInv', Recorded \subseteq Recorded',
         LocalsOK(r, cursors[s].block, Recorded'),
         UNCHANGED <<chainVars, cursors, seen, aborts>>
  PROVE  TypeInv'
<1>1. svc' \in [Services -> TickLocals]
  BY DEF TypeInv, TypeOK
<1>2. ChainTypeOK'
  BY DEF TypeInv, TypeOK, ChainTypeOK, chainVars
<1>3. TypeOK'
  BY <1>1, <1>2 DEF TypeInv, TypeOK, LedgerInv
<1>4. ASSUME NEW u \in Services PROVE LocalsOK(svc'[u], cursors'[u].block, Recorded')
  <2>1. CASE u = s
    BY <2>1 DEF TypeInv, TypeOK
  <2>2. CASE u # s
    <3>1. svc'[u] = svc[u] /\ cursors'[u] = cursors[u]
      BY <2>2 DEF TypeInv, TypeOK
    <3>2. LocalsOK(svc[u], cursors[u].block, Recorded)
      BY DEF TypeInv
    <3>3. QED BY <3>1, <3>2 DEF LocalsOK
  <2>3. QED BY <2>1, <2>2
<1>5. QED BY <1>3, <1>4 DEF TypeInv, LedgerInv

LEMMA RowsUnchanged ==
  ASSUME TypeInv, UNCHANGED ledgerVars
  PROVE  LedgerInv' /\ Recorded' = Recorded
  BY DEF TypeInv, TypeOK, LedgerInv, LedgerTypeOK, ledgerVars, RowsMined, Recorded

LEMMA CursorMoves ==
  ASSUME TypeInv, NEW s \in Services, NEW r \in TickLocals, NEW c \in Cursors,
         svc' = [svc EXCEPT ![s] = r],
         cursors' = [cursors EXCEPT ![s] = c],
         seen' \in [Services -> [Heights -> Hashes \cup {NoHash}]],
         LocalsOK(r, c.block, Recorded),
         UNCHANGED <<chainVars, ledgerVars, aborts>>
  PROVE  TypeInv'
<1>1. svc' \in [Services -> TickLocals]
  BY DEF TypeInv, TypeOK
<1>2. cursors' \in [Services -> Cursors]
  BY DEF TypeInv, TypeOK, Cursors
<1>3. ChainTypeOK'
  BY DEF TypeInv, TypeOK, ChainTypeOK, chainVars
<1>4. LedgerInv' /\ Recorded' = Recorded
  BY RowsUnchanged
<1>5. TypeOK'
  BY <1>1, <1>2, <1>3, <1>4 DEF TypeInv, TypeOK, LedgerInv, Cursors
<1>6. ASSUME NEW u \in Services PROVE LocalsOK(svc'[u], cursors'[u].block, Recorded')
  <2>1. CASE u = s
    BY <1>4, <2>1 DEF TypeInv, TypeOK
  <2>2. CASE u # s
    BY <1>4, <2>2 DEF TypeInv, TypeOK
  <2>3. QED BY <2>1, <2>2
<1>7. QED BY <1>4, <1>5, <1>6 DEF TypeInv, LedgerInv

\* What the steps start from.
LEMMA TickFacts ==
  ASSUME TypeInv, NEW s \in Services
  PROVE  /\ svc[s] \in TickLocals
         /\ cursors[s] \in Cursors
         /\ LocalsOK(svc[s], cursors[s].block, Recorded)
         /\ Recorded \subseteq Txs
         /\ ChainTypeOK /\ LedgerInv
  BY DEF TypeInv, TypeOK, Cursors, LedgerInv, Recorded

-----------------------------------------------------------------------------
\* The steps that only change the tick's memory.

LEMMA LoadWatchedType ==
  ASSUME TypeInv, NEW s \in Services, LoadWatched(s)
  PROVE  TypeInv'
<1> DEFINE r == [svc[s] EXCEPT !.pc = "tip", !.watched = WatchedInvoices]
<1>1. svc' = [svc EXCEPT ![s] = r]
  BY DEF TypeInv, TypeOK, LoadWatched
<1>2. "tip" \in Steps /\ WatchedInvoices \in SUBSET Invoices
  BY DEF Steps, WatchedInvoices
<1>3. r \in TickLocals
  BY <1>2, TickFacts DEF TickLocals
<1>4. LocalsOK(r, cursors[s].block, Recorded)
  BY TickFacts DEF LocalsOK, Handling, Recomputing, Applying, TickLocals
<1> HIDE DEF r
<1>5. QED BY <1>1, <1>3, <1>4, RowsUnchanged, TickMoves DEF LoadWatched

LEMMA ReadTipType ==
  ASSUME TypeInv, NEW s \in Services, ReadTip(s)
  PROVE  TypeInv'
<1> DEFINE r == [svc[s] EXCEPT !.pc = "resume", !.tip = tip]
<1>1. svc' = [svc EXCEPT ![s] = r]
  BY DEF TypeInv, TypeOK, ReadTip
<1>2. "resume" \in Steps /\ tip \in Heights
  BY TickFacts DEF Steps, ChainTypeOK
<1>3. r \in TickLocals
  BY <1>2, TickFacts DEF TickLocals
<1>4. LocalsOK(r, cursors[s].block, Recorded)
  BY TickFacts DEF LocalsOK, Handling, Recomputing, Applying, TickLocals
<1> HIDE DEF r
<1>5. QED BY <1>1, <1>3, <1>4, RowsUnchanged, TickMoves DEF ReadTip

LEMMA MinType ==
  ASSUME NEW S \in SUBSET Heights, S # {}
  PROVE  Min(S) \in S /\ \A y \in S : Min(S) <= y
<1>1. S \subseteq Nat
  BY ChainAssumption DEF Heights
<1>2. QED BY <1>1, MinOfNat

LEMMA MaxType ==
  ASSUME NEW S \in SUBSET Heights, S # {}
  PROVE  Max(S) \in S /\ \A y \in S : y <= Max(S)
<1>1. MaxTip \in Nat /\ S \subseteq 0 .. MaxTip
  BY ChainAssumption DEF Heights
<1>2. QED BY <1>1, MaxOfInterval

LEMMA MinOfTwo ==
  ASSUME NEW a \in Int, NEW b \in Int
  PROVE  Min({a, b}) = IF a <= b THEN a ELSE b
<1>1. CASE a <= b
  <2>1. \A x \in {a, b} : a <= x
    BY <1>1
  <2>2. \A x \in {a, b} : (\A y \in {a, b} : x <= y) => x = a
    BY <1>1
  <2>3. QED BY <1>1, <2>1, <2>2 DEF Min
<1>2. CASE ~(a <= b)
  <2>1. \A x \in {a, b} : b <= x
    BY <1>2
  <2>2. \A x \in {a, b} : (\A y \in {a, b} : x <= y) => x = b
    BY <1>2
  <2>3. QED BY <1>2, <2>1, <2>2 DEF Min
<1>3. QED BY <1>1, <1>2

LEMMA ForkPointType ==
  ASSUME TypeInv, NEW s \in Services
  PROVE  ForkPoint(s) \in Heights
<1> DEFINE last == cursors[s].block
           floor == Max({last - MAX_REORG_DEPTH, 0})
           agree == {h \in floor .. last - 1 :
                       \/ seen[s][h] = hashAt[h]
                       \/ s = "addresses" /\ seen[s][h] = NoHash}
<1>1. ForkPoint(s) = IF agree = {} THEN floor ELSE Max(agree)
  BY DEF ForkPoint
<1>2. last \in Int /\ last <= MaxTip /\ MAX_REORG_DEPTH \in Nat /\ MaxTip \in Nat
  BY TickFacts, ChainAssumption, WatcherAssumption DEF Heights, Cursors
<1>3. floor \in Nat /\ floor <= MaxTip
  <2>1. CASE last - MAX_REORG_DEPTH <= 0
    <3>1. \A x \in {last - MAX_REORG_DEPTH, 0} : 0 >= x
      BY <1>2, <2>1
    <3>2. floor = 0
      BY <1>2, <2>1, <3>1 DEF Max
    <3>3. QED BY <1>2, <3>2
  <2>2. CASE last - MAX_REORG_DEPTH > 0
    <3>1. {last - MAX_REORG_DEPTH, 0} \subseteq 0 .. last
      BY <1>2, <2>2
    <3>2. floor \in {last - MAX_REORG_DEPTH, 0}
      BY <1>2, <3>1, MaxOfInterval
    <3>3. QED BY <1>2, <2>2, <3>2
  <2>3. QED BY <1>2, <2>1, <2>2
<1> HIDE DEF floor
<1>4. floor \in Heights
  BY <1>2, <1>3 DEF Heights
<1>5. agree \in SUBSET Heights
  BY <1>2, <1>3 DEF Heights
<1> HIDE DEF agree
<1>6. CASE agree = {}
  BY <1>1, <1>4, <1>6
<1>7. CASE agree # {}
  <2>1. Max(agree) \in Heights
    BY <1>5, <1>7, MaxType
  <2>2. QED BY <1>1, <1>7, <2>1
<1>8. QED BY <1>6, <1>7

LEMMA DetectForkType ==
  ASSUME TypeInv, NEW s \in Services, DetectFork(s)
  PROVE  TypeInv'
<1> DEFINE q == [svc[s] EXCEPT !.pc = "unwind", !.fork = ForkPoint(s)]
           p == [svc[s] EXCEPT !.pc = "skip"]
           r == IF Reorganised(s) THEN q ELSE p
<1>1. svc' = [svc EXCEPT ![s] = r]
  BY Zenon DEF DetectFork
<1>2. {"unwind", "skip"} \subseteq Steps /\ ForkPoint(s) \in Heights
  BY ForkPointType DEF Steps
<1>3. q \in TickLocals /\ p \in TickLocals
  BY <1>2, TickFacts DEF TickLocals
<1>4. /\ LocalsOK(q, cursors[s].block, Recorded)
      /\ LocalsOK(p, cursors[s].block, Recorded)
  BY TickFacts DEF LocalsOK, Handling, Recomputing, Applying, TickLocals
<1> HIDE DEF p, q
<1>5. r \in TickLocals /\ LocalsOK(r, cursors[s].block, Recorded)
  BY <1>3, <1>4
<1> HIDE DEF r
<1>6. QED BY <1>1, <1>5, RowsUnchanged, TickMoves DEF DetectFork

LEMMA SelectAffectedType ==
  ASSUME TypeInv, NEW s \in Services, SelectAffected(s)
  PROVE  TypeInv'
<1> DEFINE r == [svc[s] EXCEPT !.pc = "locate", !.rows = Affected(s)]
<1>1. svc' = [svc EXCEPT ![s] = r]
  BY DEF TypeInv, TypeOK, SelectAffected
<1>2. "locate" \in Steps /\ Affected(s) \subseteq Recorded /\ Recorded \subseteq Txs
  BY TickFacts DEF Steps, Affected, Recorded
<1>3. r \in TickLocals
  BY <1>2, TickFacts DEF TickLocals
<1>4. LocalsOK(r, cursors[s].block, Recorded)
  BY <1>2, TickFacts DEF LocalsOK, Handling, Recomputing, Applying, TickLocals
<1> HIDE DEF r
<1>5. QED BY <1>1, <1>3, <1>4, RowsUnchanged, TickMoves DEF SelectAffected

LEMMA StopScanningType ==
  ASSUME TypeInv, NEW s \in Services, StopScanning(s)
  PROVE  TypeInv'
<1> DEFINE r == [svc[s] EXCEPT !.pc = "refresh"]
<1>1. svc' = [svc EXCEPT ![s] = r]
  BY DEF TypeInv, TypeOK, StopScanning, Go
<1>2. "refresh" \in Steps
  BY DEF Steps
<1>3. r \in TickLocals
  BY <1>2, TickFacts DEF TickLocals
<1>4. LocalsOK(r, cursors[s].block, Recorded)
  BY TickFacts DEF LocalsOK, Handling, Recomputing, Applying, TickLocals
<1> HIDE DEF r
<1>5. QED BY <1>1, <1>3, <1>4, RowsUnchanged, TickMoves DEF StopScanning, Go

LEMMA ReadTotalType ==
  ASSUME TypeInv, NEW s \in Services, ReadTotal(s)
  PROVE  TypeInv'
<1> DEFINE r == [svc[s] EXCEPT !.pc = "total", !.sum = Value[Credited(InvoiceOf[svc[s].tx])]]
<1>1. svc' = [svc EXCEPT ![s] = r]
  BY DEF TypeInv, TypeOK, ReadTotal
<1>2. "total" \in Steps /\ Value[Credited(InvoiceOf[svc[s].tx])] \in Nat
  BY LedgerAssumption DEF Steps, Credited, PaymentsOf
<1>3. r \in TickLocals
  BY <1>2, TickFacts DEF TickLocals
<1>4. LocalsOK(r, cursors[s].block, Recorded)
  BY TickFacts DEF LocalsOK, Handling, Recomputing, Applying, TickLocals, ReadTotal, At
<1> HIDE DEF r
<1>5. QED BY <1>1, <1>3, <1>4, RowsUnchanged, TickMoves DEF ReadTotal

LEMMA SelectOpenType ==
  ASSUME TypeInv, NEW s \in Services, SelectOpen(s)
  PROVE  TypeInv'
<1> DEFINE open == {t \in Txs : InvoiceOf[t] \in svc[s].watched /\ Open(t)}
           snap == [t \in Txs |-> IF t \in open THEN payments[t] ELSE NoPayment]
           r == [svc[s] EXCEPT !.pc = "promote", !.rows = open, !.snap = snap]
<1>1. svc' = [svc EXCEPT ![s] = r]
  BY DEF TypeInv, TypeOK, SelectOpen
<1>2. "promote" \in Steps /\ open \subseteq Recorded /\ open \in SUBSET Txs
  BY DEF Steps, Open, Recorded
<1>3. snap \in [Txs -> PaymentRows]
  <2>1. NoPayment \in PaymentRows
    BY ChainAssumption
    DEF NoPayment, PaymentRows, PaymentStatuses, Heights, Hashes, Unmined, NoHash
  <2>2. payments \in [Txs -> PaymentRows]
    BY TickFacts DEF LedgerInv, LedgerTypeOK
  <2> HIDE DEF open
  <2>3. QED BY <2>1, <2>2
<1> HIDE DEF open, snap
<1>4. r \in TickLocals
  BY <1>2, <1>3, TickFacts DEF TickLocals
<1>5. LocalsOK(r, cursors[s].block, Recorded)
  BY <1>2, TickFacts DEF LocalsOK, Handling, Recomputing, Applying, TickLocals
<1> HIDE DEF r
<1>6. QED BY <1>1, <1>4, <1>5, RowsUnchanged, TickMoves DEF SelectOpen

LEMMA SightingsType ==
  ASSUME ChainTypeOK, NEW txs \in SUBSET Txs, NEW h \in Heights,
         txs # {} => h # Unmined
  PROVE  SightingsOf(txs, h) \in SUBSET Sightings
<1>1. hashAt[h] \in Hashes
  BY DEF ChainTypeOK
<1>2. ASSUME NEW t \in txs
      PROVE  [tx |-> t, block |-> h, hash |-> hashAt[h]] \in Sightings
  BY <1>1 DEF Sightings
<1>3. QED BY <1>2 DEF SightingsOf

LEMMA PayableSightings ==
  ASSUME TypeInv, NEW s, NEW kinds, NEW h \in Heights
  PROVE  SightingsOf(Payable(s, kinds, h), h) \in SUBSET Sightings
<1>1. ChainTypeOK
  BY DEF TypeInv, TypeOK
<1>2. Payable(s, kinds, h) \in SUBSET Txs /\ (Payable(s, kinds, h) # {} => h # Unmined)
  BY DEF Payable
<1>3. QED BY <1>1, <1>2, SightingsType

LEMMA LocateTxType ==
  ASSUME TypeInv, NEW s \in Services, LocateTx(s)
  PROVE  TypeInv'
<1>1. PICK t \in svc[s].rows :
        svc' = [svc EXCEPT ![s].pc = "relocate", ![s].tx = t, ![s].rows = @ \ {t},
                  ![s].found = IF minedAt[t] = Unmined THEN {}
                               ELSE SightingsOf({t}, minedAt[t])]
  BY DEF LocateTx
<1> DEFINE place == IF minedAt[t] = Unmined THEN {} ELSE SightingsOf({t}, minedAt[t])
           r == [svc[s] EXCEPT !.pc = "relocate", !.tx = t, !.rows = @ \ {t}, !.found = place]
<1>2. svc' = [svc EXCEPT ![s] = r]
  BY <1>1 DEF TypeInv, TypeOK
<1>3. t \in Txs /\ t \in Recorded
  BY TickFacts DEF LocalsOK
<1>4. place \in SUBSET Sightings
  <2>1. minedAt[t] \in Heights
    BY <1>3, TickFacts DEF ChainTypeOK
  <2>2. CASE minedAt[t] = Unmined
    BY <2>2
  <2>3. CASE minedAt[t] # Unmined
    <3>1. SightingsOf({t}, minedAt[t]) \in SUBSET Sightings
      BY <1>3, <2>1, <2>3, TickFacts, SightingsType
    <3>2. QED BY <2>3, <3>1
  <2>4. QED BY <2>2, <2>3
<1> HIDE DEF place
<1>5. "relocate" \in Steps
  BY DEF Steps
<1>6. r \in TickLocals
  BY <1>3, <1>4, <1>5, TickFacts DEF TickLocals
<1>7. LocalsOK(r, cursors[s].block, Recorded)
  BY <1>3, TickFacts DEF LocalsOK, Handling, Recomputing, Applying, TickLocals
<1> HIDE DEF r
<1>8. QED BY <1>2, <1>6, <1>7, RowsUnchanged, TickMoves DEF LocateTx

LEMMA PlanRangeEndType ==
  ASSUME NEW plan \in SUBSET Heights, NEW n \in Heights, NEW ceiling \in Heights, n <= ceiling
  PROVE  PlanRangeEnd(plan, n, ceiling) \in Heights /\ n <= PlanRangeEnd(plan, n, ceiling)
<1>1. CASE n \in plan
  <2> DEFINE run == {h \in plan : n <= h /\ (n .. h) \subseteq plan}
  <2>1. n .. n = {n}
    BY ChainAssumption DEF Heights
  <2>2. n \in run
    BY <1>1, <2>1, ChainAssumption DEF Heights
  <2>3. run \in SUBSET Heights /\ run # {}
    BY <2>2
  <2> HIDE DEF run
  <2>4. Max(run) \in run /\ n <= Max(run)
    BY <2>2, <2>3, MaxType
  <2>5. PlanRangeEnd(plan, n, ceiling) = Max(run)
    BY <1>1 DEF PlanRangeEnd, run
  <2>6. QED BY <2>3, <2>4, <2>5
<1>2. CASE n \notin plan
  BY <1>2 DEF PlanRangeEnd
<1>3. QED BY <1>1, <1>2

LEMMA FetchChunkType ==
  ASSUME TypeInv, NEW s \in Services, FetchChunk(s)
  PROVE  TypeInv'
<1> DEFINE n == cursors[s].block + 1
           rangeEnd == PlanRangeEnd(svc[s].plan, n, Ceiling(s))
           budget == n + MAX_BLOCKS_PER_TICK - svc[s].scanned - 1
           width == n + MAX_LOG_BLOCK_RANGE - 1
           end == Min({Ceiling(s), rangeEnd, budget, width})
           kinds == IF s = "logs" THEN {"vault"} ELSE {"erc20"}
           found == UNION {SightingsOf(Payable(s, kinds, h), h) : h \in n .. end}
           r == [svc[s] EXCEPT !.pc = "block", !.end = end, !.rangeEnd = rangeEnd,
                   !.found = found]
<1>1. svc' = [svc EXCEPT ![s] = r]
  BY DEF TypeInv, TypeOK, FetchChunk
<1>2. /\ n \in Heights /\ Ceiling(s) \in Heights /\ n <= Ceiling(s)
      /\ n = cursors[s].block + 1 /\ cursors[s].block \in Int
      /\ svc[s].scanned \in Nat /\ svc[s].scanned < MAX_BLOCKS_PER_TICK
      /\ svc[s].plan \in SUBSET Heights
  <2>1. /\ cursors[s].block \in Heights \cup {-1} /\ svc[s].tip \in Heights
        /\ svc[s].scanned \in Nat /\ svc[s].plan \in SUBSET Heights
    BY TickFacts DEF Cursors, TickLocals
  <2>2. /\ svc[s].scanned < MAX_BLOCKS_PER_TICK
        /\ cursors[s].block + 1 <= svc[s].tip - 1
    BY DEF FetchChunk, CanScan, Ceiling
  <2>3. QED BY <2>1, <2>2, ChainAssumption DEF Heights, Ceiling
<1>3. rangeEnd \in Heights /\ n <= rangeEnd
  BY <1>2, PlanRangeEndType
<1>4. budget \in Nat /\ n <= budget /\ width \in Nat /\ n <= width
  BY <1>2, ChainAssumption, WatcherAssumption DEF Heights
<1> HIDE DEF n, rangeEnd, budget, width
<1>5. end \in Heights /\ n <= end
  <2> DEFINE S == {Ceiling(s), rangeEnd, budget, width}
  <2>1. S \subseteq Nat /\ S # {}
    BY <1>2, <1>3, <1>4, ChainAssumption DEF Heights
  <2>2. Ceiling(s) \in S /\ \A y \in S : n <= y
    BY <1>2, <1>3, <1>4
  <2> HIDE DEF S
  <2>3. Min(S) \in S /\ Min(S) \in Nat /\ Min(S) <= Ceiling(s)
    BY <2>1, <2>2, MinOfNat
  <2>4. end = Min(S)
    BY DEF S
  <2> HIDE DEF end
  <2>5. QED BY <1>2, <2>2, <2>3, <2>4, ChainAssumption DEF Heights
<1> HIDE DEF end, kinds
<1>6. found \in SUBSET Sightings
  <2>1. n .. end \subseteq Heights
    BY <1>2, <1>5, ChainAssumption DEF Heights
  <2>2. \A h \in n .. end : SightingsOf(Payable(s, kinds, h), h) \in SUBSET Sightings
    BY <2>1, PayableSightings
  <2>3. QED BY <2>2
<1> HIDE DEF found
<1>7. "block" \in Steps /\ cursors[s].block < end
  BY <1>2, <1>5, ChainAssumption DEF Steps, Heights
<1>8. r \in TickLocals
  BY <1>3, <1>5, <1>6, <1>7, TickFacts DEF TickLocals
<1>9. LocalsOK(r, cursors[s].block, Recorded)
  BY <1>7, TickFacts DEF LocalsOK, Handling, Recomputing, Applying, TickLocals
<1> HIDE DEF r
<1>10. QED BY <1>1, <1>8, <1>9, RowsUnchanged, TickMoves DEF FetchChunk

LEMMA GetBlockType ==
  ASSUME TypeInv, NEW s \in Services, GetBlock(s)
  PROVE  TypeInv'
<1> DEFINE m == cursors[s].block + 1
           todo == SightingsOf(Payable(s, {"native"}, m), m)
                     \cup {f \in svc[s].found : f.block = m /\ f.hash = hashAt[m]}
           found == {f \in svc[s].found : f.block # m}
           p == [svc[s] EXCEPT !.pc = "apply", !.anchor = hashAt[m], !.todo = todo,
                   !.found = found]
           q == [svc[s] EXCEPT !.pc = "refresh", !.found = {}]
           r == IF Extends(s) THEN p ELSE q
<1>1. svc' = [svc EXCEPT ![s] = r]
  <2>1. CASE Extends(s)
    BY <2>1 DEF TypeInv, TypeOK, GetBlock
  <2>2. CASE ~Extends(s)
    BY <2>2 DEF TypeInv, TypeOK, GetBlock
  <2>3. QED BY <2>1, <2>2
<1>2. At(s, "block")
  BY DEF GetBlock
<1>3. m \in Heights /\ hashAt[m] \in Hashes
  <2>1. /\ cursors[s].block \in Heights \cup {-1} /\ svc[s].end \in Heights
        /\ cursors[s].block < svc[s].end
    BY <1>2, TickFacts DEF Cursors, TickLocals, LocalsOK, Applying, At
  <2>2. m \in Heights
    BY <2>1, ChainAssumption DEF Heights
  <2> HIDE DEF m
  <2>3. QED BY <2>2, TickFacts DEF ChainTypeOK
<1> HIDE DEF m
<1>4. todo \in SUBSET Sightings /\ found \in SUBSET Sightings
  <2>1. SightingsOf(Payable(s, {"native"}, m), m) \in SUBSET Sightings
    BY <1>3, PayableSightings
  <2>2. svc[s].found \in SUBSET Sightings
    BY TickFacts DEF TickLocals
  <2>3. QED BY <2>1, <2>2
<1> HIDE DEF todo, found
<1>5. {"apply", "refresh"} \subseteq Steps
  BY DEF Steps
<1>6. p \in TickLocals /\ q \in TickLocals
  BY <1>3, <1>4, <1>5, TickFacts DEF TickLocals
<1>7. /\ LocalsOK(p, cursors[s].block, Recorded)
      /\ LocalsOK(q, cursors[s].block, Recorded)
  BY <1>2, TickFacts DEF LocalsOK, Handling, Recomputing, Applying, TickLocals, At
<1> HIDE DEF p, q
<1>8. r \in TickLocals /\ LocalsOK(r, cursors[s].block, Recorded)
  BY <1>6, <1>7
<1> HIDE DEF r
<1>9. UNCHANGED <<chainVars, ledgerVars, cursors, seen, aborts>>
  BY DEF GetBlock
<1>10. QED BY <1>1, <1>8, <1>9, RowsUnchanged, TickMoves

LEMMA GetAnchorType ==
  ASSUME TypeInv, NEW s \in Services, GetAnchor(s)
  PROVE  TypeInv'
<1> DEFINE r == [svc[s] EXCEPT !.pc = "apply", !.anchor = hashAt[svc[s].end],
                   !.todo = svc[s].found, !.found = {}]
<1>1. svc' = [svc EXCEPT ![s] = r]
  BY DEF TypeInv, TypeOK, GetAnchor
<1>2. "apply" \in Steps /\ hashAt[svc[s].end] \in Hashes
  BY TickFacts DEF Steps, TickLocals, ChainTypeOK
<1>3. r \in TickLocals
  BY <1>2, TickFacts DEF TickLocals
<1>4. LocalsOK(r, cursors[s].block, Recorded)
  BY TickFacts DEF LocalsOK, Handling, Recomputing, Applying, TickLocals, GetAnchor, At
<1> HIDE DEF r
<1>5. UNCHANGED <<chainVars, ledgerVars, cursors, seen, aborts>>
  BY DEF GetAnchor
<1>6. QED BY <1>1, <1>3, <1>4, <1>5, RowsUnchanged, TickMoves

-----------------------------------------------------------------------------
\* The steps that change rows.

LEMMA ReorgResetType ==
  ASSUME TypeInv, NEW s \in Services, ReorgReset(s)
  PROVE  TypeInv'
<1> DEFINE r == [svc[s] EXCEPT !.pc = "sum", !.ret = "locate", !.found = {}]
<1>1. svc' = [svc EXCEPT ![s] = r]
  BY DEF TypeInv, TypeOK, ReorgReset, RecomputeThen
<1>2. PICK f \in svc[s].found : ResetPayment(svc[s].tx, f.block, f.hash)
  BY DEF ReorgReset
<1>3. /\ svc[s].tx \in Txs /\ svc[s].tx \in Recorded
      /\ f.block \in MinedHeights /\ f.hash \in Hashes
  BY TickFacts DEF LocalsOK, Handling, TickLocals, Sightings, MinedHeights, ReorgReset, At
<1>4. LedgerInv' /\ Recorded \subseteq Recorded'
  BY <1>2, <1>3, TickFacts, ResetPaymentType, RowsStay
<1>5. {"sum", "locate"} \subseteq Steps
  BY DEF Steps
<1>6. r \in TickLocals
  BY <1>5, TickFacts DEF TickLocals
<1>7. LocalsOK(r, cursors[s].block, Recorded')
  BY <1>3, <1>4, TickFacts DEF LocalsOK, Handling, Recomputing, Applying, TickLocals
<1> HIDE DEF r
<1>8. UNCHANGED <<chainVars, cursors, seen, aborts>>
  BY DEF ReorgReset
<1>9. QED BY <1>1, <1>4, <1>6, <1>7, <1>8, TickMoves

LEMMA ReorgOrphanType ==
  ASSUME TypeInv, NEW s \in Services, ReorgOrphan(s)
  PROVE  TypeInv'
<1> DEFINE r == [svc[s] EXCEPT !.pc = "sum", !.ret = "locate", !.found = {}]
<1>1. svc' = [svc EXCEPT ![s] = r]
  BY DEF TypeInv, TypeOK, ReorgOrphan, RecomputeThen
<1>2. svc[s].tx \in Txs /\ svc[s].tx \in Recorded
  BY TickFacts DEF LocalsOK, Handling, ReorgOrphan, At
<1>3. LedgerInv' /\ Recorded \subseteq Recorded'
  BY <1>2, TickFacts, OrphanPaymentType, RowsStay DEF ReorgOrphan
<1>4. {"sum", "locate"} \subseteq Steps
  BY DEF Steps
<1>5. r \in TickLocals
  BY <1>4, TickFacts DEF TickLocals
<1>6. LocalsOK(r, cursors[s].block, Recorded')
  BY <1>2, <1>3, TickFacts DEF LocalsOK, Handling, Recomputing, Applying, TickLocals
<1> HIDE DEF r
<1>7. UNCHANGED <<chainVars, cursors, seen, aborts>>
  BY DEF ReorgOrphan
<1>8. QED BY <1>1, <1>3, <1>5, <1>6, <1>7, TickMoves

LEMMA ApplyType ==
  ASSUME TypeInv, NEW s \in Services, Apply(s)
  PROVE  TypeInv'
<1>1. PICK f \in svc[s].todo :
        /\ InsertPayment(f.tx, f.block, f.hash) \/ RelocatePayment(f.tx, f.block, f.hash)
        /\ svc' = [svc EXCEPT ![s].pc = "sum", ![s].ret = "apply", ![s].tx = f.tx,
                     ![s].todo = @ \ {f}]
  BY DEF Apply
<1> DEFINE r == [svc[s] EXCEPT !.pc = "sum", !.ret = "apply", !.tx = f.tx, !.todo = @ \ {f}]
<1>2. svc' = [svc EXCEPT ![s] = r]
  BY <1>1 DEF TypeInv, TypeOK
<1>3. f.tx \in Txs /\ f.block \in MinedHeights /\ f.hash \in Hashes
  BY TickFacts DEF TickLocals, Sightings, MinedHeights
<1>4. LedgerInv'
  BY <1>1, <1>3, TickFacts, InsertPaymentType, RelocatePaymentType
<1>5. Recorded \subseteq Recorded' /\ f.tx \in Recorded'
  <2>1. CASE InsertPayment(f.tx, f.block, f.hash)
    BY <1>3, <2>1, TickFacts DEF InsertPayment, Recorded, LedgerInv, LedgerTypeOK
  <2>2. CASE RelocatePayment(f.tx, f.block, f.hash)
    BY <1>3, <2>2, TickFacts, RowsStay DEF RelocatePayment, Recorded
  <2>3. QED BY <1>1, <2>1, <2>2
<1>6. {"sum", "apply"} \subseteq Steps
  BY DEF Steps
<1>7. r \in TickLocals
  BY <1>3, <1>6, TickFacts DEF TickLocals
<1>8. LocalsOK(r, cursors[s].block, Recorded')
  BY <1>5, TickFacts DEF LocalsOK, Handling, Recomputing, Applying, TickLocals, Apply, At
<1> HIDE DEF r
<1>9. QED BY <1>2, <1>4, <1>5, <1>7, <1>8, TickMoves DEF Apply

LEMMA RecountType ==
  ASSUME TypeInv, NEW s \in Services, Recount(s)
  PROVE  TypeInv'
<1> DEFINE r == [svc[s] EXCEPT !.pc = "select", !.plan = {}, !.end = 0,
                   !.rangeEnd = 0, !.scanned = 0]
<1>1. svc' = [svc EXCEPT ![s] = r]
  BY DEF TypeInv, TypeOK, Recount
<1>2. CountConfirmations(svc[s].watched, svc[s].tip) /\ svc[s].tip \in Heights
  BY TickFacts DEF Recount, TickLocals
<1>3. LedgerInv' /\ Recorded' = Recorded
  BY <1>2, TickFacts, CountConfirmationsType, RowsStayCounted
<1>4. "select" \in Steps /\ 0 \in Heights
  BY ChainAssumption DEF Steps, Heights
<1>5. r \in TickLocals
  BY <1>4, TickFacts DEF TickLocals
<1>6. LocalsOK(r, cursors[s].block, Recorded')
  BY <1>3, TickFacts DEF LocalsOK, Handling, Recomputing, Applying, TickLocals
<1> HIDE DEF r
<1>7. UNCHANGED <<chainVars, cursors, seen, aborts>>
  BY DEF Recount
<1>8. QED BY <1>1, <1>3, <1>5, <1>6, <1>7, TickMoves

\* Where the handling of a payment goes on after its first promotion.
LEMMA AfterConfirmType ==
  ASSUME NEW s, NEW t
  PROVE  AfterConfirm(s, t) \in Steps /\ AfterConfirm(s, t) \in {"finalize", "sum"}
  BY DEF AfterConfirm, Steps

LEMMA PromoteNextType ==
  ASSUME TypeInv, NEW s \in Services, PromoteNext(s)
  PROVE  TypeInv'
<1>1. PICK t \in svc[s].rows :
        /\ Promote(t, DueConfirm(s, t) /\ MayConfirm(t), "merchant_confirmed")
        /\ svc' = [svc EXCEPT ![s].tx = t, ![s].rows = @ \ {t}, ![s].ret = "promote",
                    ![s].pc = IF DueConfirm(s, t) /\ MayConfirm(t) THEN "confirmed"
                              ELSE AfterConfirm(s, t)]
  BY DEF PromoteNext
<1> DEFINE step == IF DueConfirm(s, t) /\ MayConfirm(t) THEN "confirmed"
                   ELSE AfterConfirm(s, t)
           r == [svc[s] EXCEPT !.tx = t, !.rows = @ \ {t}, !.ret = "promote", !.pc = step]
<1>2. svc' = [svc EXCEPT ![s] = r]
  BY <1>1 DEF TypeInv, TypeOK
<1>3. t \in Txs /\ t \in Recorded
  BY TickFacts DEF LocalsOK
<1>4. "merchant_confirmed" \in PaymentStatuses
  BY DEF PaymentStatuses
<1>5. LedgerInv' /\ Recorded \subseteq Recorded'
  BY <1>1, <1>3, <1>4, TickFacts, PromoteType, RowsStayPromoted
<1>6. /\ step \in Steps /\ "promote" \in Steps
      /\ step \in {"confirmed", "finalize", "sum"}
  BY AfterConfirmType DEF Steps
<1> HIDE DEF step
<1>7. r \in TickLocals
  BY <1>3, <1>6, TickFacts DEF TickLocals
<1>8. LocalsOK(r, cursors[s].block, Recorded')
  BY <1>3, <1>5, <1>6, TickFacts DEF LocalsOK, Handling, Recomputing, Applying, TickLocals
<1> HIDE DEF r
<1>9. UNCHANGED <<chainVars, cursors, seen, aborts>>
  BY DEF PromoteNext
<1>10. QED BY <1>2, <1>5, <1>7, <1>8, <1>9, TickMoves

LEMMA NotifyConfirmedType ==
  ASSUME TypeInv, NEW s \in Services, NotifyConfirmed(s)
  PROVE  TypeInv'
<1> DEFINE r == [svc[s] EXCEPT !.pc = AfterConfirm(s, svc[s].tx)]
<1>1. svc' = [svc EXCEPT ![s] = r]
  BY DEF TypeInv, TypeOK, NotifyConfirmed, Go
<1>2. svc[s].tx \in Txs /\ svc[s].tx \in Recorded
  BY TickFacts DEF LocalsOK, Handling, NotifyConfirmed, At
<1>3. <<"payment.confirmed", svc[s].tx>> \in Events
  BY <1>2 DEF Events
<1>4. LedgerInv' /\ Recorded' = Recorded
  BY <1>3, TickFacts, EnqueueType DEF NotifyConfirmed, Recorded
<1>5. r \in TickLocals
  BY AfterConfirmType, TickFacts DEF TickLocals
<1>6. LocalsOK(r, cursors[s].block, Recorded')
  BY <1>2, <1>4, AfterConfirmType, TickFacts
  DEF LocalsOK, Handling, Recomputing, Applying, TickLocals, NotifyConfirmed, At
<1> HIDE DEF r
<1>7. UNCHANGED <<chainVars, cursors, seen, aborts>>
  BY DEF NotifyConfirmed
<1>8. QED BY <1>1, <1>4, <1>5, <1>6, <1>7, TickMoves

LEMMA FinalizeType ==
  ASSUME TypeInv, NEW s \in Services, Finalize(s)
  PROVE  TypeInv'
<1> DEFINE step == IF MayFinalize(svc[s].tx) THEN "finalized" ELSE "sum"
           r == [svc[s] EXCEPT !.pc = step]
<1>1. svc' = [svc EXCEPT ![s] = r]
  BY DEF TypeInv, TypeOK, Finalize, Go
<1>2. svc[s].tx \in Recorded /\ svc[s].ret = "promote"
  BY TickFacts DEF LocalsOK, Handling, Finalize, At
<1>3. Promote(svc[s].tx, MayFinalize(svc[s].tx), "system_confirmed")
  BY DEF Finalize
<1>4. "system_confirmed" \in PaymentStatuses
  BY DEF PaymentStatuses
<1>5. LedgerInv' /\ Recorded \subseteq Recorded'
  BY <1>2, <1>3, <1>4, TickFacts, PromoteType, RowsStayPromoted
<1>6. step \in Steps /\ step \in {"finalized", "sum"}
  BY DEF Steps
<1> HIDE DEF step
<1>7. r \in TickLocals
  BY <1>6, TickFacts DEF TickLocals
<1>8. LocalsOK(r, cursors[s].block, Recorded')
  BY <1>2, <1>5, <1>6, TickFacts
  DEF LocalsOK, Handling, Recomputing, Applying, TickLocals, Finalize, At
<1> HIDE DEF r
<1>9. UNCHANGED <<chainVars, cursors, seen, aborts>>
  BY DEF Finalize
<1>10. QED BY <1>1, <1>5, <1>7, <1>8, <1>9, TickMoves

LEMMA NotifyFinalizedType ==
  ASSUME TypeInv, NEW s \in Services, NotifyFinalized(s)
  PROVE  TypeInv'
<1> DEFINE r == [svc[s] EXCEPT !.pc = "sum"]
<1>1. svc' = [svc EXCEPT ![s] = r]
  BY DEF TypeInv, TypeOK, NotifyFinalized, Go
<1>2. svc[s].tx \in Txs /\ svc[s].tx \in Recorded
  BY TickFacts DEF LocalsOK, Handling, NotifyFinalized, At
<1>3. <<"payment.finalized", svc[s].tx>> \in Events
  BY <1>2 DEF Events
<1>4. LedgerInv' /\ Recorded' = Recorded
  BY <1>3, TickFacts, EnqueueType DEF NotifyFinalized, Recorded
<1>5. "sum" \in Steps
  BY DEF Steps
<1>6. r \in TickLocals
  BY <1>5, TickFacts DEF TickLocals
<1>7. LocalsOK(r, cursors[s].block, Recorded')
  BY <1>2, <1>4, TickFacts
  DEF LocalsOK, Handling, Recomputing, Applying, TickLocals, NotifyFinalized, At
<1> HIDE DEF r
<1>8. UNCHANGED <<chainVars, cursors, seen, aborts>>
  BY DEF NotifyFinalized
<1>9. QED BY <1>1, <1>4, <1>6, <1>7, <1>8, TickMoves

\* The record a recomputation leaves behind, where it returns to.
Returned(r) == [r EXCEPT !.pc = r.ret, !.sum = 0, !.ret = "idle"]

LEMMA ReturnedType ==
  ASSUME TypeInv, NEW s \in Services, Recomputing(svc[s])
  PROVE  /\ Returned(svc[s]) \in TickLocals
         /\ LocalsOK(Returned(svc[s]), cursors[s].block, Recorded)
<1>1. "idle" \in Steps
  BY DEF Steps
<1>2. Returned(svc[s]) \in TickLocals
  BY <1>1, TickFacts DEF TickLocals, Returned
<1>3. svc[s].ret \in {"locate", "apply", "promote"}
  BY TickFacts DEF LocalsOK, Handling, Recomputing
<1>4. LocalsOK(Returned(svc[s]), cursors[s].block, Recorded)
  BY <1>3, TickFacts DEF LocalsOK, Handling, Recomputing, Applying, TickLocals, Returned
<1>5. QED BY <1>2, <1>4

LEMMA SaveTotalType ==
  ASSUME TypeInv, NEW s \in Services, SaveTotal(s)
  PROVE  TypeInv'
<1> DEFINE i == InvoiceOf[svc[s].tx]
           q == [svc[s] EXCEPT !.pc = "settled"]
           r == IF Finishes(i, svc[s].sum) THEN q ELSE Returned(svc[s])
<1>1. svc' = [svc EXCEPT ![s] = r]
  <2>1. CASE Finishes(i, svc[s].sum)
    BY <2>1 DEF TypeInv, TypeOK, SaveTotal
  <2>2. CASE ~Finishes(i, svc[s].sum)
    BY <2>2 DEF TypeInv, TypeOK, SaveTotal, Returned
  <2>3. QED BY <2>1, <2>2
<1>2. Recomputing(svc[s])
  BY DEF Recomputing, SaveTotal, At
<1>3. svc[s].tx \in Txs /\ svc[s].tx \in Recorded /\ svc[s].sum \in Nat
  BY <1>2, TickFacts DEF LocalsOK, Handling, TickLocals
<1>4. i \in Invoices
  BY <1>3, LedgerAssumption
<1>5. WriteTotal(i, svc[s].sum)
  BY DEF SaveTotal
<1> HIDE DEF i
<1>6. LedgerInv' /\ Recorded' = Recorded
  BY <1>3, <1>4, <1>5, TickFacts, WriteTotalType DEF WriteTotal, Recorded
<1>7. "settled" \in Steps
  BY DEF Steps
<1>8. q \in TickLocals
  BY <1>7, TickFacts DEF TickLocals
<1>9. LocalsOK(q, cursors[s].block, Recorded)
  BY <1>2, TickFacts DEF LocalsOK, Handling, Recomputing, Applying, TickLocals
<1> HIDE DEF q
<1>10. r \in TickLocals /\ LocalsOK(r, cursors[s].block, Recorded')
  BY <1>2, <1>6, <1>8, <1>9, ReturnedType
<1> HIDE DEF r
<1>11. UNCHANGED <<chainVars, cursors, seen, aborts>>
  BY DEF SaveTotal
<1>12. QED BY <1>1, <1>6, <1>10, <1>11, TickMoves

LEMMA NotifySettledType ==
  ASSUME TypeInv, NEW s \in Services, NotifySettled(s)
  PROVE  TypeInv'
<1> DEFINE i == InvoiceOf[svc[s].tx]
           r == Returned(svc[s])
<1>1. svc' = [svc EXCEPT ![s] = r]
  BY DEF TypeInv, TypeOK, NotifySettled, Returned
<1>2. Recomputing(svc[s])
  BY DEF Recomputing, NotifySettled, At
<1>3. svc[s].tx \in Txs
  BY <1>2, TickFacts DEF LocalsOK, Handling
<1>4. i \in Invoices
  BY <1>3, LedgerAssumption
<1>5. <<"payment.finished", <<i, StatusFor(i, svc[s].sum)>>>> \in Events
  BY <1>4, StatusForType DEF Events
<1>6. LedgerInv' /\ Recorded' = Recorded
  BY <1>5, TickFacts, EnqueueType DEF NotifySettled, Recorded
<1>7. r \in TickLocals /\ LocalsOK(r, cursors[s].block, Recorded')
  BY <1>2, <1>6, ReturnedType
<1> HIDE DEF r
<1>8. UNCHANGED <<chainVars, cursors, seen, aborts>>
  BY DEF NotifySettled
<1>9. QED BY <1>1, <1>6, <1>7, <1>8, TickMoves

-----------------------------------------------------------------------------
\* The steps that move the cursor.

LEMMA CursorType ==
  ASSUME NEW block \in Heights \cup {-1}, NEW hash \in Hashes \cup {NoHash}
  PROVE  [block |-> block, hash |-> hash] \in Cursors
  BY DEF Cursors

LEMMA ResumeType ==
  ASSUME TypeInv, NEW s \in Services, Resume(s)
  PROVE  TypeInv'
<1> DEFINE r == [svc[s] EXCEPT !.pc = "fork", !.plan = ScanPlan]
           start == IF ScanPlan = {} THEN Ceiling(s) ELSE Max({Min(ScanPlan) - 1, 0})
           c == IF cursors[s] # NoCursor THEN cursors[s]
                ELSE [block |-> start, hash |-> NoHash]
<1>1. svc' = [svc EXCEPT ![s] = r]
  BY DEF TypeInv, TypeOK, Resume
<1>2. cursors' = [cursors EXCEPT ![s] = c]
  <2>1. CASE cursors[s] # NoCursor
    <3>1. cursors' = cursors /\ c = cursors[s]
      BY <2>1 DEF Resume
    <3>2. QED BY <3>1 DEF TypeInv, TypeOK
  <2>2. CASE cursors[s] = NoCursor
    BY <2>2 DEF Resume
  <2>3. QED BY <2>1, <2>2
<1>3. ScanPlan \in SUBSET Heights
  BY DEF ScanPlan, PlanOf
<1>4. start \in Heights \cup {-1}
  <2>1. CASE ScanPlan = {}
    <3>1. svc[s].tip \in Heights
      BY TickFacts DEF TickLocals
    <3>2. QED BY <2>1, <3>1, ChainAssumption DEF Heights, Ceiling
  <2>2. CASE ScanPlan # {}
    <3> DEFINE low == Min(ScanPlan)
    <3>1. low \in Heights
      BY <1>3, <2>2, MinType
    <3>2. start = Max({low - 1, 0})
      BY <2>2
    <3> HIDE DEF low, start
    <3>3. CASE low = 0
      <4>1. \A x \in {low - 1, 0} : 0 >= x
        BY <3>3
      <4>2. Max({low - 1, 0}) = 0
        BY <3>3, <4>1 DEF Max
      <4>3. QED BY <3>2, <4>2, ChainAssumption DEF Heights
    <3>4. CASE low # 0
      <4>1. {low - 1, 0} \in SUBSET Heights
        BY <3>1, <3>4, ChainAssumption DEF Heights
      <4>2. QED BY <3>2, <4>1, MaxType
    <3>5. QED BY <3>3, <3>4
  <2>3. QED BY <2>1, <2>2
<1> HIDE DEF start
<1>5. c \in Cursors
  BY <1>4, TickFacts, CursorType
<1> HIDE DEF c
<1>6. "fork" \in Steps
  BY DEF Steps
<1>7. r \in TickLocals
  BY <1>3, <1>6, TickFacts DEF TickLocals
<1>8. LocalsOK(r, c.block, Recorded)
  BY TickFacts DEF LocalsOK, Handling, Recomputing, Applying, TickLocals
<1> HIDE DEF r
<1>9. UNCHANGED <<chainVars, ledgerVars, seen, aborts>>
  BY DEF Resume
<1>10. seen' \in [Services -> [Heights -> Hashes \cup {NoHash}]]
  BY <1>9 DEF TypeInv, TypeOK
<1>11. QED BY <1>1, <1>2, <1>5, <1>7, <1>8, <1>9, <1>10, CursorMoves

LEMMA RewindType ==
  ASSUME TypeInv, NEW s \in Services, Rewind(s)
  PROVE  TypeInv'
<1> DEFINE c == [block |-> svc[s].fork, hash |-> seen[s][svc[s].fork]]
           r == [svc[s] EXCEPT !.pc = "skip", !.fork = 0, !.tx = NoTx]
<1>1. svc' = [svc EXCEPT ![s] = r] /\ cursors' = [cursors EXCEPT ![s] = c]
  BY DEF TypeInv, TypeOK, Rewind
<1>2. svc[s].fork \in Heights /\ seen[s][svc[s].fork] \in Hashes \cup {NoHash}
  BY TickFacts DEF TickLocals, TypeInv, TypeOK
<1>3. c \in Cursors
  BY <1>2, CursorType
<1>4. "skip" \in Steps /\ 0 \in Heights
  BY ChainAssumption DEF Steps, Heights
<1>5. r \in TickLocals
  BY <1>4, TickFacts DEF TickLocals
<1>6. LocalsOK(r, c.block, Recorded)
  BY TickFacts DEF LocalsOK, Handling, Recomputing, Applying, TickLocals
<1> HIDE DEF r, c
<1>7. UNCHANGED <<chainVars, ledgerVars, seen, aborts>>
  BY DEF Rewind
<1>8. seen' \in [Services -> [Heights -> Hashes \cup {NoHash}]]
  BY <1>7 DEF TypeInv, TypeOK
<1>9. QED BY <1>1, <1>3, <1>5, <1>6, <1>7, <1>8, CursorMoves

LEMMA ParkType ==
  ASSUME TypeInv, NEW s \in Services, NEW block \in Heights, NEW hash \in Hashes,
         Park(s, block, hash)
  PROVE  /\ [block |-> block, hash |-> hash] \in Cursors
         /\ seen' \in [Services -> [Heights -> Hashes \cup {NoHash}]]
<1>1. [block |-> block, hash |-> hash] \in Cursors
  BY CursorType
<1>2. seen' \in [Services -> [Heights -> Hashes \cup {NoHash}]]
  BY DEF TypeInv, TypeOK, Park
<1>3. QED BY <1>1, <1>2

\* A jump over dead space: to a height of the chain above the cursor, or not
\* at all.
LEMMA JumpMoves ==
  ASSUME TypeInv, NEW s \in Services, NEW to \in Heights \cup {-1}, NEW r \in TickLocals,
         svc' = [svc EXCEPT ![s] = r],
         r.pc \in {"refresh", "chunk"}, r.rows \subseteq Recorded,
         IF to > cursors[s].block THEN Park(s, to, hashAt[to]) ELSE UNCHANGED <<cursors, seen>>,
         UNCHANGED <<chainVars, ledgerVars, aborts>>
  PROVE  TypeInv'
<1>1. \A b : LocalsOK(r, b, Recorded)
  BY DEF LocalsOK, Handling, Recomputing, Applying
<1>2. CASE to > cursors[s].block
  <2>1. to \in Heights
    BY <1>2, TickFacts, ChainAssumption DEF Cursors, Heights
  <2>2. hashAt[to] \in Hashes
    BY <2>1, TickFacts DEF ChainTypeOK
  <2>3. Park(s, to, hashAt[to])
    BY <1>2
  <2> DEFINE c == [block |-> to, hash |-> hashAt[to]]
  <2>4. c \in Cursors /\ seen' \in [Services -> [Heights -> Hashes \cup {NoHash}]]
    BY <2>1, <2>2, <2>3, ParkType
  <2>5. cursors' = [cursors EXCEPT ![s] = c]
    BY <2>3 DEF Park
  <2>6. LocalsOK(r, c.block, Recorded)
    BY <1>1
  <2> HIDE DEF c
  <2>7. QED BY <2>4, <2>5, <2>6, CursorMoves
<1>3. CASE ~(to > cursors[s].block)
  <2>1. UNCHANGED <<chainVars, ledgerVars, cursors, seen, aborts>>
    BY <1>3
  <2>2. QED BY <1>1, <2>1, RowsUnchanged, TickMoves
<1>4. QED BY <1>2, <1>3

LEMMA SkipDeadSpaceType ==
  ASSUME TypeInv, NEW s \in Services, SkipDeadSpace(s)
  PROVE  TypeInv'
<1> DEFINE want == cursors[s].block + 1
           idle == PlanFrom(svc[s].plan, want) = {}
           to == IF idle THEN Ceiling(s)
                 ELSE Min({PlanNext(svc[s].plan, want) - 1, Ceiling(s)})
           r == [svc[s] EXCEPT !.pc = IF idle THEN "refresh" ELSE "chunk"]
<1>1. svc' = [svc EXCEPT ![s] = r]
  BY DEF TypeInv, TypeOK, SkipDeadSpace, Go
<1>2. /\ IF to > cursors[s].block THEN Park(s, to, hashAt[to]) ELSE UNCHANGED <<cursors, seen>>
      /\ UNCHANGED <<chainVars, ledgerVars, aborts>>
  BY DEF SkipDeadSpace
<1>3. Ceiling(s) \in Heights \cup {-1}
  BY TickFacts, ChainAssumption DEF TickLocals, Heights, Ceiling
<1>4. to \in Heights \cup {-1}
  <2>1. CASE idle
    BY <1>3, <2>1
  <2>2. CASE ~idle
    <3> DEFINE next == PlanNext(svc[s].plan, want)
    <3>1. next \in Heights
      <4>1. PlanFrom(svc[s].plan, want) \in SUBSET Heights
        BY TickFacts DEF TickLocals, PlanFrom
      <4>2. QED BY <2>2, <4>1, MinType DEF PlanNext
    <3>2. to = Min({next - 1, Ceiling(s)})
      BY <2>2
    <3> HIDE DEF next, to
    <3>3. QED BY <1>3, <3>1, <3>2, MinOfTwo, ChainAssumption DEF Heights
  <2>3. QED BY <2>1, <2>2
<1> HIDE DEF to
<1>5. {"refresh", "chunk"} \subseteq Steps
  BY DEF Steps
<1>6. r \in TickLocals /\ r.pc \in {"refresh", "chunk"} /\ r.rows \subseteq Recorded
  BY <1>5, TickFacts DEF TickLocals, LocalsOK
<1> HIDE DEF r
<1>7. QED BY <1>1, <1>2, <1>4, <1>6, JumpMoves

LEMMA JumpGapType ==
  ASSUME TypeInv, NEW s \in Services, JumpGap(s)
  PROVE  TypeInv'
<1> DEFINE next == PlanNext(svc[s].plan, cursors[s].block + 1)
           to == Min({next - 1, Ceiling(s)})
           r == [svc[s] EXCEPT !.pc = IF to > cursors[s].block THEN "chunk" ELSE "refresh"]
<1>1. /\ IF to > cursors[s].block
         THEN Park(s, to, hashAt[to]) /\ Go(s, "chunk")
         ELSE UNCHANGED <<cursors, seen>> /\ Go(s, "refresh")
      /\ UNCHANGED <<chainVars, ledgerVars, aborts>>
      /\ At(s, "gap")
  BY DEF JumpGap
<1>2. Ceiling(s) \in Heights \cup {-1}
  BY TickFacts, ChainAssumption DEF TickLocals, Heights, Ceiling
<1>3. next \in Heights
  <2>1. PlanFrom(svc[s].plan, cursors[s].block + 1) \in SUBSET Heights
    BY TickFacts DEF TickLocals, PlanFrom
  <2>2. PlanFrom(svc[s].plan, cursors[s].block + 1) # {}
    BY <1>1, TickFacts DEF LocalsOK, At
  <2>3. QED BY <2>1, <2>2, MinType DEF PlanNext
<1> HIDE DEF next
<1>4. to \in Heights \cup {-1}
  BY <1>2, <1>3, MinOfTwo, ChainAssumption DEF Heights
<1> HIDE DEF to
<1>5. svc' = [svc EXCEPT ![s] = r]
  BY <1>1 DEF TypeInv, TypeOK, Go
<1>6. {"refresh", "chunk"} \subseteq Steps
  BY DEF Steps
<1>7. r \in TickLocals /\ r.pc \in {"refresh", "chunk"} /\ r.rows \subseteq Recorded
  BY <1>6, TickFacts DEF TickLocals, LocalsOK
<1> HIDE DEF r
<1>8. IF to > cursors[s].block THEN Park(s, to, hashAt[to]) ELSE UNCHANGED <<cursors, seen>>
  BY <1>1
<1>9. QED BY <1>1, <1>4, <1>5, <1>7, <1>8, JumpMoves

LEMMA AdvanceType ==
  ASSUME TypeInv, NEW s \in Services, Advance(s)
  PROVE  TypeInv'
<1> DEFINE m == IF s = "logs" THEN svc[s].end ELSE cursors[s].block + 1
           next == PlanFrom(svc[s].plan, m + 1)
           step == IF m < svc[s].end THEN "block"
                   ELSE IF m + 1 <= svc[s].rangeEnd \/ m + 1 \in next THEN "chunk"
                   ELSE IF next = {} THEN "refresh" ELSE "gap"
           used == svc[s].scanned + m - cursors[s].block
           c == [block |-> m, hash |-> svc[s].anchor]
           r == [svc[s] EXCEPT !.anchor = NoHash, !.tx = NoTx, !.scanned = used, !.pc = step]
<1>1. svc' = [svc EXCEPT ![s] = r]
  BY DEF TypeInv, TypeOK, Advance
<1>2. /\ cursors' = [cursors EXCEPT ![s] = c]
      /\ seen' = [seen EXCEPT ![s][m] = svc[s].anchor]
  BY DEF Advance, Park
<1>3. /\ cursors[s].block \in Heights \cup {-1} /\ svc[s].end \in Heights
      /\ svc[s].anchor \in Hashes \cup {NoHash} /\ svc[s].scanned \in Nat
      /\ cursors[s].block < svc[s].end
  BY TickFacts DEF Cursors, TickLocals, LocalsOK, Applying, Advance, At
<1>4. m \in Heights /\ used \in Nat
  BY <1>3, ChainAssumption DEF Heights
<1>5. /\ step \in {"block", "chunk", "refresh", "gap"}
      /\ step = "block" => m < svc[s].end
      /\ step = "gap" => PlanFrom(svc[s].plan, m + 1) # {}
  OBVIOUS
<1> HIDE DEF m, next, step, used
<1>6. c \in Cursors /\ c.block = m
  BY <1>3, <1>4, CursorType
<1>7. seen' \in [Services -> [Heights -> Hashes \cup {NoHash}]]
  BY <1>2, <1>3, <1>4 DEF TypeInv, TypeOK
<1>8. step \in Steps /\ "idle" \in Steps
  BY <1>5 DEF Steps
<1>9. r \in TickLocals
  BY <1>4, <1>8, TickFacts DEF TickLocals
<1>10. LocalsOK(r, m, Recorded)
  BY <1>5, TickFacts DEF LocalsOK, Handling, Recomputing, Applying, TickLocals
<1> HIDE DEF r, c
<1>11. UNCHANGED <<chainVars, ledgerVars, aborts>>
  BY DEF Advance
<1>12. QED BY <1>1, <1>2, <1>6, <1>7, <1>9, <1>10, <1>11, CursorMoves

LEMMA IdleType == Idle \in TickLocals
<1>1. NoPayment \in PaymentRows
  BY ChainAssumption
  DEF NoPayment, PaymentRows, PaymentStatuses, Heights, Hashes, Unmined, NoHash
<1>2. 0 \in Heights /\ "idle" \in Steps
  BY ChainAssumption DEF Heights, Steps
<1>3. [t \in Txs |-> NoPayment] \in [Txs -> PaymentRows]
  BY <1>1
<1>4. QED BY <1>2, <1>3 DEF Idle, TickLocals

LEMMA IdleOK == \A b, recorded : LocalsOK(Idle, b, recorded)
  BY DEF Idle, LocalsOK, Handling, Recomputing, Applying

LEMMA EndTickType ==
  ASSUME TypeInv, NEW s \in Services, EndTick(s)
  PROVE  TypeInv'
<1>1. svc' = [svc EXCEPT ![s] = Idle] /\ UNCHANGED <<chainVars, ledgerVars, cursors, aborts>>
  BY DEF EndTick
<1>2. cursors' = [cursors EXCEPT ![s] = cursors[s]]
  BY <1>1 DEF TypeInv, TypeOK
<1>3. seen' \in [Services -> [Heights -> Hashes \cup {NoHash}]]
  BY DEF EndTick, TypeInv, TypeOK
<1>4. QED BY <1>1, <1>2, <1>3, TickFacts, IdleType, IdleOK, CursorMoves

-----------------------------------------------------------------------------
\* What is not a step of a tick.

LEMMA AbortTickType ==
  ASSUME TypeInv, NEW s \in Services, AbortTick(s)
  PROVE  TypeInv'
<1>1. /\ svc' = [svc EXCEPT ![s] = Idle]
      /\ UNCHANGED <<chainVars, ledgerVars, cursors, seen>>
      /\ aborts' \in 0 .. MaxAborts
  BY WatcherAssumption DEF AbortTick, TypeInv, TypeOK
<1>2. svc' \in [Services -> TickLocals]
  BY <1>1, IdleType DEF TypeInv, TypeOK
<1>3. ChainTypeOK'
  BY <1>1 DEF TypeInv, TypeOK, ChainTypeOK, chainVars
<1>4. LedgerInv' /\ Recorded' = Recorded
  BY <1>1, RowsUnchanged
<1>5. TypeOK'
  BY <1>1, <1>2, <1>3, <1>4 DEF TypeInv, TypeOK, LedgerInv
<1>6. ASSUME NEW u \in Services PROVE LocalsOK(svc'[u], cursors'[u].block, Recorded')
  <2>1. CASE u = s
    BY <1>1, <2>1, IdleOK DEF TypeInv, TypeOK
  <2>2. CASE u # s
    BY <1>1, <1>4, <2>2 DEF TypeInv, TypeOK
  <2>3. QED BY <2>1, <2>2
<1>7. QED BY <1>4, <1>5, <1>6 DEF TypeInv, LedgerInv

\* The environment leaves cursors and ticks alone.
LEMMA OutsideMoves ==
  ASSUME TypeInv, ChainTypeOK', LedgerInv', Recorded' = Recorded,
         UNCHANGED <<cursors, seen, svc, aborts>>
  PROVE  TypeInv'
  BY DEF TypeInv, TypeOK, LedgerInv

LEMMA GrowChainType ==
  ASSUME TypeInv, GrowChain
  PROVE  TypeInv'
<1>1. PICK included \in SUBSET Txs :
        minedAt' = [t \in Txs |-> IF t \in included THEN tip + 1 ELSE minedAt[t]]
  BY DEF GrowChain, MineBlock, PayableTxs
<1>2. /\ tip' = tip + 1 /\ tip < MaxTip /\ reorgs' = reorgs
      /\ hashAt' = [hashAt EXCEPT ![tip + 1] = reorgs]
      /\ UNCHANGED <<ledgerVars, cursors, seen, svc, aborts>>
  BY DEF GrowChain, MineBlock
<1>3. tip' \in Heights \ {0} /\ tip + 1 \in Heights
  BY <1>2, ChainAssumption DEF TypeInv, TypeOK, ChainTypeOK, Heights
<1>4. ChainTypeOK'
  BY <1>1, <1>2, <1>3 DEF TypeInv, TypeOK, ChainTypeOK
<1>5. QED BY <1>2, <1>4, RowsUnchanged, OutsideMoves

LEMMA ReorgChainType ==
  ASSUME TypeInv, ReorgChain
  PROVE  TypeInv'
<1>1. PICK fork \in Heights :
        /\ fork < tip
        /\ hashAt' = [h \in Heights |->
                        IF h \in fork + 1 .. tip THEN reorgs + 1 ELSE hashAt[h]]
        /\ \E moved \in [{t \in PayableTxs : minedAt[t] = Unmined \/ minedAt[t] > fork}
                          -> {Unmined} \cup (fork + 1 .. tip)] :
             minedAt' = [t \in Txs |->
                           IF t \in DOMAIN moved THEN moved[t] ELSE minedAt[t]]
  BY DEF ReorgChain, Reorganise
<1>2. /\ reorgs < MaxReorgs /\ reorgs' = reorgs + 1 /\ tip' = tip
      /\ UNCHANGED <<ledgerVars, cursors, seen, svc, aborts>>
  BY DEF ReorgChain, Reorganise
<1>3. reorgs + 1 \in Hashes
  BY <1>2, ChainAssumption DEF TypeInv, TypeOK, ChainTypeOK, Hashes
<1>4. {Unmined} \cup (fork + 1 .. tip) \subseteq Heights
  BY <1>1, ChainAssumption DEF TypeInv, TypeOK, ChainTypeOK, Heights, Unmined
<1>5. minedAt' \in [Txs -> Heights]
  BY <1>1, <1>4 DEF TypeInv, TypeOK, ChainTypeOK
<1>6. hashAt' \in [Heights -> Hashes]
  BY <1>1, <1>3 DEF TypeInv, TypeOK, ChainTypeOK
<1>7. ChainTypeOK'
  BY <1>2, <1>3, <1>5, <1>6 DEF TypeInv, TypeOK, ChainTypeOK
<1>8. QED BY <1>2, <1>7, RowsUnchanged, OutsideMoves

LEMMA CreateInvoiceType ==
  ASSUME TypeInv, CreateInvoice
  PROVE  TypeInv'
<1>1. PICK i \in Invoices : RegisterInvoice(i)
  BY DEF CreateInvoice
<1>2. UNCHANGED <<chainVars, cursors, seen, svc, aborts>>
  BY DEF CreateInvoice
<1>3. ChainTypeOK /\ LedgerInv
  BY DEF TypeInv, TypeOK, LedgerInv
<1>4. LedgerInv' /\ Recorded' = Recorded
  BY <1>1, <1>3, RegisterInvoiceType DEF RegisterInvoice, Recorded
<1>5. ChainTypeOK'
  BY <1>2, <1>3 DEF ChainTypeOK, chainVars
<1>6. QED BY <1>2, <1>4, <1>5, OutsideMoves

LEMMA ExpireInvoiceType ==
  ASSUME TypeInv, ExpireInvoice
  PROVE  TypeInv'
<1>1. PICK i \in Expiring : PassExpiry(i)
  BY DEF ExpireInvoice
<1>2. UNCHANGED <<chainVars, cursors, seen, svc, aborts>>
  BY DEF ExpireInvoice
<1>3. i \in Invoices /\ ChainTypeOK /\ LedgerInv
  BY WatcherAssumption DEF TypeInv, TypeOK, LedgerInv
<1>4. LedgerInv' /\ Recorded' = Recorded
  BY <1>1, <1>3, PassExpiryType DEF PassExpiry, Recorded
<1>5. ChainTypeOK'
  BY <1>2, <1>3 DEF ChainTypeOK, chainVars
<1>6. QED BY <1>2, <1>4, <1>5, OutsideMoves

-----------------------------------------------------------------------------
LEMMA InitType == Init => TypeInv
<1> SUFFICES ASSUME Init PROVE TypeInv
  OBVIOUS
<1>1. ChainTypeOK
  BY ChainAssumption DEF Init, ChainInit, ChainTypeOK, Heights, Hashes, Unmined
<1>2. NoPayment \in PaymentRows
  BY ChainAssumption
  DEF NoPayment, PaymentRows, PaymentStatuses, Heights, Hashes, Unmined, NoHash
<1>3. payments \in [Txs -> PaymentRows] /\ Recorded = {}
  BY <1>2 DEF Init, LedgerInit, Recorded, NoPayment
<1>4. invoices \in [Invoices -> InvoiceRows]
  <2>1. tip \in Heights /\ Unmined \in Heights
    BY <1>1, ChainAssumption DEF ChainTypeOK, Heights, Unmined
  <2>2. QED BY <2>1 DEF Init, LedgerInit, InvoiceRows, InvoiceStatuses
<1>5. LedgerTypeOK /\ RowsMined
  BY <1>3, <1>4 DEF Init, LedgerInit, LedgerTypeOK, RowsMined
<1>6. cursors \in [Services -> [block : Heights \cup {-1}, hash : Hashes \cup {NoHash}]]
  BY DEF Init, NoCursor
<1>7. seen \in [Services -> [Heights -> Hashes \cup {NoHash}]]
  BY DEF Init
<1>8. svc \in [Services -> TickLocals] /\ aborts \in 0 .. MaxAborts
  BY IdleType, WatcherAssumption DEF Init
<1>9. \A s \in Services : LocalsOK(svc[s], cursors[s].block, Recorded)
  BY IdleOK DEF Init
<1>10. QED BY <1>1, <1>5, <1>6, <1>7, <1>8, <1>9 DEF TypeInv, TypeOK

LEMMA TickStepType ==
  ASSUME TypeInv, NEW s \in Services, TickStep(s)
  PROVE  TypeInv'
<1>1. CASE LoadWatched(s) \/ ReadTip(s) \/ Resume(s) \/ DetectFork(s)
  BY <1>1, LoadWatchedType, ReadTipType, ResumeType, DetectForkType
<1>2. CASE \/ SelectAffected(s) \/ LocateTx(s) \/ ReorgReset(s) \/ ReorgOrphan(s)
           \/ Rewind(s)
  BY <1>2, SelectAffectedType, LocateTxType, ReorgResetType, ReorgOrphanType, RewindType
<1>3. CASE SkipDeadSpace(s) \/ FetchChunk(s) \/ StopScanning(s) \/ GetBlock(s) \/ GetAnchor(s)
  BY <1>3, SkipDeadSpaceType, FetchChunkType, StopScanningType, GetBlockType, GetAnchorType
<1>4. CASE Apply(s) \/ Advance(s) \/ JumpGap(s)
  BY <1>4, ApplyType, AdvanceType, JumpGapType
<1>5. CASE Recount(s) \/ SelectOpen(s) \/ PromoteNext(s) \/ NotifyConfirmed(s)
  BY <1>5, RecountType, SelectOpenType, PromoteNextType, NotifyConfirmedType
<1>6. CASE Finalize(s) \/ NotifyFinalized(s) \/ EndTick(s)
  BY <1>6, FinalizeType, NotifyFinalizedType, EndTickType
<1>7. CASE ReadTotal(s) \/ SaveTotal(s) \/ NotifySettled(s)
  BY <1>7, ReadTotalType, SaveTotalType, NotifySettledType
<1>8. QED BY <1>1, <1>2, <1>3, <1>4, <1>5, <1>6, <1>7 DEF TickStep

LEMMA NextType == TypeInv /\ [Next]_vars => TypeInv'
<1> SUFFICES ASSUME TypeInv, [Next]_vars PROVE TypeInv'
  OBVIOUS
<1>1. ASSUME NEW s \in Services, TickStep(s) PROVE TypeInv'
  BY <1>1, TickStepType
<1>2. ASSUME NEW s \in Services, AbortTick(s) PROVE TypeInv'
  BY <1>2, AbortTickType
<1>3. CASE GrowChain
  BY <1>3, GrowChainType
<1>4. CASE ReorgChain
  BY <1>4, ReorgChainType
<1>5. CASE CreateInvoice
  BY <1>5, CreateInvoiceType
<1>6. CASE ExpireInvoice
  BY <1>6, ExpireInvoiceType
<1>7. CASE UNCHANGED vars
  <2>1. UNCHANGED <<chainVars, ledgerVars, cursors, seen, svc, aborts>>
    BY <1>7 DEF vars
  <2>2. ChainTypeOK'
    BY <2>1 DEF TypeInv, TypeOK, ChainTypeOK, chainVars
  <2>3. QED BY <2>1, <2>2, RowsUnchanged, OutsideMoves
<1>8. QED BY <1>1, <1>2, <1>3, <1>4, <1>5, <1>6, <1>7 DEF Next

\* The inductive invariant holds in every reachable state.
THEOREM TypeInvariant == Spec => []TypeInv
<1>1. QED BY InitType, NextType, PTL DEF Spec

\* Whatever the chain does, however many transactions and invoices there are
\* and wherever the two services are interleaved or cut short, every row, every cursor
\* and every local of a tick of tick_addresses and tick_logs keeps its type: no
\* counter below zero, no cursor off the chain, no event about nothing.
THEOREM TypeCorrect == Spec => []TypeOK
<1>1. TypeInv => TypeOK
  BY DEF TypeInv
<1>2. QED BY <1>1, TypeInvariant, PTL
===============================================================================
