----------------------------- MODULE EsploraProofs -----------------------------
(***************************************************************************)
(* The Bitcoin watcher for every value of its constants: type correctness, *)
(* and the total of every invoice.  The database transactions of           *)
(* EsploraLedger come first, whoever runs them; then the steps of the two  *)
(* loops, each of which runs one of them or leaves the rows alone.         *)
(***************************************************************************)
EXTENDS EsploraWatcher, TLAPS, WellFoundedInduction

\* The payments that have a row.  Rows are never deleted, so a copy of one
\* that a loop holds is the copy of a row that still exists.
Present == {p \in Pays : payments[p].status # "absent"}

MinedHeights == Heights \ {Unmined}

LEMMA MinOfNat ==
  ASSUME NEW S, S \subseteq Nat, S # {}
  PROVE  Min(S) \in S /\ \A y \in S : Min(S) <= y
<1> DEFINE Less == {pair \in Nat \X Nat : pair[1] < pair[2]}
<1>1. IsWellFoundedOn(Less, Nat)
  BY NatLessThanWellFounded, Zenon DEF OpToRel
<1>2. PICK x \in S : \A y \in S : <<y, x>> \notin Less
  <2> HIDE DEF Less
  <2> QED BY <1>1, WFMin, Zenon
<1>3. ASSUME NEW y \in S PROVE x <= y
  <2>1. <<y, x>> \in Nat \X Nat /\ <<y, x>>[1] = y /\ <<y, x>>[2] = x
    OBVIOUS
  <2>2. QED BY <1>2, <2>1
<1>4. QED BY <1>3 DEF Min

LEMMA MaxOfHeights ==
  ASSUME NEW S \in SUBSET Heights, S # {}
  PROVE  Max(S) \in S /\ \A y \in S : y <= Max(S)
<1> DEFINE T == {MaxTip - x : x \in S}
<1>1. S \subseteq 0 .. MaxTip /\ MaxTip \in Nat
  BY ChainAssumption DEF Heights
<1>2. T \subseteq Nat /\ T # {}
  BY <1>1
<1>3. Min(T) \in T /\ \A y \in T : Min(T) <= y
  BY <1>2, MinOfNat
<1>4. PICK x \in S : Min(T) = MaxTip - x
  BY <1>3
<1>5. ASSUME NEW y \in S PROVE y <= x
  <2>1. MaxTip - x <= MaxTip - y
    BY <1>3, <1>4
  <2>2. QED BY <1>1, <2>1
<1>6. QED BY <1>1, <1>5 DEF Max

LEMMA MinOfTwo ==
  ASSUME NEW a \in Int, NEW b \in Int
  PROVE  Min({a, b}) \in {a, b} /\ Min({a, b}) <= a /\ Min({a, b}) <= b
<1>1. CASE a <= b
  <2>1. \A y \in {a, b} : a <= y
    BY <1>1
  <2>2. QED BY <2>1 DEF Min
<1>2. CASE b <= a
  <2>1. \A y \in {a, b} : b <= y
    BY <1>2
  <2>2. QED BY <2>1 DEF Min
<1>3. QED BY <1>1, <1>2

LEMMA PaysArePairs ==
  ASSUME NEW p \in Pays
  PROVE  p[1] \in Txs /\ p[2] \in Invoices /\ p = <<p[1], p[2]>> /\ p \in PaymentsOf(p[2])
  BY EsploraLedgerAssumption DEF PaymentsOf

-----------------------------------------------------------------------------
(***************************************************************************)
(* The rows.                                                               *)
(***************************************************************************)
LEMMA TotalType ==
  ASSUME NEW rows, NEW i
  PROVE  Credited(rows, i) \in SUBSET Pays /\ Total(rows, i) \in Nat
<1>1. Credited(rows, i) \in SUBSET Pays
  BY DEF Credited, PaymentsOf
<1>2. QED BY <1>1, EsploraLedgerAssumption DEF Total

LEMMA StatusForType ==
  ASSUME NEW i, NEW n
  PROVE  StatusFor(i, n) \in InvoiceStatuses
  BY DEF StatusFor, InvoiceStatuses

LEMMA SettledType ==
  ASSUME LedgerTypeOK, NEW rows, NEW i \in Invoices
  PROVE  Settled(rows, i) \in [Invoices -> InvoiceRows]
<1> DEFINE row == [invoices[i] EXCEPT !.received = Total(rows, i),
                     !.status = IF @ = "expired" THEN @ ELSE StatusFor(i, Total(rows, i))]
<1>1. row \in InvoiceRows
  BY TotalType, StatusForType DEF LedgerTypeOK, InvoiceRows
<1>2. Settled(rows, i) = [invoices EXCEPT ![i] = row]
  BY DEF Settled, LedgerTypeOK, InvoiceRows
<1>3. QED BY <1>1, <1>2 DEF LedgerTypeOK

LEMMA PromotedType ==
  ASSUME NEW i, NEW status \in PaymentStatuses, NEW confs
  PROVE  /\ Promoted(i, status, confs) \in PaymentStatuses
         /\ status # "absent" => Promoted(i, status, confs) # "absent"
         /\ Promoted(i, status, confs) \in {"absent", "orphaned"} <=> status \in {"absent", "orphaned"}
  BY DEF Promoted, PaymentStatuses, Confirms, Finalizes

\* What a transaction may announce about payment p of invoice i.
Keys(p) == (TxEvents \X {p[1]}) \cup {<<"payment.finished", InvoiceKey>>}

LEMMA LatchKeys ==
  ASSUME NEW p, NEW i, NEW status, NEW confs, NEW rows
  PROVE  Latches(i, p[1], status, confs) \cup Finish(rows, i) \subseteq Keys(p)
  BY DEF Latches, Finish, Keys, TxEvents

LEMMA AnnounceType ==
  ASSUME LedgerTypeOK, NEW p \in Pays, NEW keys \in SUBSET Keys(p), Announce(p[2], keys)
  PROVE  events' \subseteq Events /\ events \subseteq events'
<1>1. \A key \in keys : <<key[1], key[2], p[2]>> \in Events
  BY PaysArePairs DEF Keys, Events
<1>2. QED BY <1>1 DEF Announce, LedgerTypeOK

LEMMA InsertPaymentType ==
  ASSUME LedgerTypeOK, NEW p \in Pays, NEW at \in Heights, NEW v \in Heights,
         InsertPayment(p, at, v)
  PROVE  LedgerTypeOK' /\ Present \subseteq Present'
<1> DEFINE confs == IF at = Unmined THEN 0 ELSE Confirmations(at, v)
           status == IF at = Unmined THEN "detected" ELSE Promoted(p[2], "detected", confs)
           row == [status |-> status, block |-> at]
           rows == [payments EXCEPT ![p] = row]
           latches == IF at = Unmined THEN {} ELSE Latches(p[2], p[1], "detected", confs)
           keys == {<<"payment.detected", p[1]>>} \cup latches \cup Finish(rows, p[2])
<1>1. CASE payments[p].status # "absent"
  BY <1>1 DEF InsertPayment, ledgerVars, LedgerTypeOK, Present
<1>2. CASE payments[p].status = "absent"
  <2>1. payments' = rows /\ invoices' = Settled(rows, p[2]) /\ Announce(p[2], keys)
    BY <1>2 DEF InsertPayment
  <2>2. "detected" \in PaymentStatuses
    BY DEF PaymentStatuses
  <2>3. row \in PaymentRows /\ row.status # "absent"
    BY <2>2, PromotedType DEF PaymentRows
  <2>4. keys \in SUBSET Keys(p)
    BY LatchKeys DEF Keys, TxEvents
  <2> HIDE DEF row, keys
  <2>5. rows \in [Pays -> PaymentRows] /\ Present \subseteq Present'
    BY <2>1, <2>3 DEF LedgerTypeOK, Present
  <2> HIDE DEF rows
  <2>6. CASE UNCHANGED <<invoices, events>>
    BY <2>1, <2>5, <2>6 DEF LedgerTypeOK
  <2>7. CASE invoices' = Settled(rows, p[2]) /\ Announce(p[2], keys)
    BY <2>1, <2>4, <2>5, <2>7, PaysArePairs, SettledType, AnnounceType DEF LedgerTypeOK
  <2>8. QED BY <2>1, <2>6, <2>7
<1>3. QED BY <1>1, <1>2

LEMMA ApplyMinedType ==
  ASSUME LedgerTypeOK, NEW p \in Pays, NEW row, NEW at \in Heights, NEW v \in Heights,
         ApplyMined(p, row, at, v)
  PROVE  LedgerTypeOK' /\ Present \subseteq Present'
<1> DEFINE confs == Confirmations(at, v)
           status == IF payments[p].status = "orphaned" THEN "detected" ELSE payments[p].status
           new == [status |-> Promoted(p[2], status, confs), block |-> at]
           rows == [payments EXCEPT ![p] = new]
           keys == Latches(p[2], p[1], status, confs) \cup Finish(rows, p[2])
<1>1. CASE UNCHANGED ledgerVars
  BY <1>1 DEF ledgerVars, LedgerTypeOK, Present
<1>2. CASE ~UNCHANGED ledgerVars
  <2>1. /\ payments' = rows
        /\ \/ invoices' = Settled(rows, p[2]) /\ Announce(p[2], keys)
           \/ UNCHANGED <<invoices, events>>
    BY <1>2 DEF ApplyMined
  <2>2. status \in PaymentStatuses /\ (payments[p].status # "absent" => status # "absent")
    BY DEF LedgerTypeOK, PaymentRows, PaymentStatuses
  <2>3. new \in PaymentRows /\ (payments[p].status # "absent" => new.status # "absent")
    BY <2>2, PromotedType DEF PaymentRows
  <2>4. keys \in SUBSET Keys(p)
    BY LatchKeys
  <2> HIDE DEF new, keys
  <2>5. rows \in [Pays -> PaymentRows] /\ Present \subseteq Present'
    BY <2>1, <2>3 DEF LedgerTypeOK, Present
  <2> HIDE DEF rows
  <2>6. CASE UNCHANGED <<invoices, events>>
    BY <2>1, <2>5, <2>6 DEF LedgerTypeOK
  <2>7. CASE invoices' = Settled(rows, p[2]) /\ Announce(p[2], keys)
    BY <2>1, <2>4, <2>5, <2>7, PaysArePairs, SettledType, AnnounceType DEF LedgerTypeOK
  <2>8. QED BY <2>1, <2>6, <2>7
<1>3. QED BY <1>1, <1>2

LEMMA OrphanPaymentType ==
  ASSUME LedgerTypeOK, NEW p \in Pays, OrphanPayment(p)
  PROVE  LedgerTypeOK' /\ Present \subseteq Present'
<1> DEFINE rows == [payments EXCEPT ![p].status = "orphaned"]
           keys == {<<"payment.orphaned", p[1]>>}
<1>1. CASE payments[p].status = "orphaned"
  BY <1>1 DEF OrphanPayment, ledgerVars, LedgerTypeOK, Present
<1>2. CASE payments[p].status # "orphaned"
  <2>1. payments' = rows /\ invoices' = Settled(rows, p[2]) /\ Announce(p[2], keys)
    BY <1>2 DEF OrphanPayment
  <2>2. keys \in SUBSET Keys(p)
    BY DEF Keys, TxEvents
  <2>3. rows = [payments EXCEPT ![p] = [payments[p] EXCEPT !.status = "orphaned"]]
    BY DEF LedgerTypeOK
  <2>4. [payments[p] EXCEPT !.status = "orphaned"] \in PaymentRows
    BY DEF LedgerTypeOK, PaymentRows, PaymentStatuses
  <2>5. [payments[p] EXCEPT !.status = "orphaned"].status # "absent"
    BY DEF LedgerTypeOK, PaymentRows
  <2>6. rows \in [Pays -> PaymentRows] /\ Present \subseteq Present'
    BY <2>1, <2>3, <2>4, <2>5 DEF LedgerTypeOK, Present
  <2> HIDE DEF rows
  <2>7. QED BY <2>1, <2>2, <2>6, PaysArePairs, SettledType, AnnounceType DEF LedgerTypeOK
<1>3. QED BY <1>1, <1>2

\* The three things that apply_chain_state does.
LEMMA ChainStateCases ==
  ASSUME NEW p, NEW row, NEW at \in Answers, NEW v, ApplyChainState(p, row, at, v)
  PROVE  \/ at \in MinedHeights /\ ApplyMined(p, row, at, v)
         \/ OrphanPayment(p)
         \/ UNCHANGED ledgerVars
<1>1. CASE at \in MinedHeights
  BY <1>1 DEF ApplyChainState, MinedHeights
<1>2. CASE at = Unmined
  BY <1>2, ChainAssumption DEF ApplyChainState, MinedHeights, Unmined, Gone, Heights
<1>3. CASE at = Gone
  BY <1>3, ChainAssumption DEF ApplyChainState, MinedHeights, Unmined, Gone, Heights
<1>4. QED BY <1>1, <1>2, <1>3 DEF Answers, MinedHeights

LEMMA ApplyChainStateType ==
  ASSUME LedgerTypeOK, NEW p \in Pays, NEW row, NEW at \in Answers, NEW v \in Heights,
         ApplyChainState(p, row, at, v)
  PROVE  LedgerTypeOK' /\ Present \subseteq Present'
<1>1. CASE UNCHANGED ledgerVars
  BY <1>1 DEF ledgerVars, LedgerTypeOK, Present
<1>2. QED BY <1>1, ChainStateCases, ApplyMinedType, OrphanPaymentType DEF MinedHeights

LEMMA ClockType ==
  ASSUME LedgerTypeOK,
         ExpireInvoices \/ \E i \in Invoices : RegisterInvoice(i) \/ PassTime(i)
  PROVE  LedgerTypeOK' /\ Present' = Present
<1>1. CASE ExpireInvoices
  <2>1. \A i \in Invoices : [invoices[i] EXCEPT !.status = "expired"] \in InvoiceRows
    BY DEF LedgerTypeOK, InvoiceRows, InvoiceStatuses
  <2>2. QED BY <1>1, <2>1 DEF ExpireInvoices, LedgerTypeOK, Present
<1>2. ASSUME NEW i \in Invoices, RegisterInvoice(i) \/ PassTime(i)
      PROVE  LedgerTypeOK' /\ Present' = Present
  <2>1. \A c \in Clocks : [invoices[i] EXCEPT !.clock = c] \in InvoiceRows
    BY DEF LedgerTypeOK, InvoiceRows
  <2>2. PICK c \in Clocks : invoices' = [invoices EXCEPT ![i] = [invoices[i] EXCEPT !.clock = c]]
    BY <1>2 DEF RegisterInvoice, PassTime, Clocks, LedgerTypeOK
  <2>3. UNCHANGED <<payments, events>>
    BY <1>2 DEF RegisterInvoice, PassTime
  <2>4. QED BY <2>1, <2>2, <2>3 DEF LedgerTypeOK, Present
<1>3. QED BY <1>1, <1>2

-----------------------------------------------------------------------------
(***************************************************************************)
(* The inductive invariant behind TypeOK: a payment that a loop still has  *)
(* to ask about, has in hand or holds a copy of has a row, and a listing   *)
(* of an address names transactions that pay it.                           *)
(***************************************************************************)
Cursors == [block : Heights \cup {-1}, hash : Hashes \cup {NoHash}]

ChainOK(c, recorded) ==
  /\ c.todo \subseteq recorded
  /\ c.pc = "apply" => c.pay \in recorded
WorkerOK(i, w, recorded) ==
  /\ \A e \in w.listed : <<e.tx, i>> \in Pays
  /\ w.todo \subseteq recorded
  /\ w.pc = "decide" => w.pay \in recorded
  /\ \A p \in Pays : w.snap[p].status # "absent" => p \in recorded

TypeInv ==
  /\ TypeOK
  /\ ChainOK(chain, Present)
  /\ \A i \in Invoices : WorkerOK(i, worker[i], Present)

LEMMA ChainMoves ==
  ASSUME TypeInv, LedgerTypeOK', Present \subseteq Present', faults' \in 0 .. MaxFaults,
         cursor' \in Cursors, seen' \in [Heights -> Hashes \cup {NoHash}],
         tip_height' \in Heights, chain' \in ChainLocals, ChainOK(chain', Present'),
         UNCHANGED <<chainVars, known, strikes, round, worker>>
  PROVE  TypeInv'
<1>1. EsploraChainTypeOK'
  BY DEF TypeInv, TypeOK, EsploraChainTypeOK, ChainTypeOK, chainVars
<1>2. \A i \in Invoices : WorkerOK(i, worker'[i], Present')
  BY DEF TypeInv, WorkerOK
<1>3. TypeOK'
  BY <1>1 DEF TypeInv, TypeOK, Cursors
<1>4. QED BY <1>2, <1>3 DEF TypeInv

LEMMA WorkerMoves ==
  ASSUME TypeInv, LedgerTypeOK', Present \subseteq Present', faults' \in 0 .. MaxFaults,
         strikes' \in [Txs -> 0 .. ORPHAN_STRIKES],
         NEW i \in Invoices, NEW w \in WorkerLocals, worker' = [worker EXCEPT ![i] = w],
         WorkerOK(i, w, Present'),
         UNCHANGED <<chainVars, known, scanVars, chain, round>>
  PROVE  TypeInv'
<1>1. EsploraChainTypeOK'
  BY DEF TypeInv, TypeOK, EsploraChainTypeOK, ChainTypeOK, chainVars
<1>2. worker' \in [Invoices -> WorkerLocals]
  BY DEF TypeInv, TypeOK
<1>3. \A j \in Invoices : WorkerOK(j, worker'[j], Present')
  BY DEF TypeInv, TypeOK, WorkerOK
<1>4. TypeOK'
  BY <1>1, <1>2 DEF TypeInv, TypeOK, scanVars
<1>5. ChainOK(chain', Present')
  BY DEF TypeInv, ChainOK
<1>6. QED BY <1>3, <1>4, <1>5 DEF TypeInv

\* What every step may rely on.
LEMMA TypeFacts ==
  ASSUME TypeInv
  PROVE  /\ LedgerTypeOK /\ ChainTypeOK /\ faults \in 0 .. MaxFaults
         /\ cursor \in Cursors /\ seen \in [Heights -> Hashes \cup {NoHash}]
         /\ tip_height \in Heights /\ strikes \in [Txs -> 0 .. ORPHAN_STRIKES]
         /\ chain \in ChainLocals /\ round \in RoundLocals
         /\ worker \in [Invoices -> WorkerLocals]
         /\ ChainOK(chain, Present)
         /\ \A i \in Invoices : WorkerOK(i, worker[i], Present)
  BY DEF TypeInv, TypeOK, Cursors, EsploraChainTypeOK

LEMMA FaultType ==
  ASSUME faults \in 0 .. MaxFaults, UNCHANGED faults \/ Fault
  PROVE  faults' \in 0 .. MaxFaults
  BY EsploraChainAssumption DEF Fault

LEMMA RowsUnchanged ==
  ASSUME LedgerTypeOK, UNCHANGED ledgerVars
  PROVE  LedgerTypeOK' /\ Present' = Present
  BY DEF LedgerTypeOK, ledgerVars, Present

LEMMA NoRowsType ==
  /\ NoRows \in [Pays -> PaymentRows]
  /\ \A p \in Pays : NoRows[p].status = "absent"
<1>1. NoPayment \in PaymentRows
  BY ChainAssumption DEF NoPayment, PaymentRows, PaymentStatuses, Heights, Unmined
<1>2. QED BY <1>1 DEF NoRows, NoPayment

LEMMA RowsOfType ==
  ASSUME LedgerTypeOK, NEW S \in SUBSET Pays
  PROVE  /\ RowsOf(S) \in [Pays -> PaymentRows]
         /\ \A p \in Pays : RowsOf(S)[p].status # "absent" => p \in Present
<1>1. NoPayment \in PaymentRows /\ NoPayment.status = "absent"
  BY ChainAssumption DEF NoPayment, PaymentRows, PaymentStatuses, Heights, Unmined
<1>2. QED BY <1>1 DEF RowsOf, LedgerTypeOK, Present

LEMMA IdleTypes ==
  /\ IdleChain \in ChainLocals /\ \A S : ChainOK(IdleChain, S)
  /\ IdleRound \in RoundLocals
  /\ IdleWorker \in WorkerLocals /\ \A i, S : WorkerOK(i, IdleWorker, S)
<1>1. 0 \in Heights /\ Gone \in Answers
  BY ChainAssumption DEF Heights, Answers, Gone
<1>2. QED BY <1>1, NoRowsType DEF IdleChain, ChainLocals, IdleRound, RoundLocals, IdleWorker,
                                  WorkerLocals, ChainOK, WorkerOK

-----------------------------------------------------------------------------
(***************************************************************************)
(* The steps of chain_loop.                                                *)
(***************************************************************************)
LEMMA ReadTipType ==
  ASSUME TypeInv, ReadTip
  PROVE  TypeInv'
<1>1. PICK v \in Heights : AnswersTip(v) /\ tip_height' = v
  BY DEF ReadTip
<1>2. faults' \in 0 .. MaxFaults
  BY <1>1, TypeFacts, FaultType DEF AnswersTip
<1>3. chain' = [chain EXCEPT !.pc = "cursor"]
  BY DEF ReadTip, ChainGo
<1>4. chain' \in ChainLocals /\ ChainOK(chain', Present')
  BY <1>3, TypeFacts, RowsUnchanged DEF ReadTip, LedgerAndRestUnchanged, ChainLocals, ChainOK
<1>5. QED BY <1>1, <1>2, <1>4, TypeFacts, RowsUnchanged, ChainMoves
          DEF ReadTip, LedgerAndRestUnchanged

LEMMA CheckCursorType ==
  ASSUME TypeInv, CheckCursor
  PROVE  TypeInv'
<1> DEFINE bound == cursor.block + MAX_BLOCKS_PER_TICK
           target == Min({tip_height, bound})
<1>1. CASE cursor = NoCursor
  <2>1. Park(tip_height) /\ chain' = IdleChain
    BY <1>1 DEF CheckCursor, ChainDone
  <2>2. hashAt[tip_height] \in Hashes
    BY TypeFacts DEF ChainTypeOK
  <2>3. cursor' \in Cursors /\ seen' \in [Heights -> Hashes \cup {NoHash}]
    BY <2>1, <2>2, TypeFacts DEF Park, Cursors
  <2>4. QED BY <2>1, <2>3, TypeFacts, RowsUnchanged, IdleTypes, ChainMoves
            DEF CheckCursor, LedgerAndRestUnchanged, esploraChainVars
<1>2. CASE cursor # NoCursor
  <2>1. cursor.block \in Int /\ cursor.block >= -1
    BY TypeFacts, ChainAssumption DEF Cursors, Heights
  <2>2. bound \in Nat /\ tip_height \in Nat
    BY <2>1, TypeFacts, EsploraWatcherAssumption, ChainAssumption DEF Heights
  <2> HIDE DEF bound
  <2>3. target \in {tip_height, bound} /\ target <= tip_height
    BY <2>2, MinOfTwo
  <2>4. target \in Heights
    BY <2>2, <2>3, TypeFacts, ChainAssumption DEF Heights
  <2> HIDE DEF target
  <2>5. \/ chain' = IdleChain
        \/ chain' = [chain EXCEPT !.pc = "fork"]
        \/ chain' = [chain EXCEPT !.pc = "walk", !.target = target]
    BY <1>2 DEF CheckCursor, target, bound
  <2>6. chain' \in ChainLocals /\ ChainOK(chain', Present)
    <3>1. CASE chain' = IdleChain
      BY <3>1, IdleTypes
    <3>2. CASE chain' = [chain EXCEPT !.pc = "fork"]
      BY <3>2, TypeFacts DEF ChainLocals, ChainOK
    <3>3. CASE chain' = [chain EXCEPT !.pc = "walk", !.target = target]
      BY <2>4, <3>3, TypeFacts DEF ChainLocals, ChainOK
    <3>4. QED BY <2>5, <3>1, <3>2, <3>3
  <2>7. QED BY <1>2, <2>6, TypeFacts, RowsUnchanged, ChainMoves
            DEF CheckCursor, LedgerAndRestUnchanged, esploraChainVars
<1>3. QED BY <1>1, <1>2

LEMMA WalkPageType ==
  ASSUME TypeInv, WalkPage
  PROVE  TypeInv'
<1> DEFINE bound == cursor.block + HEADER_PAGE
           target == chain.target
           last == Min({target, bound})
<1>1. target \in Heights /\ bound \in Nat
  <2>1. cursor.block \in Int /\ cursor.block >= -1
    BY TypeFacts, ChainAssumption DEF Cursors, Heights
  <2>2. QED BY <2>1, TypeFacts, EsploraWatcherAssumption DEF ChainLocals
<1>2. last \in {target, bound} /\ last <= target
  <2> HIDE DEF bound, target
  <2>1. QED BY <1>1, MinOfTwo, ChainAssumption DEF Heights
<1>3. last \in Heights
  <2> HIDE DEF bound, target, last
  <2>1. QED BY <1>1, <1>2, ChainAssumption DEF Heights
<1> HIDE DEF last
<1>4. \/ /\ cursor' = [block |-> last, hash |-> hashAt[last]]
         /\ seen' = [h \in Heights |->
                       IF h \in cursor.block + 1 .. last THEN hashAt[h] ELSE seen[h]]
         /\ UNCHANGED chain
      \/ chain' = [IdleChain EXCEPT !.pc = "fork"] /\ UNCHANGED <<cursor, seen>>
  BY DEF WalkPage, last
<1>5. \A h \in Heights : hashAt[h] \in Hashes
  BY TypeFacts DEF ChainTypeOK
<1>6. cursor' \in Cursors /\ seen' \in [Heights -> Hashes \cup {NoHash}]
  BY <1>3, <1>4, <1>5, TypeFacts DEF Cursors
<1>7. chain' \in ChainLocals /\ ChainOK(chain', Present)
  BY <1>4, TypeFacts, IdleTypes DEF ChainLocals, ChainOK
<1>8. QED BY <1>6, <1>7, TypeFacts, RowsUnchanged, ChainMoves
          DEF WalkPage, LedgerAndRestUnchanged, esploraChainVars

LEMMA FinishWalkType ==
  ASSUME TypeInv, FinishWalk
  PROVE  TypeInv'
<1>1. seen' \in [Heights -> Hashes \cup {NoHash}] /\ chain' = IdleChain
  BY TypeFacts DEF FinishWalk, ChainDone
<1>2. QED BY <1>1, TypeFacts, RowsUnchanged, IdleTypes, ChainMoves
          DEF FinishWalk, LedgerAndRestUnchanged, esploraChainVars

LEMMA ForkPointType ==
  ASSUME TypeInv
  PROVE  ForkPoint \in Heights
<1> DEFINE floor == Max({cursor.block - REORG_DEPTH, 0})
           stops == {h \in floor + 1 .. cursor.block - 1 : seen[h] \in {NoHash, hashAt[h]}}
<1>1. cursor.block \in Int /\ cursor.block <= MaxTip /\ REORG_DEPTH \in Nat /\ MaxTip \in Nat
  BY TypeFacts, ChainAssumption, EsploraWatcherAssumption DEF Cursors, Heights
<1>2. floor \in Heights
  <2>1. CASE cursor.block - REORG_DEPTH <= 0
    <3>1. \A x \in {cursor.block - REORG_DEPTH, 0} : 0 >= x
      BY <1>1, <2>1
    <3>2. floor = 0
      BY <1>1, <2>1, <3>1 DEF Max
    <3>3. QED BY <1>1, <3>2 DEF Heights
  <2>2. CASE cursor.block - REORG_DEPTH > 0
    <3>1. {cursor.block - REORG_DEPTH, 0} \subseteq Heights
      BY <1>1, <2>2 DEF Heights
    <3>2. QED BY <3>1, MaxOfHeights
  <2>3. QED BY <1>1, <2>1, <2>2
<1> HIDE DEF floor
<1>3. {floor} \cup stops \in SUBSET Heights
  BY <1>1, <1>2 DEF Heights
<1> HIDE DEF stops
<1>4. Max({floor} \cup stops) \in Heights
  BY <1>3, MaxOfHeights
<1>5. QED BY <1>4 DEF ForkPoint, floor, stops

LEMMA ForgetAboveForkType ==
  ASSUME TypeInv, ForgetAboveFork
  PROVE  TypeInv'
<1>1. chain' = [chain EXCEPT !.pc = "rewind", !.fork = ForkPoint]
  BY DEF ForgetAboveFork
<1>2. chain' \in ChainLocals /\ ChainOK(chain', Present)
  BY <1>1, ForkPointType, TypeFacts DEF ChainLocals, ChainOK
<1>3. seen' \in [Heights -> Hashes \cup {NoHash}]
  BY TypeFacts DEF ForgetAboveFork
<1>4. QED BY <1>2, <1>3, TypeFacts, RowsUnchanged, ChainMoves
          DEF ForgetAboveFork, LedgerAndRestUnchanged, esploraChainVars

LEMMA RewindType ==
  ASSUME TypeInv, Rewind
  PROVE  TypeInv'
<1>1. chain.fork \in Heights /\ hashAt[chain.fork] \in Hashes
  BY TypeFacts DEF ChainLocals, ChainTypeOK
<1>2. cursor' \in Cursors
  BY <1>1 DEF Rewind, Cursors
<1>3. chain' = [chain EXCEPT !.pc = "select"]
  BY DEF Rewind, ChainGo
<1>4. chain' \in ChainLocals /\ ChainOK(chain', Present)
  BY <1>3, TypeFacts DEF ChainLocals, ChainOK
<1>5. QED BY <1>2, <1>4, TypeFacts, RowsUnchanged, ChainMoves
          DEF Rewind, LedgerAndRestUnchanged, esploraChainVars

LEMMA ChainRestsType ==
  ASSUME NEW c \in ChainLocals, NEW S, ChainOK(c, S)
  PROVE  ChainRests(c) \in ChainLocals /\ ChainOK(ChainRests(c), S)
  BY IdleTypes DEF ChainRests

LEMMA SelectAboveForkType ==
  ASSUME TypeInv, SelectAboveFork
  PROVE  TypeInv'
<1> DEFINE c == [chain EXCEPT !.pc = "verify", !.fork = 0, !.todo = AboveFork,
                   !.snap = RowsOf(AboveFork)]
<1>1. AboveFork \subseteq Present /\ AboveFork \in SUBSET Pays
  BY DEF AboveFork, Present
<1>2. RowsOf(AboveFork) \in [Pays -> PaymentRows] /\ 0 \in Heights
  BY <1>1, RowsOfType, TypeFacts, ChainAssumption DEF Heights
<1>3. c \in ChainLocals /\ ChainOK(c, Present)
  BY <1>1, <1>2, TypeFacts DEF ChainLocals, ChainOK
<1>4. chain' = ChainRests(c)
  BY DEF SelectAboveFork
<1> HIDE DEF c
<1>5. chain' \in ChainLocals /\ ChainOK(chain', Present)
  BY <1>3, <1>4, ChainRestsType
<1>6. QED BY <1>5, TypeFacts, RowsUnchanged, ChainMoves
          DEF SelectAboveFork, LedgerAndRestUnchanged, esploraChainVars, scanVars

LEMMA AskAboveForkType ==
  ASSUME TypeInv, AskAboveFork
  PROVE  TypeInv'
<1>1. PICK p \in chain.todo, at \in Answers :
        /\ AnswersStatus(p[1], at)
        /\ chain' = [chain EXCEPT !.pc = "apply", !.todo = @ \ {p}, !.pay = p, !.at = at]
  BY DEF AskAboveFork
<1>2. p \in Present /\ p \in Pays
  BY TypeFacts DEF ChainOK, Present
<1>3. chain' \in ChainLocals /\ ChainOK(chain', Present)
  BY <1>1, <1>2, TypeFacts DEF ChainLocals, ChainOK
<1>4. faults' \in 0 .. MaxFaults
  BY <1>1, TypeFacts, FaultType DEF AnswersStatus
<1>5. QED BY <1>3, <1>4, TypeFacts, RowsUnchanged, ChainMoves
          DEF AskAboveFork, LedgerAndRestUnchanged, scanVars

LEMMA ApplyAboveForkType ==
  ASSUME TypeInv, ApplyAboveFork
  PROVE  TypeInv'
<1> DEFINE c == [chain EXCEPT !.pc = "verify", !.pay = NoPay, !.at = Gone,
                   !.snap[chain.pay] = NoPayment]
<1>1. chain.pay \in Pays /\ chain.at \in Answers /\ tip_height \in Heights
  BY TypeFacts DEF ApplyAboveFork, ChainAt, ChainOK, ChainLocals, Present
<1>2. LedgerTypeOK' /\ Present \subseteq Present'
  BY <1>1, TypeFacts, ApplyChainStateType DEF ApplyAboveFork
<1>3. NoPayment \in PaymentRows /\ Gone \in Answers
  BY ChainAssumption DEF NoPayment, PaymentRows, PaymentStatuses, Heights, Unmined, Answers
<1>4. [chain.snap EXCEPT ![chain.pay] = NoPayment] \in [Pays -> PaymentRows]
  BY <1>3, TypeFacts DEF ChainLocals
<1>5. c \in ChainLocals /\ ChainOK(c, Present')
  BY <1>2, <1>3, <1>4, TypeFacts DEF ChainLocals, ChainOK
<1>6. chain' = ChainRests(c)
  BY DEF ApplyAboveFork
<1> HIDE DEF c
<1>7. chain' \in ChainLocals /\ ChainOK(chain', Present')
  BY <1>5, <1>6, ChainRestsType
<1>8. QED BY <1>2, <1>7, TypeFacts, ChainMoves DEF ApplyAboveFork, esploraChainVars, scanVars

LEMMA ChainStepType ==
  ASSUME TypeInv, ChainStep
  PROVE  TypeInv'
  BY ReadTipType, CheckCursorType, WalkPageType, FinishWalkType, ForgetAboveForkType,
     RewindType, SelectAboveForkType, AskAboveForkType, ApplyAboveForkType DEF ChainStep

-----------------------------------------------------------------------------
(***************************************************************************)
(* The steps of address_loop and of its workers.                           *)
(***************************************************************************)
LEMMA RoundMoves ==
  ASSUME TypeInv, LedgerTypeOK', Present' = Present, faults' \in 0 .. MaxFaults,
         round' \in RoundLocals, worker' \in [Invoices -> WorkerLocals],
         \A i \in Invoices : WorkerOK(i, worker'[i], Present),
         UNCHANGED <<chainVars, known, scanVars, strikes, chain>>
  PROVE  TypeInv'
<1>1. EsploraChainTypeOK'
  BY DEF TypeInv, TypeOK, EsploraChainTypeOK, ChainTypeOK, chainVars
<1>2. TypeOK'
  BY <1>1 DEF TypeInv, TypeOK, scanVars
<1>3. QED BY <1>2 DEF TypeInv

LEMMA RoundStepType ==
  ASSUME TypeInv, RoundStep
  PROVE  TypeInv'
<1>1. CASE Sweep
  <2>1. round' \in RoundLocals
    BY <1>1, TypeFacts DEF Sweep, RoundLocals
  <2>2. LedgerTypeOK' /\ Present' = Present
    BY <1>1, TypeFacts, ClockType DEF Sweep
  <2>3. QED BY <1>1, <2>1, <2>2, TypeFacts, RoundMoves DEF Sweep, esploraChainVars
<1>2. CASE LoadWatchSet
  <2>1. [IdleWorker EXCEPT !.pc = "list"] \in WorkerLocals
    BY IdleTypes DEF WorkerLocals
  <2>2. \A i : WorkerOK(i, [IdleWorker EXCEPT !.pc = "list"], Present)
    BY NoRowsType DEF WorkerOK, IdleWorker
  <2>3. \A i \in Invoices : worker'[i] \in {IdleWorker, [IdleWorker EXCEPT !.pc = "list"]}
    BY <1>2 DEF LoadWatchSet
  <2>4. worker' \in [Invoices -> WorkerLocals]
    BY <1>2, <2>1, IdleTypes DEF LoadWatchSet
  <2>5. \A i \in Invoices : WorkerOK(i, worker'[i], Present)
    BY <2>2, <2>3, IdleTypes
  <2>6. round' \in RoundLocals
    BY <1>2, TypeFacts, IdleTypes DEF LoadWatchSet, RoundLocals
  <2>7. QED BY <1>2, <2>4, <2>5, <2>6, TypeFacts, RowsUnchanged, RoundMoves
            DEF LoadWatchSet, esploraChainVars
<1>3. CASE FinishRound
  BY <1>3, TypeFacts, RowsUnchanged, IdleTypes, RoundMoves DEF FinishRound, esploraChainVars
<1>4. QED BY <1>1, <1>2, <1>3 DEF RoundStep

LEMMA RestsType ==
  ASSUME NEW i, NEW w \in WorkerLocals, NEW S, WorkerOK(i, w, S)
  PROVE  Rests(w) \in WorkerLocals /\ WorkerOK(i, Rests(w), S)
  BY IdleTypes DEF Rests

\* An answer about an address: transactions that pay it, each in its block or
\* said to be unmined.
LEMMA ListingFacts ==
  ASSUME ChainTypeOK, NEW txs \in SUBSET Txs, NEW page, NEW listed,
         ListsAddress(txs, page, listed)
  PROVE  /\ \A e \in listed : e \in Entries /\ e.tx \in txs /\ e.block \in {Unmined, minedAt[e.tx]}
         /\ UNCHANGED faults \/ Fault
<1>1. PICK S \in SUBSET txs :
        \/ listed = {[tx |-> t, block |-> minedAt[t]] : t \in S} /\ UNCHANGED faults
        \/ \E late \in (SUBSET S) \ {{}}, demoted \in SUBSET S :
             /\ demoted \subseteq late
             /\ listed = {[tx |-> t, block |-> IF t \in demoted THEN Unmined ELSE minedAt[t]] :
                            t \in (S \ late) \cup demoted}
             /\ Fault
  BY DEF ListsAddress, Page
<1>2. PICK demoted \in SUBSET S, T \in SUBSET S :
        listed = {[tx |-> t, block |-> IF t \in demoted THEN Unmined ELSE minedAt[t]] : t \in T}
  <2>1. CASE listed = {[tx |-> t, block |-> minedAt[t]] : t \in S}
    <3>1. listed = {[tx |-> t, block |-> IF t \in {} THEN Unmined ELSE minedAt[t]] : t \in S}
      BY <2>1
    <3>2. {} \in SUBSET S /\ S \in SUBSET S
      OBVIOUS
    <3>3. QED BY <3>1, <3>2, Zenon
  <2>2. CASE \E late \in (SUBSET S) \ {{}}, demoted \in SUBSET S :
               /\ demoted \subseteq late
               /\ listed = {[tx |-> t, block |-> IF t \in demoted THEN Unmined ELSE minedAt[t]] :
                              t \in (S \ late) \cup demoted}
               /\ Fault
    <3>1. PICK late \in SUBSET S, demoted \in SUBSET S :
            listed = {[tx |-> t, block |-> IF t \in demoted THEN Unmined ELSE minedAt[t]] :
                        t \in (S \ late) \cup demoted}
      BY <2>2
    <3>2. (S \ late) \cup demoted \in SUBSET S
      OBVIOUS
    <3>3. QED BY <3>1, <3>2
  <2>3. QED BY <1>1, <2>1, <2>2
<1>3. Unmined \in Heights
  BY ChainAssumption DEF Heights, Unmined
<1>4. ASSUME NEW e \in listed
      PROVE  e \in Entries /\ e.tx \in txs /\ e.block \in {Unmined, minedAt[e.tx]}
  <2>1. PICK t \in T :
          e = [tx |-> t, block |-> IF t \in demoted THEN Unmined ELSE minedAt[t]]
    BY <1>2
  <2>2. QED BY <1>3, <2>1 DEF Entries, ChainTypeOK
<1>5. QED BY <1>1, <1>4

LEMMA PayingFacts ==
  ASSUME NEW i \in Invoices
  PROVE  Paying(i) \in SUBSET Txs /\ \A t \in Paying(i) : <<t, i>> \in Pays
  BY PaysArePairs DEF Paying, PaymentsOf

LEMMA ListAddressType ==
  ASSUME TypeInv, NEW i \in Invoices, ListAddress(i)
  PROVE  TypeInv'
<1>1. PICK listed \in SUBSET Entries :
        /\ ListsAddress(Paying(i), ADDRESS_TX_PAGE_SATURATED, listed)
        /\ worker' = [worker EXCEPT ![i].pc = "load", ![i].listed = listed]
  BY DEF ListAddress
<1> DEFINE w == [worker[i] EXCEPT !.pc = "load", !.listed = listed]
<1>2. worker' = [worker EXCEPT ![i] = w]
  BY <1>1, TypeFacts
<1>3. faults' \in 0 .. MaxFaults /\ \A e \in listed : <<e.tx, i>> \in Pays
  BY <1>1, TypeFacts, ListingFacts, PayingFacts, FaultType
<1>4. w \in WorkerLocals
  BY TypeFacts DEF WorkerLocals
<1>5. WorkerOK(i, w, Present)
  BY <1>3, TypeFacts DEF WorkerOK, WorkerLocals
<1> HIDE DEF w
<1>6. LedgerTypeOK' /\ Present' = Present
  BY TypeFacts, RowsUnchanged DEF ListAddress
<1>7. WorkerOK(i, w, Present')
  BY <1>5, <1>6
<1>8. QED BY <1>2, <1>3, <1>4, <1>6, <1>7, TypeFacts, WorkerMoves DEF ListAddress

LEMMA LoadPaymentsType ==
  ASSUME TypeInv, NEW i \in Invoices, LoadPayments(i)
  PROVE  TypeInv'
<1> DEFINE w == [worker[i] EXCEPT !.pc = "apply", !.snap = RowsOf(Recorded(i)),
                   !.todo = Unlisted(i)]
<1>1. worker' = [worker EXCEPT ![i] = Rests(w)]
  BY TypeFacts DEF LoadPayments
<1>2. Recorded(i) \subseteq Present /\ Recorded(i) \in SUBSET Pays
  BY DEF Recorded, Present, PaymentsOf
<1>3. Unlisted(i) \subseteq Present /\ Unlisted(i) \in SUBSET Pays
  BY <1>2 DEF Unlisted
<1>4. w \in WorkerLocals
  BY <1>2, <1>3, TypeFacts, RowsOfType DEF WorkerLocals
<1>5. WorkerOK(i, w, Present)
  BY <1>2, <1>3, TypeFacts, RowsOfType DEF WorkerOK, WorkerLocals
<1> HIDE DEF w
<1>6. Rests(w) \in WorkerLocals /\ WorkerOK(i, Rests(w), Present)
  BY <1>4, <1>5, RestsType
<1>7. QED BY <1>1, <1>6, TypeFacts, RowsUnchanged, WorkerMoves
          DEF LoadPayments, esploraChainVars

\* A loop is done with payment p: what is left of the worker.
LEMMA ForgetType ==
  ASSUME NEW i, NEW w \in WorkerLocals, NEW S, WorkerOK(i, w, S), NEW p \in Pays,
         NEW listed \in SUBSET w.listed, NEW todo \in SUBSET w.todo,
         NEW pc \in {w.pc, "apply"}, NEW pay \in {w.pay, NoPay}, NEW at \in {w.at, Gone},
         pc = "decide" => pay = w.pay,
         NEW q, q = [w EXCEPT !.pc = pc, !.listed = listed, !.todo = todo, !.pay = pay,
                       !.at = at, !.snap = [w.snap EXCEPT ![p] = NoPayment]]
  PROVE  Rests(q) \in WorkerLocals /\ WorkerOK(i, Rests(q), S)
<1>1. NoPayment \in PaymentRows /\ NoPayment.status = "absent" /\ Gone \in Answers
  BY ChainAssumption DEF NoPayment, PaymentRows, PaymentStatuses, Heights, Unmined, Answers
<1>2. [w.snap EXCEPT ![p] = NoPayment] \in [Pays -> PaymentRows]
  BY <1>1 DEF WorkerLocals
<1>3. q \in WorkerLocals
  BY <1>1, <1>2 DEF WorkerLocals
<1>4. WorkerOK(i, q, S)
  BY <1>1, <1>2 DEF WorkerLocals, WorkerOK
<1>5. QED BY <1>3, <1>4, RestsType

\* The payment that a listed transaction makes to the invoice of the worker.
LEMMA ListedPayment ==
  ASSUME TypeInv, NEW i \in Invoices, NEW e \in worker[i].listed
  PROVE  /\ <<e.tx, i>> \in Pays /\ e.tx \in Txs /\ e.block \in Heights
         /\ e.block \in Answers
         /\ worker[i].snap[<<e.tx, i>>].status # "absent" => <<e.tx, i>> \in Present
  BY TypeFacts DEF WorkerOK, WorkerLocals, Entries, Answers

LEMMA ApplyListedType ==
  ASSUME TypeInv, NEW i \in Invoices, ApplyListed(i)
  PROVE  TypeInv'
<1>1. PICK e \in worker[i].listed :
        LET p == <<e.tx, i>>
            row == worker[i].snap[p]
            rest == [worker[i] EXCEPT !.listed = @ \ {e}, !.snap[p] = NoPayment]
        IN  /\ IF row.status = "absent"
               THEN InsertPayment(p, e.block, round.tip) /\ UNCHANGED strikes
               ELSE /\ ApplyChainState(p, row, e.block, round.tip)
                    /\ strikes' = [strikes EXCEPT ![e.tx] = 0]
            /\ worker' = [worker EXCEPT ![i] = Rests(rest)]
  BY DEF ApplyListed
<1> DEFINE p == <<e.tx, i>>
           w == [worker[i] EXCEPT !.listed = @ \ {e}, !.snap[p] = NoPayment]
<1>2. worker' = [worker EXCEPT ![i] = Rests(w)]
  BY <1>1
<1>3. /\ worker[i] \in WorkerLocals /\ worker[i].snap \in [Pays -> PaymentRows]
      /\ round.tip \in Heights
  BY TypeFacts DEF WorkerLocals, RoundLocals
<1>4. LedgerTypeOK' /\ Present \subseteq Present'
  BY <1>1, <1>3, ListedPayment, TypeFacts, InsertPaymentType, ApplyChainStateType
<1>5. strikes' \in [Txs -> 0 .. ORPHAN_STRIKES]
  BY <1>1, ListedPayment, TypeFacts, EsploraWatcherAssumption
<1>6. w = [worker[i] EXCEPT !.pc = worker[i].pc, !.listed = worker[i].listed \ {e},
             !.todo = worker[i].todo, !.pay = worker[i].pay, !.at = worker[i].at,
             !.snap = [worker[i].snap EXCEPT ![p] = NoPayment]]
  BY <1>3 DEF WorkerLocals
<1>7. WorkerOK(i, worker[i], Present')
  BY <1>4, TypeFacts DEF WorkerOK
<1> HIDE DEF w
<1>8. Rests(w) \in WorkerLocals /\ WorkerOK(i, Rests(w), Present')
  BY <1>3, <1>6, <1>7, ListedPayment, ForgetType
<1>9. QED BY <1>2, <1>4, <1>5, <1>8, TypeFacts, WorkerMoves
          DEF ApplyListed, esploraChainVars

LEMMA AskUnlistedType ==
  ASSUME TypeInv, NEW i \in Invoices, AskUnlisted(i)
  PROVE  TypeInv'
<1>1. PICK p \in worker[i].todo, at \in Answers :
        LET asked == [worker[i] EXCEPT !.todo = @ \ {p}]
        IN  /\ AnswersStatus(p[1], at)
            /\ strikes' = [strikes EXCEPT ![p[1]] = IF at # Gone THEN 0
                                                    ELSE Min({@ + 1, ORPHAN_STRIKES})]
            /\ worker' = [worker EXCEPT ![i] =
                 IF at # Gone \/ StruckOut(p[1])
                 THEN [asked EXCEPT !.pc = "decide", !.pay = p, !.at = at]
                 ELSE Rests([asked EXCEPT !.snap[p] = NoPayment])]
  BY DEF AskUnlisted
<1> DEFINE held == [worker[i] EXCEPT !.todo = @ \ {p}, !.pc = "decide", !.pay = p, !.at = at]
           skipped == [worker[i] EXCEPT !.todo = @ \ {p}, !.snap[p] = NoPayment]
<1>2. /\ worker[i] \in WorkerLocals /\ worker[i].snap \in [Pays -> PaymentRows]
      /\ p \in Present /\ p \in Pays /\ p[1] \in Txs
  BY TypeFacts, PaysArePairs DEF WorkerLocals, WorkerOK, Present
<1>3. faults' \in 0 .. MaxFaults
  BY <1>1, TypeFacts, FaultType DEF AnswersStatus
<1>4. strikes' \in [Txs -> 0 .. ORPHAN_STRIKES]
  <2> DEFINE more == strikes[p[1]] + 1
             struck == Min({more, ORPHAN_STRIKES})
  <2>1. more \in Nat /\ ORPHAN_STRIKES \in Nat
    BY <1>2, TypeFacts, EsploraWatcherAssumption
  <2>2. struck \in 0 .. ORPHAN_STRIKES
    <3> HIDE DEF more
    <3>1. struck \in {more, ORPHAN_STRIKES} /\ struck <= ORPHAN_STRIKES
      BY <2>1, MinOfTwo
    <3> HIDE DEF struck
    <3>2. QED BY <2>1, <3>1
  <2>3. strikes' = [strikes EXCEPT ![p[1]] = IF at # Gone THEN 0 ELSE struck]
    BY <1>1, <1>2, TypeFacts
  <2> HIDE DEF struck
  <2>4. (IF at # Gone THEN 0 ELSE struck) \in 0 .. ORPHAN_STRIKES
    BY <2>1, <2>2
  <2>5. QED BY <2>3, <2>4, TypeFacts
<1>5. held \in WorkerLocals /\ WorkerOK(i, held, Present)
  BY <1>2, TypeFacts DEF WorkerLocals, WorkerOK
<1>6. Rests(skipped) \in WorkerLocals /\ WorkerOK(i, Rests(skipped), Present)
  <2>1. skipped = [worker[i] EXCEPT !.pc = worker[i].pc, !.listed = worker[i].listed,
                     !.todo = worker[i].todo \ {p}, !.pay = worker[i].pay,
                     !.at = worker[i].at, !.snap = [worker[i].snap EXCEPT ![p] = NoPayment]]
    BY <1>2 DEF WorkerLocals
  <2> HIDE DEF skipped
  <2>2. QED BY <1>2, <2>1, TypeFacts, ForgetType
<1>7. \/ worker' = [worker EXCEPT ![i] = held]
      \/ worker' = [worker EXCEPT ![i] = Rests(skipped)]
  BY <1>1, TypeFacts
<1>8. LedgerTypeOK' /\ Present' = Present
  BY TypeFacts, RowsUnchanged DEF AskUnlisted
<1> HIDE DEF held, skipped
<1>9. PICK w \in WorkerLocals : worker' = [worker EXCEPT ![i] = w] /\ WorkerOK(i, w, Present')
  BY <1>5, <1>6, <1>7, <1>8
<1>10. QED BY <1>3, <1>4, <1>8, <1>9, WorkerMoves DEF AskUnlisted

LEMMA ApplyUnlistedType ==
  ASSUME TypeInv, NEW i \in Invoices, ApplyUnlisted(i)
  PROVE  TypeInv'
<1> DEFINE p == worker[i].pay
           w == [worker[i] EXCEPT !.pc = "apply", !.pay = NoPay, !.at = Gone, !.snap[p] = NoPayment]
<1>1. /\ worker[i] \in WorkerLocals /\ worker[i].snap \in [Pays -> PaymentRows]
      /\ worker[i].at \in Answers /\ round.tip \in Heights
      /\ p \in Present /\ p \in Pays /\ p[1] \in Txs
  BY TypeFacts, PaysArePairs DEF WorkerLocals, RoundLocals, WorkerOK, Present, ApplyUnlisted,
                                 WorkerAt
<1>2. LedgerTypeOK' /\ Present \subseteq Present'
  BY <1>1, TypeFacts, ApplyChainStateType DEF ApplyUnlisted
<1>3. strikes' \in [Txs -> 0 .. ORPHAN_STRIKES]
  BY <1>1, TypeFacts, EsploraWatcherAssumption DEF ApplyUnlisted
<1>4. worker' = [worker EXCEPT ![i] = Rests(w)]
  BY TypeFacts DEF ApplyUnlisted
<1>5. w = [worker[i] EXCEPT !.pc = "apply", !.listed = worker[i].listed,
             !.todo = worker[i].todo, !.pay = NoPay, !.at = Gone,
             !.snap = [worker[i].snap EXCEPT ![p] = NoPayment]]
  BY <1>1 DEF WorkerLocals
<1>6. WorkerOK(i, worker[i], Present')
  BY <1>2, TypeFacts DEF WorkerOK
<1> HIDE DEF w
<1>7. Rests(w) \in WorkerLocals /\ WorkerOK(i, Rests(w), Present')
  BY <1>1, <1>5, <1>6, ForgetType
<1>8. QED BY <1>2, <1>3, <1>4, <1>7, TypeFacts, WorkerMoves
          DEF ApplyUnlisted, esploraChainVars

LEMMA WorkerStepType ==
  ASSUME TypeInv, NEW i \in Invoices, WorkerStep(i)
  PROVE  TypeInv'
  BY ListAddressType, LoadPaymentsType, ApplyListedType, AskUnlistedType, ApplyUnlistedType
  DEF WorkerStep

-----------------------------------------------------------------------------
(***************************************************************************)
(* Failures, and what happens outside the watcher.                         *)
(***************************************************************************)
LEMMA ChainFaultType ==
  ASSUME TypeInv, AbortChain \/ SkipAboveFork
  PROVE  TypeInv'
<1>1. faults' \in 0 .. MaxFaults
  BY TypeFacts, FaultType DEF AbortChain, SkipAboveFork
<1>2. chain' \in ChainLocals /\ ChainOK(chain', Present)
  <2>1. CASE AbortChain
    BY <2>1, IdleTypes DEF AbortChain, ChainDone
  <2>2. CASE SkipAboveFork
    <3>1. PICK p \in chain.todo :
            chain' = ChainRests([chain EXCEPT !.todo = @ \ {p}, !.snap[p] = NoPayment])
      BY <2>2 DEF SkipAboveFork
    <3> DEFINE c == [chain EXCEPT !.todo = @ \ {p}, !.snap[p] = NoPayment]
    <3>2. p \in Pays /\ NoPayment \in PaymentRows /\ chain.snap \in [Pays -> PaymentRows]
      BY TypeFacts, ChainAssumption
      DEF ChainLocals, NoPayment, PaymentRows, PaymentStatuses, Heights, Unmined
    <3>3. [chain.snap EXCEPT ![p] = NoPayment] \in [Pays -> PaymentRows]
      BY <3>2
    <3>4. c = [chain EXCEPT !.todo = chain.todo \ {p},
                            !.snap = [chain.snap EXCEPT ![p] = NoPayment]]
      BY TypeFacts DEF ChainLocals
    <3>5. chain' = ChainRests(c)
      BY <3>1
    <3> HIDE DEF c
    <3>6. c \in ChainLocals /\ ChainOK(c, Present)
      BY <3>3, <3>4, TypeFacts DEF ChainLocals, ChainOK
    <3>7. QED BY <3>5, <3>6, ChainRestsType
  <2>3. QED BY <2>1, <2>2
<1>3. LedgerTypeOK' /\ Present' = Present
  BY TypeFacts, RowsUnchanged DEF AbortChain, SkipAboveFork
<1>4. QED BY <1>1, <1>2, <1>3, TypeFacts, ChainMoves DEF AbortChain, SkipAboveFork, scanVars

LEMMA WorkerFaultType ==
  ASSUME TypeInv, NEW i \in Invoices, AbortWorker(i) \/ SkipUnlisted(i)
  PROVE  TypeInv'
<1>1. faults' \in 0 .. MaxFaults
  BY TypeFacts, FaultType DEF AbortWorker, SkipUnlisted
<1>2. LedgerTypeOK' /\ Present' = Present
  BY TypeFacts, RowsUnchanged DEF AbortWorker, SkipUnlisted
<1>3. PICK w \in WorkerLocals : worker' = [worker EXCEPT ![i] = w] /\ WorkerOK(i, w, Present)
  <2>1. CASE AbortWorker(i)
    BY <2>1, IdleTypes DEF AbortWorker
  <2>2. CASE SkipUnlisted(i)
    <3>1. PICK p \in worker[i].todo :
            LET rest == [worker[i] EXCEPT !.todo = @ \ {p}, !.snap[p] = NoPayment]
            IN  worker' = [worker EXCEPT ![i] = Rests(rest)]
      BY <2>2 DEF SkipUnlisted
    <3> DEFINE w == [worker[i] EXCEPT !.todo = @ \ {p}, !.snap[p] = NoPayment]
    <3>2. worker' = [worker EXCEPT ![i] = Rests(w)]
      BY <3>1
    <3>3. worker[i] \in WorkerLocals /\ p \in Pays
      BY TypeFacts DEF WorkerLocals
    <3>4. w = [worker[i] EXCEPT !.pc = worker[i].pc, !.listed = worker[i].listed,
                 !.todo = worker[i].todo \ {p}, !.pay = worker[i].pay, !.at = worker[i].at,
                 !.snap = [worker[i].snap EXCEPT ![p] = NoPayment]]
      BY <3>3 DEF WorkerLocals
    <3> HIDE DEF w
    <3>5. Rests(w) \in WorkerLocals /\ WorkerOK(i, Rests(w), Present)
      BY <3>3, <3>4, TypeFacts, ForgetType
    <3>6. QED BY <3>2, <3>5
  <2>3. QED BY <2>1, <2>2
<1>4. QED BY <1>1, <1>2, <1>3, TypeFacts, WorkerMoves DEF AbortWorker, SkipUnlisted

LEMMA RoundFaultType ==
  ASSUME TypeInv, SkipSweep \/ AbortRound
  PROVE  TypeInv'
<1>1. faults' \in 0 .. MaxFaults
  BY TypeFacts, FaultType DEF SkipSweep, AbortRound
<1>2. round' \in RoundLocals
  BY TypeFacts, IdleTypes DEF SkipSweep, AbortRound, RoundLocals
<1>3. LedgerTypeOK' /\ Present' = Present
  BY TypeFacts, RowsUnchanged DEF SkipSweep, AbortRound
<1>4. QED BY <1>1, <1>2, <1>3, TypeFacts, RoundMoves DEF SkipSweep, AbortRound

LEMMA CrashType ==
  ASSUME TypeInv, Crash
  PROVE  TypeInv'
<1>1. EsploraChainTypeOK'
  BY FaultType DEF Crash, TypeInv, TypeOK, EsploraChainTypeOK, ChainTypeOK, chainVars
<1>2. /\ LedgerTypeOK' /\ Present' = Present
      /\ cursor' \in Cursors /\ seen' \in [Heights -> Hashes \cup {NoHash}]
  BY TypeFacts, RowsUnchanged DEF Crash
<1>3. tip_height' \in Heights /\ strikes' \in [Txs -> 0 .. ORPHAN_STRIKES]
  BY ChainAssumption, EsploraWatcherAssumption DEF Crash, Heights
<1>4. chain' = IdleChain /\ round' = IdleRound /\ worker' = [i \in Invoices |-> IdleWorker]
  BY DEF Crash, ChainDone
<1>5. TypeOK'
  BY <1>1, <1>2, <1>3, <1>4, IdleTypes DEF TypeOK, Cursors
<1>6. QED BY <1>4, <1>5, IdleTypes DEF TypeInv

LEMMA OutsideMoves ==
  ASSUME TypeInv, EsploraChainTypeOK', LedgerTypeOK', Present' = Present,
         UNCHANGED <<scanVars, strikes, loopVars>>
  PROVE  TypeInv'
  BY DEF TypeInv, TypeOK, scanVars, loopVars

LEMMA GrowChainType ==
  ASSUME TypeInv, GrowChain
  PROVE  TypeInv'
<1>1. PICK included \in SUBSET {t \in known : minedAt[t] = Unmined} :
        minedAt' = [t \in Txs |-> IF t \in included THEN tip + 1 ELSE minedAt[t]]
  BY DEF GrowChain, MineKnown, MineBlock
<1>2. /\ tip < MaxTip /\ tip' = tip + 1 /\ reorgs' = reorgs
      /\ hashAt' = [hashAt EXCEPT ![tip + 1] = reorgs]
      /\ UNCHANGED <<known, faults, ledgerVars, scanVars, strikes, loopVars>>
  BY DEF GrowChain, MineKnown, MineBlock, WatcherUnchanged
<1>3. tip + 1 \in Heights \ {0}
  BY <1>2, ChainAssumption, TypeFacts DEF ChainTypeOK, Heights
<1>4. ChainTypeOK'
  BY <1>1, <1>2, <1>3, TypeFacts DEF ChainTypeOK
<1>5. EsploraChainTypeOK'
  BY <1>2, <1>4 DEF EsploraChainTypeOK, TypeInv, TypeOK
<1>6. QED BY <1>2, <1>5, TypeFacts, RowsUnchanged, OutsideMoves

LEMMA ReorgChainType ==
  ASSUME TypeInv, ReorgChain
  PROVE  TypeInv'
<1>1. PICK fork \in Heights :
        /\ fork < tip
        /\ hashAt' = [h \in Heights |->
                        IF h \in fork + 1 .. tip THEN reorgs + 1 ELSE hashAt[h]]
        /\ \E moved \in [{t \in known : minedAt[t] = Unmined \/ minedAt[t] > fork}
                          -> {Unmined} \cup (fork + 1 .. tip)] :
             minedAt' = [t \in Txs |->
                           IF t \in DOMAIN moved THEN moved[t] ELSE minedAt[t]]
  BY DEF ReorgChain, ReorgKnown, Reorganise
<1>2. /\ reorgs < MaxReorgs /\ reorgs' = reorgs + 1 /\ tip' = tip
      /\ known' \subseteq known
      /\ UNCHANGED <<faults, ledgerVars, scanVars, strikes, loopVars>>
  BY DEF ReorgChain, ReorgKnown, Reorganise, WatcherUnchanged
<1>3. reorgs + 1 \in Hashes
  BY <1>2, ChainAssumption, TypeFacts DEF ChainTypeOK, Hashes
<1>4. {Unmined} \cup (fork + 1 .. tip) \subseteq Heights
  BY <1>1, ChainAssumption, TypeFacts DEF ChainTypeOK, Heights, Unmined
<1>5. minedAt' \in [Txs -> Heights]
  BY <1>1, <1>4, TypeFacts DEF ChainTypeOK
<1>6. hashAt' \in [Heights -> Hashes]
  BY <1>1, <1>3, TypeFacts DEF ChainTypeOK
<1>7. EsploraChainTypeOK'
  BY <1>2, <1>3, <1>5, <1>6, TypeFacts DEF EsploraChainTypeOK, ChainTypeOK, TypeInv, TypeOK
<1>8. QED BY <1>2, <1>7, TypeFacts, RowsUnchanged, OutsideMoves

LEMMA OutsideType ==
  ASSUME TypeInv, PayTx \/ LosePayTx \/ CreateInvoice \/ ClockPasses
  PROVE  TypeInv'
<1>1. CASE PayTx
  <2>1. PayableTxs \subseteq Txs
    BY PaysArePairs DEF PayableTxs
  <2>2. EsploraChainTypeOK'
    BY <1>1, <2>1 DEF PayTx, Broadcast, EsploraChainTypeOK, ChainTypeOK, chainVars, TypeInv, TypeOK
  <2>3. QED BY <1>1, <2>2, TypeFacts, RowsUnchanged, OutsideMoves DEF PayTx, WatcherUnchanged
<1>2. CASE LosePayTx
  <2>1. faults' \in 0 .. MaxFaults /\ known' \subseteq known /\ UNCHANGED chainVars
    BY <1>2, TypeFacts, FaultType DEF LosePayTx, DropTx
  <2>2. EsploraChainTypeOK'
    BY <2>1 DEF EsploraChainTypeOK, ChainTypeOK, chainVars, TypeInv, TypeOK
  <2>3. QED BY <1>2, <2>2, TypeFacts, RowsUnchanged, OutsideMoves
            DEF LosePayTx, WatcherUnchanged
<1>3. CASE CreateInvoice \/ ClockPasses
  <2>1. LedgerTypeOK' /\ Present' = Present
    BY <1>3, TypeFacts, ClockType, EsploraWatcherAssumption DEF CreateInvoice, ClockPasses
  <2>2. EsploraChainTypeOK'
    BY <1>3 DEF CreateInvoice, ClockPasses, EsploraChainTypeOK, ChainTypeOK, esploraChainVars,
                chainVars, TypeInv, TypeOK
  <2>3. QED BY <1>3, <2>1, <2>2, OutsideMoves DEF CreateInvoice, ClockPasses
<1>4. QED BY <1>1, <1>2, <1>3

LEMMA InitType == Init => TypeInv
<1> SUFFICES ASSUME Init PROVE TypeInv
  OBVIOUS
<1>1. EsploraChainTypeOK
  BY ChainAssumption, EsploraChainAssumption
  DEF Init, EsploraChainInit, ChainInit, EsploraChainTypeOK, ChainTypeOK, Heights, Hashes, Unmined
<1>2. NoPayment \in PaymentRows
  BY ChainAssumption DEF NoPayment, PaymentRows, PaymentStatuses, Heights, Unmined
<1>3. LedgerTypeOK
  BY <1>2 DEF Init, LedgerInit, LedgerTypeOK, InvoiceRows, InvoiceStatuses, Clocks
<1>4. cursor \in Cursors /\ seen \in [Heights -> Hashes \cup {NoHash}]
  BY DEF Init, Cursors, NoCursor
<1>5. tip_height \in Heights /\ strikes \in [Txs -> 0 .. ORPHAN_STRIKES]
  BY ChainAssumption, EsploraWatcherAssumption DEF Init, Heights
<1>6. TypeOK
  BY <1>1, <1>3, <1>4, <1>5, IdleTypes DEF Init, TypeOK, Cursors
<1>7. QED BY <1>6, IdleTypes DEF TypeInv, Init

LEMMA NextType == TypeInv /\ [Next]_vars => TypeInv'
<1> SUFFICES ASSUME TypeInv, [Next]_vars PROVE TypeInv'
  OBVIOUS
<1>1. ASSUME NEW i \in Invoices, WorkerStep(i) \/ AbortWorker(i) \/ SkipUnlisted(i)
      PROVE  TypeInv'
  BY <1>1, WorkerStepType, WorkerFaultType
<1>2. CASE UNCHANGED vars
  <2>1. UNCHANGED <<esploraChainVars, ledgerVars, scanVars, strikes, loopVars>>
    BY <1>2 DEF vars
  <2>2. EsploraChainTypeOK'
    BY <2>1 DEF EsploraChainTypeOK, ChainTypeOK, esploraChainVars, chainVars, TypeInv, TypeOK
  <2>3. QED BY <2>1, <2>2, TypeFacts, RowsUnchanged, OutsideMoves
<1>3. QED BY <1>1, <1>2, ChainStepType, RoundStepType, ChainFaultType, RoundFaultType,
             CrashType, GrowChainType, ReorgChainType, OutsideType DEF Next

\* The inductive invariant holds at every moment.
THEOREM TypeInvariant == Spec => []TypeInv
  BY InitType, NextType, PTL DEF Spec

\* Every variable and every local of the two loops of an EsploraNetwork keeps
\* its type, for any chain, any payments and any thresholds.
THEOREM TypeCorrect == Spec => []TypeOK
<1>1. TypeInv => TypeOK
  BY DEF TypeInv
<1>2. QED BY <1>1, TypeInvariant, PTL
=============================================================================
