----------------------------- MODULE EvmScanProofs -----------------------------
(***************************************************************************)
(* The scan of EvmWatcher for every value of its constants, one service    *)
(* and up to the first reorganisation: the cursor is never moved over a    *)
(* block that pays an invoice the tick waits for, and every payment below  *)
(* it to an invoice still waiting for money is on record, wherever ticks   *)
(* are cut short.  After a reorganisation neither holds in general: the    *)
(* plan of a tick is read before handle_reorg, which may make an invoice   *)
(* wait again.  The last part goes one reorganisation further: no open     *)
(* payment stays in a block that was replaced, while ticks are not cut.    *)
(***************************************************************************)
EXTENDS EvmSafetyProofs

(***************************************************************************)
(* Until the first reorganisation.  The blocks carry the hash 0, every     *)
(* cursor is on one of them, and no tick unwinds anything.                 *)
(***************************************************************************)
Calm(r) == /\ r.pc \notin {"unwind", "locate", "relocate"}
           /\ r.ret # "locate"
           /\ r.anchor \in {NoHash, 0}
OnChain(c) == c.hash = NoHash \/ (c.hash = 0 /\ c.block \in Heights)
CalmInv ==
  /\ \A h \in Heights : hashAt[h] = 0
  /\ \A s \in Services : OnChain(cursors[s]) /\ Calm(svc[s])
  /\ \A t \in Txs : payments[t].status # "orphaned"

\* The steps a tick can take then, by what they do to its record.
Opening(s) == LoadWatched(s) \/ ReadTip(s) \/ Resume(s) \/ DetectFork(s)
Walking(s) == \/ SkipDeadSpace(s) \/ FetchChunk(s) \/ GetBlock(s) \/ GetAnchor(s)
              \/ Apply(s) \/ Advance(s) \/ JumpGap(s)
Refreshing(s) == \/ StopScanning(s) \/ Recount(s) \/ SelectOpen(s) \/ PromoteNext(s)
                 \/ NotifyConfirmed(s) \/ Finalize(s) \/ NotifyFinalized(s)
Totalling(s) == ReadTotal(s) \/ SaveTotal(s) \/ NotifySettled(s)

LEMMA CalmSteps ==
  ASSUME CalmInv, NEW s \in Services, TickStep(s)
  PROVE  Opening(s) \/ Walking(s) \/ Refreshing(s) \/ Totalling(s) \/ EndTick(s)
<1>1. svc[s].pc \notin {"unwind", "locate", "relocate"}
  BY DEF CalmInv, Calm
<1>2. ~(SelectAffected(s) \/ LocateTx(s) \/ ReorgReset(s) \/ ReorgOrphan(s) \/ Rewind(s))
  BY <1>1 DEF SelectAffected, LocateTx, ReorgReset, ReorgOrphan, Rewind, At
<1>3. QED BY <1>2 DEF TickStep, Opening, Walking, Refreshing, Totalling

\* The steps of the refresh leave the scan alone.
LEMMA RefreshingSteps ==
  ASSUME TypeInv, NEW s \in Services, Refreshing(s)
  PROVE  /\ svc'[s].pc \in {"refresh", "select", "promote", "confirmed", "finalize",
                            "finalized", "sum"}
         /\ svc'[s].pc = "sum" => svc'[s].ret = "promote"
         /\ svc'[s].ret \in {svc[s].ret, "promote"}
         /\ svc'[s].watched = svc[s].watched /\ svc'[s].tip = svc[s].tip
         /\ svc'[s].found = svc[s].found /\ svc'[s].todo = svc[s].todo
         /\ svc'[s].anchor = svc[s].anchor /\ svc'[s].end \in {svc[s].end, 0}
         /\ UNCHANGED <<chainVars, invoices, cursors>>
         /\ svc[s].pc # "idle"
<1>1. svc \in [Services -> TickLocals] /\ svc[s] \in TickLocals
  BY DEF TypeInv, TypeOK
<1>2. CASE StopScanning(s)
  BY <1>1, <1>2 DEF StopScanning, Go, At, TickLocals, ledgerVars
<1>3. CASE Recount(s)
  BY <1>1, <1>3 DEF Recount, At, TickLocals, CountConfirmations
<1>4. CASE SelectOpen(s)
  <2>1. PICK open, snap :
          svc' = [svc EXCEPT ![s].pc = "promote", ![s].rows = open, ![s].snap = snap]
    BY <1>4, Zenon DEF SelectOpen
  <2>2. svc[s].pc = "select" /\ UNCHANGED <<chainVars, ledgerVars, cursors>>
    BY <1>4, Zenon DEF SelectOpen, At
  <2>3. QED BY <1>1, <2>1, <2>2 DEF TickLocals, ledgerVars
<1>5. CASE PromoteNext(s)
  <2>1. PICK t \in svc[s].rows :
          /\ Promote(t, DueConfirm(s, t) /\ MayConfirm(t), "merchant_confirmed")
          /\ svc' = [svc EXCEPT ![s].tx = t, ![s].rows = @ \ {t}, ![s].ret = "promote",
                       ![s].pc = IF DueConfirm(s, t) /\ MayConfirm(t) THEN "confirmed"
                                 ELSE AfterConfirm(s, t)]
    BY <1>5 DEF PromoteNext
  <2>2. svc'[s] = [svc[s] EXCEPT !.tx = t, !.rows = @ \ {t}, !.ret = "promote",
                       !.pc = IF DueConfirm(s, t) /\ MayConfirm(t) THEN "confirmed"
                              ELSE AfterConfirm(s, t)]
    BY <1>1, <2>1
  <2>3. UNCHANGED invoices
    BY <2>1 DEF Promote
  <2>4. AfterConfirm(s, t) \in {"finalize", "sum"}
    BY DEF AfterConfirm
  <2>5. QED BY <1>1, <1>5, <2>2, <2>3, <2>4 DEF PromoteNext, At, TickLocals
<1>6. CASE NotifyConfirmed(s)
  <2>1. svc'[s] = [svc[s] EXCEPT !.pc = AfterConfirm(s, svc[s].tx)] /\ svc[s].pc = "confirmed"
    BY <1>1, <1>6 DEF NotifyConfirmed, Go, At
  <2>2. AfterConfirm(s, svc[s].tx) \in {"finalize", "sum"} /\ svc[s].ret = "promote"
    BY <2>1, TickFacts DEF AfterConfirm, LocalsOK
  <2>3. QED BY <1>1, <1>6, <2>1, <2>2 DEF NotifyConfirmed, TickLocals
<1>7. CASE Finalize(s)
  <2>1. svc[s].pc = "finalize" /\ svc[s].ret = "promote"
    BY <1>7, TickFacts DEF Finalize, At, LocalsOK
  <2>2. QED BY <1>1, <1>7, <2>1 DEF Finalize, Go, Promote, TickLocals
<1>8. CASE NotifyFinalized(s)
  <2>1. svc[s].pc = "finalized" /\ svc[s].ret = "promote"
    BY <1>8, TickFacts DEF NotifyFinalized, At, LocalsOK
  <2>2. QED BY <1>1, <1>8, <2>1 DEF NotifyFinalized, Go, TickLocals
<1>9. QED BY <1>2, <1>3, <1>4, <1>5, <1>6, <1>7, <1>8 DEF Refreshing

\* recompute_invoice_totals returns to where it was called from.
LEMMA TotallingSteps ==
  ASSUME TypeInv, NEW s \in Services, Totalling(s)
  PROVE  /\ Recomputing(svc[s])
         /\ \/ svc'[s].pc \in {"total", "settled"} /\ svc'[s].ret = svc[s].ret
            \/ svc'[s].pc = svc[s].ret /\ svc'[s].ret = "idle"
         /\ svc'[s].watched = svc[s].watched /\ svc'[s].tip = svc[s].tip
         /\ svc'[s].found = svc[s].found /\ svc'[s].todo = svc[s].todo
         /\ svc'[s].anchor = svc[s].anchor /\ svc'[s].end = svc[s].end
         /\ svc'[s].plan = svc[s].plan
         /\ UNCHANGED <<chainVars, payments, cursors>>
<1>1. svc \in [Services -> TickLocals] /\ svc[s] \in TickLocals
  BY DEF TypeInv, TypeOK
<1>2. CASE ReadTotal(s)
  BY <1>1, <1>2 DEF ReadTotal, At, Recomputing, TickLocals, ledgerVars
<1>3. CASE SaveTotal(s)
  <2>1. CASE Finishes(InvoiceOf[svc[s].tx], svc[s].sum)
    BY <1>1, <1>3, <2>1 DEF SaveTotal, WriteTotal, At, Recomputing, TickLocals
  <2>2. CASE ~Finishes(InvoiceOf[svc[s].tx], svc[s].sum)
    BY <1>1, <1>3, <2>2 DEF SaveTotal, WriteTotal, At, Recomputing, TickLocals
  <2>3. QED BY <2>1, <2>2
<1>4. CASE NotifySettled(s)
  BY <1>1, <1>4 DEF NotifySettled, At, Recomputing, TickLocals
<1>5. QED BY <1>2, <1>3, <1>4 DEF Totalling

LEMMA ScanOthers ==
  ASSUME TypeInv, NEW s \in Services, TickStep(s)
  PROVE  /\ \A u \in Services \ {s} : svc'[u] = svc[u] /\ cursors'[u] = cursors[u]
         /\ UNCHANGED chainVars
<1>1. cursors \in [Services -> Cursors]
  BY DEF TypeInv, TypeOK, Cursors
<1>2. UNCHANGED cursors \/ Resume(s) \/ Rewind(s) \/ SkipDeadSpace(s) \/ Advance(s) \/ JumpGap(s)
  BY DEF TickStep, LoadWatched, ReadTip, DetectFork, SelectAffected, LocateTx,
      ReorgReset, ReorgOrphan, FetchChunk, StopScanning, GetBlock, GetAnchor,
      Apply, Recount, SelectOpen, PromoteNext, NotifyConfirmed, Finalize,
      NotifyFinalized, EndTick, ReadTotal, SaveTotal, NotifySettled
<1>3. \A u \in Services \ {s} : cursors'[u] = cursors[u]
  BY <1>1, <1>2 DEF Resume, Rewind, SkipDeadSpace, Advance, JumpGap, Park
<1>4. UNCHANGED chainVars
  BY DEF TickStep, LoadWatched, ReadTip, Resume, DetectFork, SelectAffected, LocateTx,
      ReorgReset, ReorgOrphan, Rewind, SkipDeadSpace, FetchChunk, StopScanning, GetBlock, GetAnchor,
      Apply, Advance, JumpGap, Recount, SelectOpen, PromoteNext, NotifyConfirmed, Finalize,
      NotifyFinalized, EndTick, ReadTotal, SaveTotal, NotifySettled
<1>5. QED BY <1>3, <1>4, OwnRecord
-----------------------------------------------------------------------------
\* The steps that walk the chain, one by one: the record they leave behind and
\* where the cursor is then.
Jumped(s, to) ==
  \/ to <= cursors[s].block /\ UNCHANGED <<cursors, seen>>
  \/ /\ to > cursors[s].block /\ cursors'[s] = [block |-> to, hash |-> hashAt[to]]
     /\ seen' = [seen EXCEPT ![s][to] = hashAt[to]]

LEMMA JumpSteps ==
  ASSUME TypeInv, NEW s \in Services, SkipDeadSpace(s) \/ JumpGap(s)
  PROVE  \E to \in Heights \cup {-1}, step \in {"chunk", "refresh"} :
           /\ to <= Ceiling(s)
           /\ \A h \in svc[s].plan : h > cursors[s].block => to < h
           /\ step = "chunk" => \E h \in svc[s].plan : h > cursors[s].block /\ to \in {h - 1, Ceiling(s)}
           /\ svc'[s] = [svc[s] EXCEPT !.pc = step]
           /\ Jumped(s, to)
           /\ UNCHANGED <<chainVars, ledgerVars>>
<1> DEFINE want == cursors[s].block + 1
           ahead == PlanFrom(svc[s].plan, want)
           next == PlanNext(svc[s].plan, want)
           near == Min({next - 1, Ceiling(s)})
<1>1. /\ svc \in [Services -> TickLocals] /\ svc[s] \in TickLocals
      /\ cursors \in [Services -> Cursors] /\ cursors[s] \in Cursors
      /\ svc[s].plan \subseteq Heights
  BY DEF TypeInv, TypeOK, Cursors, TickLocals
<1>2. Ceiling(s) \in Heights \cup {-1}
  BY TickFacts, ChainAssumption DEF TickLocals, Heights, Ceiling
<1>3. \A h \in svc[s].plan : h > cursors[s].block => h \in ahead
  BY <1>1, ChainAssumption DEF PlanFrom, Heights, Cursors
<1>4. ASSUME ahead # {}
      PROVE  /\ near \in Heights \cup {-1} /\ near <= Ceiling(s)
             /\ \A h \in svc[s].plan : h > cursors[s].block => near < h
             /\ \E h \in svc[s].plan : h > cursors[s].block /\ near \in {h - 1, Ceiling(s)}
  <2>1. ahead \subseteq Nat /\ ahead # {} /\ ahead \subseteq Heights
    BY <1>1, <1>4, ChainAssumption DEF PlanFrom, Heights
  <2> HIDE DEF ahead
  <2>2. Min(ahead) \in ahead /\ \A h \in ahead : Min(ahead) <= h
    BY <2>1, MinOfNat
  <2>3. next = Min(ahead)
    BY DEF PlanNext, ahead
  <2> HIDE DEF next
  <2>4. next \in Heights /\ \A h \in ahead : next <= h
    BY <2>1, <2>2, <2>3
  <2>5. near \in {next - 1, Ceiling(s)} /\ near <= next - 1 /\ near <= Ceiling(s)
    BY <1>2, <2>4, MinOfTwo, ChainAssumption DEF Heights
  <2> HIDE DEF near
  <2>6. near \in Heights \cup {-1}
    BY <1>2, <2>4, <2>5, ChainAssumption DEF Heights
  <2>7. ASSUME NEW h \in svc[s].plan, h > cursors[s].block
        PROVE  near < h
    <3>1. next <= h /\ h \in Nat
      BY <1>1, <1>3, <2>4, <2>7, ChainAssumption DEF Heights
    <3>2. QED BY <1>2, <2>4, <2>5, <2>6, <3>1, ChainAssumption DEF Heights
  <2>8. next \in svc[s].plan /\ next > cursors[s].block
    <3>1. next \in ahead
      BY <2>2, <2>3
    <3>2. next \in svc[s].plan /\ next >= cursors[s].block + 1
      BY <3>1 DEF ahead, PlanFrom
    <3>3. cursors[s].block \in Int /\ next \in Int
      BY <1>1, <2>4, ChainAssumption DEF Cursors, Heights
    <3>4. QED BY <3>2, <3>3
  <2>9. QED BY <2>5, <2>6, <2>7, <2>8
<1>5. ASSUME NEW to \in Heights \cup {-1},
             IF to > cursors[s].block THEN Park(s, to, hashAt[to]) ELSE UNCHANGED <<cursors, seen>>
      PROVE  Jumped(s, to)
  <2>1. CASE to > cursors[s].block
    BY <1>1, <1>5, <2>1 DEF Park, Jumped
  <2>2. CASE ~(to > cursors[s].block)
    BY <1>1, <1>5, <2>2, ChainAssumption DEF Jumped, Cursors, Heights
  <2>3. QED BY <2>1, <2>2
<1>6. CASE SkipDeadSpace(s)
  <2>1. /\ UNCHANGED <<chainVars, ledgerVars>>
        /\ svc'[s] = [svc[s] EXCEPT !.pc = IF ahead = {} THEN "refresh" ELSE "chunk"]
    BY <1>1, <1>6 DEF SkipDeadSpace, Go
  <2>2. CASE ahead = {}
    <3>1. Jumped(s, Ceiling(s))
      BY <1>2, <1>5, <1>6, <2>2 DEF SkipDeadSpace
    <3>2. \A h \in svc[s].plan : h > cursors[s].block => Ceiling(s) < h
      BY <1>3, <2>2
    <3>3. Ceiling(s) <= Ceiling(s)
      BY <1>2, ChainAssumption DEF Heights
    <3> HIDE DEF ahead
    <3>4. QED BY <1>2, <2>1, <2>2, <3>1, <3>2, <3>3
  <2>3. CASE ahead # {}
    <3>1. Jumped(s, near)
      BY <1>4, <1>5, <1>6, <2>3 DEF SkipDeadSpace
    <3> HIDE DEF ahead, near
    <3>2. QED BY <1>4, <2>1, <2>3, <3>1
  <2>4. QED BY <2>2, <2>3
<1>7. CASE JumpGap(s)
  <2>1. ahead # {}
    BY <1>7, TickFacts DEF JumpGap, LocalsOK, At
  <2>2. /\ UNCHANGED <<chainVars, ledgerVars>>
        /\ IF near > cursors[s].block THEN Park(s, near, hashAt[near]) ELSE UNCHANGED <<cursors, seen>>
        /\ Go(s, "chunk") \/ Go(s, "refresh")
    BY <1>7 DEF JumpGap
  <2>3. PICK step \in {"chunk", "refresh"} : svc'[s] = [svc[s] EXCEPT !.pc = step]
    BY <1>1, <2>2 DEF Go
  <2> HIDE DEF ahead, near
  <2>4. QED BY <1>4, <1>5, <2>1, <2>2, <2>3
<1>8. QED BY <1>6, <1>7

ChunkLogs(s, end) ==
  LET kinds == IF s = "logs" THEN {"vault"} ELSE {"erc20"}
  IN  UNION {SightingsOf(Payable(s, kinds, h), h) : h \in cursors[s].block + 1 .. end}
Chunked(s, end, rangeEnd) ==
  /\ cursors[s].block < end /\ end <= Ceiling(s) /\ end <= rangeEnd
  /\ rangeEnd = PlanRangeEnd(svc[s].plan, cursors[s].block + 1, Ceiling(s))
  /\ svc'[s] = [svc[s] EXCEPT !.pc = "block", !.end = end, !.rangeEnd = rangeEnd,
                              !.found = ChunkLogs(s, end)]
  /\ svc[s].pc = "chunk"
  /\ UNCHANGED <<chainVars, ledgerVars, cursors, seen>>

LEMMA ChunkStep ==
  ASSUME TypeInv, NEW s \in Services, FetchChunk(s)
  PROVE  \E end \in Heights, rangeEnd \in Heights : Chunked(s, end, rangeEnd)
<1> DEFINE n == cursors[s].block + 1
           rangeEnd == PlanRangeEnd(svc[s].plan, n, Ceiling(s))
           budget == n + MAX_BLOCKS_PER_TICK - svc[s].scanned - 1
           width == n + MAX_LOG_BLOCK_RANGE - 1
           end == Min({Ceiling(s), rangeEnd, budget, width})
           kinds == IF s = "logs" THEN {"vault"} ELSE {"erc20"}
           found == UNION {SightingsOf(Payable(s, kinds, h), h) : h \in n .. end}
<1>1. /\ svc' = [svc EXCEPT ![s].pc = "block", ![s].end = end, ![s].rangeEnd = rangeEnd,
                   ![s].found = found]
      /\ svc[s].pc = "chunk"
      /\ UNCHANGED <<chainVars, ledgerVars, cursors, seen>>
  BY DEF FetchChunk, At
<1>2. /\ n \in Heights /\ Ceiling(s) \in Heights /\ n <= Ceiling(s)
      /\ n = cursors[s].block + 1 /\ cursors[s].block \in Int
      /\ svc[s].scanned \in Nat /\ svc[s].scanned < MAX_BLOCKS_PER_TICK
      /\ svc[s].plan \in SUBSET Heights
  <2>1. /\ cursors[s].block \in Heights \cup {-1} /\ svc[s].tip \in Heights
        /\ svc[s].scanned \in Nat /\ svc[s].plan \in SUBSET Heights
    BY TickFacts DEF Cursors, TickLocals
  <2>2. /\ svc[s].scanned < MAX_BLOCKS_PER_TICK
        /\ cursors[s].block + 1 <= svc[s].tip - 1
    BY DEF FetchChunk, CanScan, Ceiling
  <2>3. QED BY <2>1, <2>2, ChainAssumption DEF Heights, Ceiling
<1>3. rangeEnd \in Heights /\ n <= rangeEnd
  BY <1>2, PlanRangeEndType
<1>4. budget \in Nat /\ n <= budget /\ width \in Nat /\ n <= width
  BY <1>2, ChainAssumption, WatcherAssumption DEF Heights
<1>5. svc'[s] = [svc[s] EXCEPT !.pc = "block", !.end = end, !.rangeEnd = rangeEnd,
                               !.found = found]
  <2> HIDE DEF end, rangeEnd, found
  <2>1. QED BY <1>1 DEF TypeInv, TypeOK
<1>6. end \in Heights /\ n <= end /\ end <= Ceiling(s) /\ end <= rangeEnd
  <2> DEFINE S == {Ceiling(s), rangeEnd, budget, width}
  <2> HIDE DEF n, rangeEnd, budget, width
  <2>1. S \subseteq Nat /\ S # {}
    BY <1>2, <1>3, <1>4, ChainAssumption DEF Heights
  <2>2. Ceiling(s) \in S /\ rangeEnd \in S /\ \A y \in S : n <= y
    BY <1>2, <1>3, <1>4
  <2> HIDE DEF S
  <2>3. Min(S) \in S /\ Min(S) \in Nat /\ Min(S) <= Ceiling(s) /\ Min(S) <= rangeEnd
    BY <2>1, <2>2, MinOfNat
  <2>4. end = Min(S)
    BY DEF S
  <2> HIDE DEF end
  <2>5. QED BY <1>2, <2>2, <2>3, <2>4, ChainAssumption DEF Heights
<1>7. cursors[s].block < end
  <2> HIDE DEF end
  <2>1. QED BY <1>2, <1>6, ChainAssumption DEF Heights
<1>8. found = ChunkLogs(s, end)
  BY DEF ChunkLogs
<1>9. rangeEnd = PlanRangeEnd(svc[s].plan, cursors[s].block + 1, Ceiling(s))
  OBVIOUS
<1> HIDE DEF end, rangeEnd, found
<1>10. Chunked(s, end, rangeEnd)
  BY <1>1, <1>5, <1>6, <1>7, <1>8, <1>9 DEF Chunked
<1>11. QED BY <1>3, <1>6, <1>10

Applied(s, f) ==
  /\ svc'[s] = [svc[s] EXCEPT !.pc = "sum", !.ret = "apply", !.tx = f.tx,
                              !.todo = svc[s].todo \ {f}]
  /\ svc[s].pc = "apply" /\ f.tx \in Recorded'
  /\ InsertPayment(f.tx, f.block, f.hash) \/ RelocatePayment(f.tx, f.block, f.hash)
  /\ UNCHANGED <<chainVars, cursors, seen, invoices>>

LEMMA ApplyStep ==
  ASSUME TypeInv, NEW s \in Services, Apply(s)
  PROVE  \E f \in svc[s].todo : Applied(s, f)
<1>1. /\ svc \in [Services -> TickLocals] /\ svc[s] \in TickLocals
      /\ payments \in [Txs -> PaymentRows]
  BY DEF TypeInv, TypeOK, LedgerTypeOK
<1>2. PICK f \in svc[s].todo :
        /\ InsertPayment(f.tx, f.block, f.hash) \/ RelocatePayment(f.tx, f.block, f.hash)
        /\ svc' = [svc EXCEPT ![s].pc = "sum", ![s].ret = "apply", ![s].tx = f.tx,
                    ![s].todo = @ \ {f}]
  BY DEF Apply
<1>3. svc'[s] = [svc[s] EXCEPT !.pc = "sum", !.ret = "apply", !.tx = f.tx,
                               !.todo = svc[s].todo \ {f}]
  BY <1>1, <1>2
<1>4. f.tx \in Txs
  BY <1>1 DEF TickLocals, Sightings
<1>5. f.tx \in Recorded' /\ UNCHANGED invoices
  <2>1. CASE InsertPayment(f.tx, f.block, f.hash)
    BY <1>1, <1>4, <2>1 DEF InsertPayment, Recorded
  <2>2. CASE RelocatePayment(f.tx, f.block, f.hash)
    BY <1>1, <1>4, <2>2 DEF RelocatePayment, Recorded, PaymentRows
  <2>3. QED BY <1>2, <2>1, <2>2
<1>6. svc[s].pc = "apply" /\ UNCHANGED <<chainVars, cursors, seen>>
  BY DEF Apply, At
<1>7. QED BY <1>2, <1>3, <1>5, <1>6 DEF Applied

Advanced(s, m, used, step) ==
  /\ m = IF s = "logs" THEN svc[s].end ELSE cursors[s].block + 1
  /\ cursors[s].block < m /\ m <= svc[s].end
  /\ step = "block" => m < svc[s].end
  /\ step = "chunk" => m + 1 <= svc[s].rangeEnd \/ m + 1 \in svc[s].plan
  /\ step = "gap" => m + 1 \notin svc[s].plan /\ \E h \in svc[s].plan : m + 1 <= h
  /\ svc'[s] = [svc[s] EXCEPT !.anchor = NoHash, !.tx = NoTx, !.scanned = used, !.pc = step]
  /\ cursors'[s] = [block |-> m, hash |-> svc[s].anchor]
  /\ seen' = [seen EXCEPT ![s][m] = svc[s].anchor]
  /\ svc[s].pc = "apply" /\ svc[s].todo = {}
  /\ UNCHANGED <<chainVars, ledgerVars>>

LEMMA AdvanceStep ==
  ASSUME TypeInv, NEW s \in Services, Advance(s)
  PROVE  \E m \in Heights, used \in Nat, step \in {"block", "chunk", "refresh", "gap"} :
           Advanced(s, m, used, step)
<1> DEFINE m == IF s = "logs" THEN svc[s].end ELSE cursors[s].block + 1
           next == PlanFrom(svc[s].plan, m + 1)
           step == IF m < svc[s].end THEN "block"
                   ELSE IF m + 1 <= svc[s].rangeEnd \/ m + 1 \in next THEN "chunk"
                   ELSE IF next = {} THEN "refresh" ELSE "gap"
           used == svc[s].scanned + m - cursors[s].block
<1>1. svc'[s] = [svc[s] EXCEPT !.anchor = NoHash, !.tx = NoTx, !.scanned = used, !.pc = step]
  BY DEF TypeInv, TypeOK, Advance
<1>2. /\ cursors'[s] = [block |-> m, hash |-> svc[s].anchor]
      /\ seen' = [seen EXCEPT ![s][m] = svc[s].anchor]
  BY DEF Advance, Park, TypeInv, TypeOK
<1>3. /\ cursors[s].block \in Heights \cup {-1} /\ svc[s].end \in Heights
      /\ svc[s].scanned \in Nat /\ cursors[s].block < svc[s].end
  BY TickFacts DEF Cursors, TickLocals, LocalsOK, Applying, Advance, At
<1>4. m \in Heights /\ used \in Nat /\ cursors[s].block < m /\ m <= svc[s].end
  BY <1>3, ChainAssumption DEF Heights
<1>5. /\ step \in {"block", "chunk", "refresh", "gap"}
      /\ step = "block" => m < svc[s].end
  OBVIOUS
<1>6. m = IF s = "logs" THEN svc[s].end ELSE cursors[s].block + 1
  OBVIOUS
<1>7. /\ step = "chunk" => m + 1 <= svc[s].rangeEnd \/ m + 1 \in svc[s].plan
      /\ step = "gap" => m + 1 \notin svc[s].plan /\ \E h \in svc[s].plan : m + 1 <= h
  <2> HIDE DEF m
  <2>1. m + 1 \in Int /\ \A h \in next : h \in svc[s].plan /\ m + 1 <= h
    BY <1>4, ChainAssumption DEF PlanFrom, Heights
  <2>2. m + 1 \in svc[s].plan => m + 1 \in next
    BY <2>1 DEF PlanFrom
  <2> HIDE DEF next
  <2>3. QED BY <2>1, <2>2
<1> HIDE DEF m, next, step, used
<1>8. svc[s].pc = "apply" /\ svc[s].todo = {} /\ UNCHANGED <<chainVars, ledgerVars>>
  BY DEF Advance, At
<1>9. Advanced(s, m, used, step)
  BY <1>1, <1>2, <1>4, <1>5, <1>6, <1>7, <1>8 DEF Advanced
<1>10. QED BY <1>4, <1>5, <1>9

Fetched(s, m) ==
  /\ m = cursors[s].block + 1
  /\ svc'[s] = [svc[s] EXCEPT !.pc = "apply", !.anchor = 0,
       !.todo = SightingsOf(Payable(s, {"native"}, m), m)
                 \cup {f \in svc[s].found : f.block = m /\ f.hash = 0},
       !.found = {f \in svc[s].found : f.block # m}]
  /\ svc[s].pc = "block" /\ s = "addresses"
  /\ UNCHANGED <<chainVars, ledgerVars, cursors>>

LEMMA BlockStep ==
  ASSUME TypeInv, CalmInv, NEW s \in Services, GetBlock(s)
  PROVE  \E m \in Heights : Fetched(s, m)
<1> DEFINE m == cursors[s].block + 1
<1>1. m \in Heights
  <2>1. /\ cursors[s].block \in Heights \cup {-1} /\ svc[s].end \in Heights
        /\ cursors[s].block < svc[s].end
    BY TickFacts DEF Cursors, TickLocals, LocalsOK, Applying, At, GetBlock
  <2>2. QED BY <2>1, ChainAssumption DEF Heights
<1>2. hashAt[m] = 0
  BY <1>1 DEF CalmInv
<1>3. Extends(s)
  BY DEF Extends, CalmInv, OnChain
<1>4. svc' = [svc EXCEPT ![s].pc = "apply", ![s].anchor = hashAt[m],
                ![s].todo = SightingsOf(Payable(s, {"native"}, m), m)
                          \cup {f \in svc[s].found : f.block = m /\ f.hash = hashAt[m]},
                ![s].found = {f \in @ : f.block # m}]
  BY <1>3 DEF GetBlock
<1>5. svc[s].pc = "block" /\ s = "addresses" /\ UNCHANGED <<chainVars, ledgerVars, cursors>>
  BY DEF GetBlock, At
<1> DEFINE todo == SightingsOf(Payable(s, {"native"}, m), m)
                     \cup {f \in svc[s].found : f.block = m /\ f.hash = 0}
           found == {f \in svc[s].found : f.block # m}
<1>6. svc' = [svc EXCEPT ![s].pc = "apply", ![s].anchor = 0, ![s].todo = todo, ![s].found = found]
  <2> HIDE DEF m
  <2>1. QED BY <1>2, <1>4 DEF TypeInv, TypeOK
<1>7. svc'[s] = [svc[s] EXCEPT !.pc = "apply", !.anchor = 0, !.todo = todo, !.found = found]
  <2> HIDE DEF todo, found
  <2>1. QED BY <1>6 DEF TypeInv, TypeOK
<1>8. m = cursors[s].block + 1
  OBVIOUS
<1> HIDE DEF m
<1>9. Fetched(s, m)
  BY <1>5, <1>7, <1>8 DEF Fetched
<1>10. QED BY <1>1, <1>9

LEMMA AnchorStep ==
  ASSUME TypeInv, CalmInv, NEW s \in Services, GetAnchor(s)
  PROVE  /\ svc'[s] = [svc[s] EXCEPT !.pc = "apply", !.anchor = 0,
                         !.todo = svc[s].found, !.found = {}]
         /\ svc[s].pc = "block" /\ s = "logs"
         /\ UNCHANGED <<chainVars, ledgerVars, cursors>>
<1>1. svc[s].end \in Heights
  BY TickFacts DEF TickLocals
<1>2. hashAt[svc[s].end] = 0
  BY <1>1 DEF CalmInv
<1>3. QED BY <1>2 DEF GetAnchor, At, TypeInv, TypeOK

-----------------------------------------------------------------------------
LEMMA OpeningCalm ==
  ASSUME TypeInv, CalmInv, NEW s \in Services, Opening(s)
  PROVE  Calm(svc'[s]) /\ OnChain(cursors'[s]) /\ UNCHANGED ledgerVars
<1>1. svc \in [Services -> TickLocals] /\ svc[s] \in TickLocals
  BY DEF TypeInv, TypeOK
<1>2. Calm(svc[s]) /\ OnChain(cursors[s])
  BY DEF CalmInv
<1>3. CASE LoadWatched(s) \/ ReadTip(s)
  BY <1>1, <1>2, <1>3 DEF LoadWatched, ReadTip, Calm, TickLocals
<1>4. CASE Resume(s)
  <2>1. Calm(svc'[s])
    BY <1>1, <1>2, <1>4 DEF Resume, Calm, TickLocals
  <2>2. cursors'[s] = cursors[s] \/ cursors'[s].hash = NoHash
    BY <1>4 DEF Resume, TypeInv, TypeOK
  <2>3. QED BY <1>2, <1>4, <2>1, <2>2 DEF OnChain, Resume
<1>5. CASE DetectFork(s)
  <2>1. ~Reorganised(s)
    BY <1>2 DEF Reorganised, OnChain, CalmInv
  <2>2. QED BY <1>1, <1>2, <1>5, <2>1 DEF DetectFork, Calm, TickLocals
<1>6. QED BY <1>3, <1>4, <1>5 DEF Opening

LEMMA WalkingCalm ==
  ASSUME TypeInv, CalmInv, NEW s \in Services, Walking(s)
  PROVE  Calm(svc'[s]) /\ OnChain(cursors'[s])
<1>1. svc[s] \in TickLocals /\ cursors[s] \in Cursors
  BY DEF TypeInv, TypeOK, Cursors
<1>2. Calm(svc[s]) /\ OnChain(cursors[s]) /\ \A h \in Heights : hashAt[h] = 0
  BY DEF CalmInv
<1>3. CASE SkipDeadSpace(s) \/ JumpGap(s)
  <2>1. PICK to \in Heights \cup {-1}, step \in {"chunk", "refresh"} :
           svc'[s] = [svc[s] EXCEPT !.pc = step] /\ Jumped(s, to)
    BY <1>3, JumpSteps
  <2>2. Calm(svc'[s])
    BY <1>1, <1>2, <2>1 DEF Calm, TickLocals
  <2>3. CASE to > cursors[s].block /\ cursors'[s] = [block |-> to, hash |-> hashAt[to]]
    <3>1. to \in Heights
      BY <1>1, <2>3, ChainAssumption DEF Cursors, Heights
    <3>2. QED BY <1>2, <2>2, <2>3, <3>1 DEF OnChain
  <2>4. QED BY <1>2, <2>1, <2>2, <2>3 DEF Jumped
<1>4. CASE FetchChunk(s)
  <2>1. PICK end \in Heights, rangeEnd \in Heights : Chunked(s, end, rangeEnd)
    BY <1>4, ChunkStep
  <2>2. QED BY <1>1, <1>2, <2>1 DEF Chunked, Calm, TickLocals
<1>5. CASE GetBlock(s)
  <2>1. PICK m \in Heights : Fetched(s, m)
    BY <1>5, BlockStep
  <2>2. QED BY <1>1, <1>2, <2>1 DEF Fetched, Calm, TickLocals
<1>6. CASE GetAnchor(s)
  <2>1. /\ UNCHANGED cursors
        /\ svc'[s] = [svc[s] EXCEPT !.pc = "apply", !.anchor = 0,
                         !.todo = svc[s].found, !.found = {}]
    BY <1>6, AnchorStep
  <2>2. QED BY <1>1, <1>2, <2>1 DEF Calm, TickLocals
<1>7. CASE Apply(s)
  <2>1. PICK f \in svc[s].todo : Applied(s, f)
    BY <1>7, ApplyStep
  <2>2. QED BY <1>1, <1>2, <2>1 DEF Applied, Calm, TickLocals
<1>8. CASE Advance(s)
  <2>1. PICK m \in Heights, used \in Nat, step \in {"block", "chunk", "refresh", "gap"} :
          Advanced(s, m, used, step)
    BY <1>8, AdvanceStep
  <2>2. QED BY <1>1, <1>2, <2>1 DEF Advanced, Calm, OnChain, TickLocals
<1>9. QED BY <1>3, <1>4, <1>5, <1>6, <1>7, <1>8 DEF Walking

LEMMA CalmTick ==
  ASSUME TypeInv, CalmInv, NEW s \in Services, TickStep(s)
  PROVE  CalmInv'
<1>1. svc[s] \in TickLocals /\ Calm(svc[s]) /\ OnChain(cursors[s])
  BY DEF TypeInv, TypeOK, CalmInv
<1>2. Calm(svc'[s]) /\ OnChain(cursors'[s])
  <2>1. CASE Opening(s)
    BY <2>1, OpeningCalm
  <2>2. CASE Walking(s)
    BY <2>2, WalkingCalm
  <2>3. CASE Refreshing(s)
    BY <1>1, <2>3, RefreshingSteps DEF Calm
  <2>4. CASE Totalling(s)
    <3>1. svc[s].ret \in {"apply", "promote"}
      BY <1>1, <2>4, TotallingSteps, TickFacts DEF LocalsOK, Calm
    <3>2. QED BY <1>1, <2>4, <3>1, TotallingSteps DEF Calm
  <2>5. CASE EndTick(s)
    BY <1>1, <2>5 DEF EndTick, Idle, Calm, TypeInv, TypeOK
  <2>6. QED BY <2>1, <2>2, <2>3, <2>4, <2>5, CalmSteps
<1>3. \A u \in Services : OnChain(cursors'[u]) /\ Calm(svc'[u])
  BY <1>2, ScanOthers DEF CalmInv
<1>4. \A h \in Heights : hashAt'[h] = 0
  BY ScanOthers DEF CalmInv, chainVars
<1>5. ASSUME NEW t \in Txs PROVE payments'[t].status # "orphaned"
  <2>1. payments[t] \in PaymentRows /\ payments[t].status # "orphaned"
    BY DEF CalmInv, TypeInv, TypeOK, LedgerTypeOK
  <2>2. ~ReorgReset(s) /\ ~ReorgOrphan(s)
    BY <1>1 DEF ReorgReset, ReorgOrphan, At, Calm
  <2>3. CASE Apply(s)
    <3>1. PICK f \in svc[s].todo :
            InsertPayment(f.tx, f.block, f.hash) \/ RelocatePayment(f.tx, f.block, f.hash)
      BY <2>3 DEF Apply
    <3>2. CASE InsertPayment(f.tx, f.block, f.hash)
      BY <2>1, <3>2 DEF InsertPayment, TypeInv, TypeOK, LedgerTypeOK
    <3>3. CASE RelocatePayment(f.tx, f.block, f.hash)
      BY <2>1, <3>3 DEF RelocatePayment, TypeInv, TypeOK, LedgerTypeOK, PaymentRows
    <3>4. QED BY <3>1, <3>2, <3>3
  <2>4. ASSUME NEW n, payments'[t] = [payments[t] EXCEPT !.confs = n]
        PROVE  payments'[t].status # "orphaned"
    BY <2>1, <2>4 DEF PaymentRows
  <2>5. CASE Confirms(s, t) \/ Finalizes(s, t)
    BY <2>1, <2>5 DEF Confirms, Finalizes, PaymentRows
  <2>6. QED BY <2>1, <2>2, <2>3, <2>4, <2>5, RowSteps
<1>6. QED BY <1>3, <1>4, <1>5 DEF CalmInv

\* Outside the ticks, and when one is cut short.
Outside == \/ \E s \in Services : AbortTick(s)
           \/ GrowChain \/ ReorgChain \/ CreateInvoice \/ ExpireInvoice \/ UNCHANGED vars

LEMMA OutsideSteps ==
  ASSUME TypeInv, Outside, reorgs' = 0
  PROVE  /\ ~ReorgChain
         /\ UNCHANGED <<payments, cursors>>
         /\ \A u \in Services : svc'[u] \in {svc[u], Idle}
<1>1. reorgs \in Nat
  BY ChainAssumption DEF TypeInv, TypeOK, ChainTypeOK, Hashes
<1>2. ~ReorgChain
  BY <1>1 DEF ReorgChain, Reorganise
<1>3. UNCHANGED <<payments, cursors>>
  BY <1>2 DEF Outside, AbortTick, GrowChain, CreateInvoice, RegisterInvoice, ExpireInvoice,
              PassExpiry, vars, ledgerVars
<1>4. \A u \in Services : svc'[u] \in {svc[u], Idle}
  BY <1>2 DEF Outside, AbortTick, GrowChain, CreateInvoice, ExpireInvoice, vars, TypeInv, TypeOK
<1>5. QED BY <1>2, <1>3, <1>4

LEMMA CalmNext ==
  ASSUME TypeInv, CalmInv, [Next]_vars, reorgs' = 0
  PROVE  CalmInv'
<1>1. CASE Outside
  <2>1. \A h \in Heights : hashAt'[h] = 0
    <3>1. CASE GrowChain
      <4>1. reorgs = 0 /\ hashAt' = [hashAt EXCEPT ![tip + 1] = reorgs]
        BY <3>1 DEF GrowChain, MineBlock
      <4>2. QED BY <4>1 DEF CalmInv, TypeInv, TypeOK, ChainTypeOK
    <3>2. CASE ~GrowChain
      BY <1>1, <3>2, OutsideSteps DEF Outside, AbortTick, CreateInvoice, ExpireInvoice, vars,
            chainVars, CalmInv
    <3>3. QED BY <3>1, <3>2
  <2>2. Calm(Idle)
    BY DEF Calm, Idle
  <2>3. QED BY <1>1, <2>1, <2>2, OutsideSteps DEF CalmInv
<1>2. CASE \E s \in Services : TickStep(s)
  BY <1>2, CalmTick
<1>3. QED BY <1>1, <1>2 DEF Next, Outside

LEMMA ResumeStep ==
  ASSUME TypeInv, NEW s \in Services, Resume(s)
  PROVE  /\ svc'[s] = [svc[s] EXCEPT !.pc = "fork", !.plan = ScanPlan]
         /\ svc[s].pc = "resume" /\ UNCHANGED <<chainVars, ledgerVars>>
         /\ \/ cursors'[s] = cursors[s]
            \/ ScanPlan = {} /\ cursors'[s].block = Ceiling(s)
            \/ \E low \in ScanPlan : /\ \A h \in ScanPlan : low <= h
                                     /\ cursors'[s].block = IF low = 0 THEN 0 ELSE low - 1
<1>1. /\ svc \in [Services -> TickLocals] /\ cursors \in [Services -> Cursors]
      /\ svc[s] \in TickLocals
  BY DEF TypeInv, TypeOK, Cursors
<1>2. /\ svc'[s] = [svc[s] EXCEPT !.pc = "fork", !.plan = ScanPlan]
      /\ svc[s].pc = "resume" /\ UNCHANGED <<chainVars, ledgerVars>>
  BY <1>1 DEF Resume, At
<1>3. CASE cursors[s] # NoCursor
  BY <1>2, <1>3 DEF Resume
<1>4. CASE cursors[s] = NoCursor /\ ScanPlan = {}
  BY <1>1, <1>2, <1>4 DEF Resume
<1>5. CASE cursors[s] = NoCursor /\ ScanPlan # {}
  <2> DEFINE low == Min(ScanPlan)
  <2>1. ScanPlan \in SUBSET Heights
    BY DEF ScanPlan, PlanOf
  <2>2. low \in ScanPlan /\ \A h \in ScanPlan : low <= h
    BY <1>5, <2>1, MinType
  <2>3. cursors'[s].block = Max({low - 1, 0})
    BY <1>1, <1>5 DEF Resume
  <2>4. low \in Heights
    BY <2>1, <2>2
  <2> HIDE DEF low
  <2>5. CASE low = 0
    <3>1. \A x \in {low - 1, 0} : 0 >= x
      BY <2>5
    <3>2. Max({low - 1, 0}) = 0
      BY <2>5, <3>1 DEF Max
    <3>3. QED BY <1>2, <2>2, <2>3, <2>5, <3>2
  <2>6. CASE low # 0
    <3>1. {low - 1, 0} \in SUBSET Heights /\ low - 1 >= 0 /\ low - 1 \in Int
      BY <2>4, <2>6, ChainAssumption DEF Heights
    <3>2. Max({low - 1, 0}) \in {low - 1, 0} /\ low - 1 <= Max({low - 1, 0})
      BY <3>1, MaxType
    <3>3. Max({low - 1, 0}) = low - 1
      BY <3>1, <3>2
    <3>4. QED BY <1>2, <2>2, <2>3, <2>6, <3>3
  <2>7. QED BY <2>5, <2>6
<1>6. QED BY <1>3, <1>4, <1>5

\* What steps do to the fields of an invoice that the scan relies on.
LEMMA InvoiceFields ==
  ASSUME TypeInv, [Next]_vars, NEW i \in Invoices
  PROVE  /\ \/ invoices'[i].created = invoices[i].created
            \/ ~Registered(i) /\ invoices'[i].created = tip /\ UNCHANGED <<svc, chainVars>>
         /\ invoices[i].expired => invoices'[i].expired
<1>1. invoices \in [Invoices -> InvoiceRows]
  BY DEF TypeInv, TypeOK, LedgerTypeOK
<1>2. ASSUME NEW s \in Services, SaveTotal(s)
      PROVE  /\ invoices'[i].created = invoices[i].created
             /\ invoices'[i].expired = invoices[i].expired
  BY <1>1, <1>2 DEF SaveTotal, WriteTotal, InvoiceRows
<1>3. CASE CreateInvoice
  BY <1>1, <1>3 DEF CreateInvoice, RegisterInvoice, InvoiceRows
<1>4. CASE ExpireInvoice
  BY <1>1, <1>4 DEF ExpireInvoice, PassExpiry, InvoiceRows
<1>5. QED BY <1>2, <1>3, <1>4, InvoicesKept

LEMMA RowBlocks ==
  ASSUME TypeInv, CalmInv, NEW s \in Services, TickStep(s), NEW t \in Txs
  PROVE  \/ payments'[t].block = payments[t].block
         \/ Apply(s) /\ \E f \in svc[s].todo : payments'[t].block = f.block
<1>1. payments[t] \in PaymentRows /\ payments \in [Txs -> PaymentRows]
  BY DEF TypeInv, TypeOK, LedgerTypeOK
<1>2. ~ReorgReset(s) /\ ~ReorgOrphan(s)
  BY DEF ReorgReset, ReorgOrphan, At, CalmInv, Calm
<1>3. CASE Apply(s)
  <2>1. PICK f \in svc[s].todo :
          InsertPayment(f.tx, f.block, f.hash) \/ RelocatePayment(f.tx, f.block, f.hash)
    BY <1>3 DEF Apply
  <2>2. CASE InsertPayment(f.tx, f.block, f.hash)
    BY <1>1, <1>3, <2>2 DEF InsertPayment
  <2>3. CASE RelocatePayment(f.tx, f.block, f.hash)
    BY <1>1, <1>3, <2>3 DEF RelocatePayment, PaymentRows
  <2>4. QED BY <2>1, <2>2, <2>3
<1>4. ASSUME NEW n, payments'[t] = [payments[t] EXCEPT !.confs = n]
      PROVE  payments'[t].block = payments[t].block
  BY <1>1, <1>4 DEF PaymentRows
<1>5. CASE Confirms(s, t) \/ Finalizes(s, t)
  BY <1>1, <1>5 DEF Confirms, Finalizes, PaymentRows
<1>6. QED BY <1>2, <1>3, <1>4, <1>5, RowSteps

-----------------------------------------------------------------------------
(***************************************************************************)
(* Nothing the watcher knows is above the tip: its cursors are below it,   *)
(* so a block that is mined next is still ahead of every scan; and no      *)
(* transaction is mined before its invoice was created.                    *)
(***************************************************************************)
Behind(r, block) ==
  /\ block < tip /\ r.tip <= tip /\ r.end < tip
  /\ \A f \in r.found \cup r.todo : f.block <= tip
BehindInv ==
  /\ \A i \in Invoices : invoices[i].created <= tip
  /\ \A t \in Txs :
       /\ minedAt[t] <= tip /\ payments[t].block <= tip
       /\ minedAt[t] # Unmined => /\ Registered(InvoiceOf[t])
                                  /\ invoices[InvoiceOf[t]].created < minedAt[t]
  /\ \A s \in Services : Behind(svc[s], cursors[s].block)

LEMMA BehindFacts ==
  ASSUME TypeInv, NEW s \in Services
  PROVE  /\ tip \in Nat /\ 1 <= tip /\ tip <= MaxTip
         /\ svc[s].tip \in Nat /\ svc[s].end \in Nat /\ svc[s].tip - 1 = Ceiling(s)
         /\ cursors[s].block \in Int /\ cursors[s].block >= -1
         /\ \A f \in svc[s].found \cup svc[s].todo : f.block \in Nat
<1>1. tip \in Heights \ {0} /\ svc[s] \in TickLocals /\ cursors[s] \in Cursors
  BY DEF TypeInv, TypeOK, ChainTypeOK, Cursors
<1>2. QED BY <1>1, ChainAssumption DEF Heights, TickLocals, Cursors, Sightings, Ceiling

\* A scan plan begins at or below the tip.
LEMMA PlanIsLow ==
  ASSUME TypeInv, BehindInv, NEW low \in ScanPlan, \A h \in ScanPlan : low <= h
  PROVE  low <= tip /\ low \in Nat
<1>1. PICK i \in WatchedInvoices : low \in PlanOf(i)
  BY DEF ScanPlan
<1>2. i \in Invoices /\ invoices[i].created \in Heights
  BY <1>1 DEF WatchedInvoices, TypeInv, TypeOK, LedgerTypeOK, InvoiceRows
<1> DEFINE paid == {payments[t].block : t \in OpenPayments(i)}
<1>3. \A b \in paid \cup {invoices[i].created} : b \in Heights /\ b <= tip
  <2>1. \A t \in OpenPayments(i) : t \in Txs /\ payments[t].block \in Heights
    BY DEF OpenPayments, PaymentsOf, TypeInv, TypeOK, LedgerTypeOK, PaymentRows
  <2>2. QED BY <1>2, <2>1 DEF BehindInv
<1>4. PICK b \in paid \cup {invoices[i].created} : b <= low /\ b \in PlanOf(i)
  <2>1. CASE Live(i)
    <3>1. PICK b \in paid \cup {invoices[i].created} : b <= low
      BY <1>1, <2>1 DEF PlanOf
    <3>2. b \in PlanOf(i)
      BY <1>3, <2>1, <3>1, ChainAssumption DEF PlanOf, Heights
    <3>3. QED BY <3>1, <3>2
  <2>2. CASE ~Live(i)
    <3>1. PICK b \in paid : b <= low
      BY <1>1, <2>2 DEF PlanOf
    <3>2. b \in Heights /\ b <= b /\ b <= b + FINAL_CONFIRMATIONS + 1
      BY <1>3, ChainAssumption, LedgerAssumption DEF Heights
    <3>3. b \in PlanOf(i)
      BY <2>2, <3>2 DEF PlanOf
    <3>4. QED BY <3>1, <3>3
  <2>3. QED BY <2>1, <2>2
<1>5. b \in ScanPlan /\ low \in Heights
  BY <1>1, <1>4 DEF ScanPlan, PlanOf
<1>6. QED BY <1>3, <1>4, <1>5, ChainAssumption DEF Heights

LEMMA ChunkLogsBelow ==
  ASSUME TypeInv, NEW s \in Services, NEW end \in Heights, NEW f \in ChunkLogs(s, end)
  PROVE  /\ f.block \in cursors[s].block + 1 .. end
         /\ f.block = minedAt[f.tx] /\ f.tx \in Txs
  BY DEF ChunkLogs, SightingsOf, Payable

LEMMA OpeningBehind ==
  ASSUME TypeInv, BehindInv, NEW s \in Services, Opening(s)
  PROVE  Behind(svc'[s], cursors'[s].block)
<1>1. svc \in [Services -> TickLocals] /\ svc[s] \in TickLocals
  BY DEF TypeInv, TypeOK
<1>2. Behind(svc[s], cursors[s].block)
  BY DEF BehindInv
<1>3. CASE LoadWatched(s)
  BY <1>1, <1>2, <1>3 DEF LoadWatched, Behind, TickLocals
<1>4. CASE ReadTip(s)
  BY <1>1, <1>2, <1>4, BehindFacts DEF ReadTip, Behind, TickLocals
<1>5. CASE Resume(s)
  <2>1. cursors'[s].block < tip
    <3>1. CASE cursors'[s] = cursors[s]
      BY <1>2, <3>1 DEF Behind
    <3>2. CASE cursors'[s].block = Ceiling(s)
      BY <1>2, <3>2, BehindFacts DEF Behind
    <3>3. ASSUME NEW low \in ScanPlan, \A h \in ScanPlan : low <= h,
                 cursors'[s].block = IF low = 0 THEN 0 ELSE low - 1
          PROVE  cursors'[s].block < tip
      <4>1. low <= tip /\ low \in Nat
        BY <3>3, PlanIsLow
      <4>2. QED BY <3>3, <4>1, BehindFacts
    <3>4. QED BY <1>5, <3>1, <3>2, <3>3, ResumeStep
  <2>2. svc'[s] = [svc[s] EXCEPT !.pc = "fork", !.plan = ScanPlan]
    BY <1>5, ResumeStep
  <2>3. QED BY <1>1, <1>2, <2>1, <2>2 DEF Behind, TickLocals
<1>6. CASE DetectFork(s)
  BY <1>1, <1>2, <1>6 DEF DetectFork, Behind, TickLocals
<1>7. QED BY <1>3, <1>4, <1>5, <1>6 DEF Opening

LEMMA WalkingBehind ==
  ASSUME TypeInv, CalmInv, BehindInv, NEW s \in Services, Walking(s)
  PROVE  Behind(svc'[s], cursors'[s].block)
<1>1. svc[s] \in TickLocals
  BY DEF TypeInv, TypeOK
<1>2. Behind(svc[s], cursors[s].block) /\ Ceiling(s) < tip
  BY BehindFacts DEF BehindInv, Behind
<1>3. CASE SkipDeadSpace(s) \/ JumpGap(s)
  <2>1. PICK to \in Heights \cup {-1}, step \in {"chunk", "refresh"} :
           /\ to <= Ceiling(s) /\ svc'[s] = [svc[s] EXCEPT !.pc = step] /\ Jumped(s, to)
    BY <1>3, JumpSteps
  <2>2. to < tip
    BY <1>2, <2>1, BehindFacts, ChainAssumption DEF Heights
  <2>3. cursors'[s].block < tip
    BY <1>2, <2>1, <2>2 DEF Jumped, Behind
  <2>4. QED BY <1>1, <1>2, <2>1, <2>3 DEF Behind, TickLocals
<1>4. CASE FetchChunk(s)
  <2>1. PICK end \in Heights, rangeEnd \in Heights : Chunked(s, end, rangeEnd)
    BY <1>4, ChunkStep
  <2>2. end < tip
    BY <1>2, <2>1, BehindFacts, ChainAssumption DEF Chunked, Heights
  <2>3. \A f \in ChunkLogs(s, end) : f.block <= tip
    BY <2>2, ChunkLogsBelow, BehindFacts, ChainAssumption DEF Heights
  <2>4. /\ svc'[s].end = end /\ svc'[s].found = ChunkLogs(s, end) /\ svc'[s].todo = svc[s].todo
        /\ svc'[s].tip = svc[s].tip /\ cursors' = cursors
    BY <1>1, <2>1 DEF Chunked, TickLocals
  <2>5. QED BY <1>2, <2>2, <2>3, <2>4 DEF Behind
<1>5. CASE GetBlock(s)
  <2>1. PICK m \in Heights : Fetched(s, m)
    BY <1>5, BlockStep
  <2>2. svc[s].end > cursors[s].block
    BY <2>1, TickFacts DEF Fetched, LocalsOK, Applying
  <2>3. m <= tip
    BY <1>2, <2>1, <2>2, BehindFacts DEF Behind, Fetched
  <2>4. \A f \in SightingsOf(Payable(s, {"native"}, m), m) : f.block <= tip
    BY <2>3 DEF SightingsOf
  <2>5. /\ svc'[s].end = svc[s].end /\ svc'[s].tip = svc[s].tip /\ cursors' = cursors
        /\ svc'[s].todo = SightingsOf(Payable(s, {"native"}, m), m)
                            \cup {f \in svc[s].found : f.block = m /\ f.hash = 0}
        /\ svc'[s].found = {f \in svc[s].found : f.block # m}
    BY <1>1, <2>1 DEF Fetched, TickLocals
  <2>6. QED BY <1>2, <2>4, <2>5 DEF Behind
<1>6. CASE GetAnchor(s)
  <2>1. /\ UNCHANGED cursors
        /\ svc'[s] = [svc[s] EXCEPT !.pc = "apply", !.anchor = 0,
                         !.todo = svc[s].found, !.found = {}]
    BY <1>6, AnchorStep
  <2>2. QED BY <1>1, <1>2, <2>1 DEF Behind, TickLocals
<1>7. CASE Apply(s)
  <2>1. PICK f \in svc[s].todo : Applied(s, f)
    BY <1>7, ApplyStep
  <2>2. QED BY <1>1, <1>2, <2>1 DEF Applied, Behind, TickLocals
<1>8. CASE Advance(s)
  <2>1. PICK m \in Heights, used \in Nat, step \in {"block", "chunk", "refresh", "gap"} :
          Advanced(s, m, used, step)
    BY <1>8, AdvanceStep
  <2>2. m < tip
    BY <1>2, <2>1, BehindFacts, ChainAssumption DEF Advanced, Behind, Heights
  <2>3. QED BY <1>1, <1>2, <2>1, <2>2 DEF Advanced, Behind, TickLocals
<1>9. QED BY <1>3, <1>4, <1>5, <1>6, <1>7, <1>8 DEF Walking

LEMMA BehindTick ==
  ASSUME TypeInv, CalmInv, BehindInv, NEW s \in Services, TickStep(s)
  PROVE  BehindInv'
<1>1. svc[s] \in TickLocals /\ Behind(svc[s], cursors[s].block)
  BY DEF TypeInv, TypeOK, BehindInv
<1>2. Behind(svc'[s], cursors'[s].block)
  <2>1. CASE Opening(s)
    BY <2>1, OpeningBehind
  <2>2. CASE Walking(s)
    BY <2>2, WalkingBehind
  <2>3. CASE Refreshing(s)
    <3>1. /\ svc'[s].tip = svc[s].tip /\ svc'[s].found = svc[s].found /\ svc'[s].todo = svc[s].todo
          /\ svc'[s].end \in {svc[s].end, 0} /\ cursors' = cursors
      BY <2>3, RefreshingSteps
    <3>2. QED BY <1>1, <3>1, BehindFacts DEF Behind
  <2>4. CASE Totalling(s)
    <3>1. /\ svc'[s].tip = svc[s].tip /\ svc'[s].found = svc[s].found /\ svc'[s].todo = svc[s].todo
          /\ svc'[s].end = svc[s].end /\ cursors' = cursors
      BY <2>4, TotallingSteps
    <3>2. QED BY <1>1, <3>1 DEF Behind
  <2>5. CASE EndTick(s)
    BY <1>1, <2>5, BehindFacts DEF EndTick, Idle, Behind, TypeInv, TypeOK
  <2>6. QED BY <2>1, <2>2, <2>3, <2>4, <2>5, CalmSteps
<1>3. UNCHANGED <<tip, minedAt>>
  BY ScanOthers DEF chainVars
<1>4. ASSUME NEW u \in Services PROVE Behind(svc[u], cursors[u].block)'
  <2>1. Behind(svc'[u], cursors'[u].block)
    BY <1>2, ScanOthers DEF BehindInv
  <2>2. QED BY <1>3, <2>1 DEF Behind
<1>5. ASSUME NEW i \in Invoices
      PROVE  invoices'[i].created <= tip /\ (Registered(i) => invoices'[i].created = invoices[i].created)
  <2>1. tip <= tip
    BY BehindFacts
  <2>2. QED BY <2>1, InvoiceFields DEF Next, BehindInv
<1>6. \A t \in Txs : payments'[t].block <= tip
  BY <1>1, RowBlocks DEF BehindInv, Behind
<1>7. \A t \in Txs : InvoiceOf[t] \in Invoices
  BY LedgerAssumption
<1>8. QED BY <1>3, <1>4, <1>5, <1>6, <1>7 DEF BehindInv, Registered

LEMMA BehindNext ==
  ASSUME TypeInv, CalmInv, BehindInv, [Next]_vars, reorgs' = 0
  PROVE  BehindInv'
<1>1. CASE Outside
  <2>1. tip' \in Nat /\ tip \in Nat /\ tip <= tip'
    <3>1. CASE GrowChain
      BY <3>1, ChainAssumption DEF GrowChain, MineBlock, TypeInv, TypeOK, ChainTypeOK, Heights
    <3>2. CASE ~GrowChain
      BY <1>1, <3>2, OutsideSteps, ChainAssumption DEF Outside, AbortTick, CreateInvoice,
            ExpireInvoice, vars, chainVars, TypeInv, TypeOK, ChainTypeOK, Heights
    <3>3. QED BY <3>1, <3>2
  <2>2. ASSUME NEW u \in Services PROVE Behind(svc[u], cursors[u].block)'
    <3>1. Behind(svc[u], cursors[u].block)
      BY DEF BehindInv
    <3>2. UNCHANGED cursors /\ svc'[u] \in {svc[u], Idle}
      BY <1>1, OutsideSteps
    <3>3. CASE svc'[u] = svc[u]
      BY <2>1, <3>1, <3>2, <3>3, BehindFacts DEF Behind
    <3>4. CASE svc'[u] = Idle
      BY <2>1, <3>1, <3>2, <3>4, BehindFacts DEF Behind, Idle
    <3>5. QED BY <3>2, <3>3, <3>4
  <2>3. \A i \in Invoices : invoices[i].created \in Nat /\ invoices[i].created <= tip
    BY ChainAssumption DEF BehindInv, TypeInv, TypeOK, LedgerTypeOK, InvoiceRows, Heights
  <2>4. ASSUME NEW i \in Invoices
        PROVE  invoices'[i].created <= tip' /\ (Registered(i) => invoices'[i].created = invoices[i].created)
    BY <2>1, <2>3, InvoiceFields DEF Next
  <2>5. ASSUME NEW t \in Txs PROVE payments'[t].block <= tip'
    <3>1. payments[t].block \in Nat /\ payments[t].block <= tip
      BY ChainAssumption DEF BehindInv, TypeInv, TypeOK, LedgerTypeOK, PaymentRows, Heights
    <3>2. QED BY <1>1, <2>1, <3>1, OutsideSteps
  <2>6. ASSUME NEW t \in Txs
        PROVE  /\ minedAt'[t] <= tip'
               /\ minedAt'[t] # Unmined =>
                    /\ Registered(InvoiceOf[t])'
                    /\ invoices'[InvoiceOf[t]].created < minedAt'[t]
    <3>1. /\ minedAt[t] \in Nat /\ minedAt[t] <= tip
          /\ minedAt[t] # Unmined => /\ Registered(InvoiceOf[t])
                                     /\ invoices[InvoiceOf[t]].created < minedAt[t]
      BY ChainAssumption DEF BehindInv, TypeInv, TypeOK, ChainTypeOK, Heights
    <3>2. InvoiceOf[t] \in Invoices
      BY LedgerAssumption
    <3>3. \/ minedAt'[t] = minedAt[t]
          \/ /\ GrowChain /\ minedAt'[t] = tip + 1 /\ tip' = tip + 1
             /\ Registered(InvoiceOf[t]) /\ UNCHANGED invoices
      <4>1. CASE GrowChain
        BY <4>1 DEF GrowChain, MineBlock, PayableTxs, ledgerVars
      <4>2. CASE ~GrowChain
        BY <1>1, <4>2, OutsideSteps DEF Outside, AbortTick, CreateInvoice, ExpireInvoice, vars, chainVars
      <4>3. QED BY <4>1, <4>2
    <3>4. CASE minedAt'[t] = minedAt[t]
      BY <2>1, <2>4, <3>1, <3>2, <3>4 DEF Registered
    <3>5. CASE minedAt'[t] = tip + 1 /\ tip' = tip + 1 /\ Registered(InvoiceOf[t]) /\ UNCHANGED invoices
      BY <2>1, <2>3, <3>2, <3>5 DEF Registered
    <3>6. QED BY <3>3, <3>4, <3>5
  <2>7. QED BY <2>2, <2>4, <2>5, <2>6 DEF BehindInv
<1>2. CASE \E s \in Services : TickStep(s)
  BY <1>2, BehindTick
<1>3. QED BY <1>1, <1>2 DEF Next, Outside

-----------------------------------------------------------------------------
(***************************************************************************)
(* An invoice that stopped waiting for money does not wait again.  Without *)
(* orphaned payments what was credited stays credited, and with a single   *)
(* service a total is written as it was read.                              *)
(***************************************************************************)
PaidInv ==
  /\ \A s \in Services : At(s, "total") => svc[s].sum = Value[Credited(InvoiceOf[svc[s].tx])]
  /\ \A i \in Invoices : Settled(invoices[i].status) => Requested[i] <= Value[Credited(i)]

LEMMA CreditedGrows ==
  ASSUME TypeInv, CalmInv, CalmInv', [Next]_vars, NEW i
  PROVE  /\ Value[Credited(i)] \in Nat /\ Value[Credited(i)'] \in Nat
         /\ Value[Credited(i)] <= Value[Credited(i)']
<1>1. Credited(i) = EverRecorded(i) /\ Credited(i)' = EverRecorded(i)'
  BY DEF CalmInv, Credited, EverRecorded, PaymentsOf
<1>2. QED BY <1>1, RecordedGrows, ValueGrows

LEMMA SavedStatus ==
  ASSUME TypeInv, NEW s \in Services, SaveTotal(s), NEW i, i = InvoiceOf[svc[s].tx]
  PROVE  /\ i \in Invoices /\ invoices[i].status \in InvoiceStatuses
         /\ \/ invoices'[i].status = invoices[i].status
            \/ /\ invoices[i].status # "expired"
               /\ invoices'[i].status = StatusFor(i, svc[s].sum)
<1>1. svc[s].tx \in Txs
  BY TickFacts DEF SaveTotal, At, LocalsOK, Handling, Recomputing
<1>2. invoices \in [Invoices -> InvoiceRows] /\ i \in Invoices /\ invoices[i] \in InvoiceRows
  BY <1>1, LedgerAssumption DEF TypeInv, TypeOK, LedgerTypeOK
<1>3. WriteTotal(i, svc[s].sum)
  BY DEF SaveTotal
<1>4. CASE TotalChanges(i, svc[s].sum)
  <2>1. invoices'[i].status = IF invoices[i].status = "expired" THEN invoices[i].status
                              ELSE StatusFor(i, svc[s].sum)
    BY <1>2, <1>3, <1>4 DEF WriteTotal, InvoiceRows
  <2>2. QED BY <1>2, <2>1 DEF InvoiceRows
<1>5. CASE ~TotalChanges(i, svc[s].sum)
  BY <1>2, <1>3, <1>5 DEF WriteTotal, InvoiceRows
<1>6. QED BY <1>4, <1>5

LEMMA PaidNext ==
  ASSUME OneService, TypeInv, CalmInv, CalmInv', PaidInv, [Next]_vars, reorgs' = 0
  PROVE  PaidInv'
<1>1. svc \in [Services -> TickLocals]
  BY DEF TypeInv, TypeOK
<1>2. ASSUME NEW s \in Services, svc'[s].pc = "total"
      PROVE  (svc[s].sum = Value[Credited(InvoiceOf[svc[s].tx])])'
  <2>1. CASE TickStep(s)
    <3>1. ReadTotal(s)
      <4>1. SaveTotal(s) /\ Finishes(InvoiceOf[svc[s].tx], svc[s].sum) => svc'[s].pc = "settled"
        BY <1>1 DEF SaveTotal
      <4>2. QED BY <1>2, <2>1, <4>1, OwnRecord
    <3>2. /\ svc'[s].sum = Value[Credited(InvoiceOf[svc[s].tx])] /\ svc'[s].tx = svc[s].tx
          /\ payments' = payments
      BY <1>1, <3>1 DEF ReadTotal, TickLocals, ledgerVars
    <3>3. QED BY <3>2 DEF Credited, PaymentsOf
  <2>2. CASE Outside
    <3>1. svc'[s] \in {svc[s], Idle} /\ payments' = payments
      BY <2>2, OutsideSteps
    <3>2. svc'[s] = svc[s]
      BY <1>2, <3>1 DEF Idle
    <3>3. QED BY <1>2, <3>1, <3>2 DEF PaidInv, At, Credited, PaymentsOf
  <2>3. QED BY <2>1, <2>2 DEF Next, Outside, OneService
<1>3. ASSUME NEW i \in Invoices, Settled(invoices'[i].status)
      PROVE  (Requested[i] <= Value[Credited(i)])'
  <2>1. /\ Value[Credited(i)] \in Nat /\ Value[Credited(i)'] \in Nat
        /\ Value[Credited(i)] <= Value[Credited(i)'] /\ Requested[i] \in Nat
    BY CreditedGrows, LedgerAssumption
  <2>2. CASE invoices'[i].status = invoices[i].status
    <3>1. Requested[i] <= Value[Credited(i)]
      BY <1>3, <2>2 DEF PaidInv
    <3>2. QED BY <2>1, <3>1
  <2>3. ASSUME NEW s \in Services, SaveTotal(s), i = InvoiceOf[svc[s].tx],
               invoices'[i].status = StatusFor(i, svc[s].sum)
        PROVE  (Requested[i] <= Value[Credited(i)])'
    <3>1. svc[s].sum = Value[Credited(i)]
      BY <2>3 DEF PaidInv, SaveTotal
    <3>2. Requested[i] <= Value[Credited(i)]
      BY <1>3, <2>1, <2>3, <3>1 DEF StatusFor, Settled
    <3>3. QED BY <2>1, <3>2
  <2>4. QED BY <2>2, <2>3, InvoiceSteps, SavedStatus
<1>4. QED BY <1>2, <1>3 DEF PaidInv, At

\* So a registered invoice that waits for money has waited all along.
LEMMA LiveStays ==
  ASSUME TypeInv, PaidInv, [Next]_vars, NEW i \in Invoices, Registered(i), Live(i)'
  PROVE  Live(i)
<1>1. invoices[i].status \in InvoiceStatuses
  BY DEF TypeInv, TypeOK, LedgerTypeOK, InvoiceRows
<1>2. invoices[i].expired \in BOOLEAN /\ ~invoices[i].expired
  BY InvoiceFields DEF Live, TypeInv, TypeOK, LedgerTypeOK, InvoiceRows
<1>3. invoices[i].status \in {"pending", "underpaid"}
  <2>1. CASE invoices'[i].status = invoices[i].status
    BY <2>1 DEF Live
  <2>2. ASSUME NEW s \in Services, SaveTotal(s), i = InvoiceOf[svc[s].tx],
               invoices[i].status # "expired", invoices'[i].status = StatusFor(i, svc[s].sum)
        PROVE  ~Settled(invoices[i].status)
    <3>1. svc[s].sum = Value[Credited(i)]
      BY <2>2 DEF PaidInv, SaveTotal
    <3>2. ~Settled(StatusFor(i, svc[s].sum))
      BY <2>2 DEF Live, Settled
    <3>3. ~(Requested[i] <= Value[Credited(i)])
      <4>1. Requested[i] \in Nat /\ Value[Credited(i)] \in Nat
        BY LedgerAssumption, CreditedIsBacked
      <4>2. QED BY <3>1, <3>2, <4>1 DEF StatusFor, Settled
    <3>4. QED BY <3>3 DEF PaidInv
  <2>3. QED BY <1>1, <2>1, <2>2, InvoiceSteps, SavedStatus DEF InvoiceStatuses, Settled
<1>4. QED BY <1>2, <1>3 DEF Live

-----------------------------------------------------------------------------
(***************************************************************************)
(* What a tick watches and plans to scan.  Both are read once, and stay    *)
(* good for the tick: an invoice it watches is covered from created_block  *)
(* on as long as it waits for money.                                       *)
(***************************************************************************)
Planning(r) == r.pc \in {"fork", "skip", "chunk", "gap"} \/ Applying(r)
FromCreation(i) == {h \in Heights : invoices[i].created <= h}
Interest(r) ==
  /\ r.pc # "idle" => /\ \A i \in r.watched : Registered(i)
                      /\ \A i \in Existing : Live(i) => i \in r.watched
  /\ Planning(r) => \A i \in r.watched : Live(i) => FromCreation(i) \subseteq r.plan
InterestInv ==
  /\ \A i \in Existing : Registered(i)
  /\ \A s \in Services : Interest(svc[s])

LEMMA TickKeepsInterest ==
  ASSUME TypeInv, CalmInv, NEW s \in Services, TickStep(s), svc'[s].pc # "idle"
  PROVE  \/ LoadWatched(s)
         \/ /\ svc[s].pc # "idle" /\ svc'[s].watched = svc[s].watched
            /\ Planning(svc'[s]) => \/ Resume(s)
                                    \/ Planning(svc[s]) /\ svc'[s].plan = svc[s].plan
<1>1. svc \in [Services -> TickLocals] /\ svc[s] \in TickLocals
  BY DEF TypeInv, TypeOK
<1>2. CASE ReadTip(s)
  BY <1>1, <1>2 DEF ReadTip, At, Planning, Applying, Recomputing, TickLocals
<1>3. CASE Resume(s)
  <2>1. /\ svc'[s] = [svc[s] EXCEPT !.pc = "fork", !.plan = ScanPlan]
        /\ svc[s].pc = "resume"
    BY <1>3, ResumeStep
  <2>2. QED BY <1>1, <1>3, <2>1 DEF TickLocals
<1>4. CASE DetectFork(s)
  <2>1. svc[s].pc = "fork" /\ svc'[s].watched = svc[s].watched /\ svc'[s].plan = svc[s].plan
    BY <1>1, <1>4 DEF DetectFork, At, TickLocals
  <2>2. QED BY <2>1 DEF Planning
<1>5. CASE SkipDeadSpace(s) \/ JumpGap(s)
  <2>1. PICK to \in Heights \cup {-1}, step \in {"chunk", "refresh"} :
           svc'[s] = [svc[s] EXCEPT !.pc = step]
    BY <1>5, JumpSteps
  <2>2. svc[s].pc \in {"skip", "gap"}
    BY <1>5 DEF SkipDeadSpace, JumpGap, At
  <2>3. QED BY <1>1, <2>1, <2>2 DEF Planning, TickLocals
<1>6. CASE FetchChunk(s)
  <2>1. PICK end \in Heights, rangeEnd \in Heights : Chunked(s, end, rangeEnd)
    BY <1>6, ChunkStep
  <2>2. QED BY <1>1, <2>1 DEF Chunked, Planning, TickLocals
<1>7. CASE GetBlock(s)
  <2>1. PICK m \in Heights : Fetched(s, m)
    BY <1>7, BlockStep
  <2>2. QED BY <1>1, <2>1 DEF Fetched, Planning, Applying, TickLocals
<1>8. CASE GetAnchor(s)
  <2>1. /\ svc'[s] = [svc[s] EXCEPT !.pc = "apply", !.anchor = 0,
                         !.todo = svc[s].found, !.found = {}]
        /\ svc[s].pc = "block"
    BY <1>8, AnchorStep
  <2>2. QED BY <1>1, <2>1 DEF Planning, Applying, TickLocals
<1>9. CASE Apply(s)
  <2>1. PICK f \in svc[s].todo : Applied(s, f)
    BY <1>9, ApplyStep
  <2>2. QED BY <1>1, <2>1 DEF Applied, Planning, Applying, TickLocals
<1>10. CASE Advance(s)
  <2>1. PICK m \in Heights, used \in Nat, step \in {"block", "chunk", "refresh", "gap"} :
          Advanced(s, m, used, step)
    BY <1>10, AdvanceStep
  <2>2. QED BY <1>1, <2>1 DEF Advanced, Planning, Applying, TickLocals
<1>11. CASE Refreshing(s)
  <2>1. /\ svc'[s].pc \in {"refresh", "select", "promote", "confirmed", "finalize",
                          "finalized", "sum"}
        /\ svc'[s].pc = "sum" => svc'[s].ret = "promote"
        /\ svc'[s].watched = svc[s].watched /\ svc[s].pc # "idle"
    BY <1>11, RefreshingSteps
  <2>2. QED BY <2>1 DEF Planning, Applying, Recomputing
<1>12. CASE Totalling(s)
  <2>1. /\ Recomputing(svc[s]) /\ svc'[s].watched = svc[s].watched
        /\ svc'[s].plan = svc[s].plan
        /\ \/ svc'[s].pc \in {"total", "settled"} /\ svc'[s].ret = svc[s].ret
           \/ svc'[s].pc = svc[s].ret /\ svc'[s].ret = "idle"
    BY <1>12, TotallingSteps
  <2>2. svc[s].ret \in {"apply", "promote"}
    BY <2>1, TickFacts DEF LocalsOK, CalmInv, Calm
  <2>3. QED BY <2>1, <2>2 DEF Planning, Applying, Recomputing
<1>13. ~EndTick(s)
  BY <1>1 DEF EndTick, Idle
<1>14. QED BY <1>2, <1>3, <1>4, <1>5, <1>6, <1>7, <1>8, <1>9, <1>10, <1>11, <1>12, <1>13, CalmSteps
           DEF Opening, Walking

LEMMA InterestNext ==
  ASSUME OneService, TypeInv, CalmInv, PaidInv, InterestInv, [Next]_vars, reorgs' = 0
  PROVE  InterestInv'
<1>1. svc \in [Services -> TickLocals]
  BY DEF TypeInv, TypeOK
<1>2. ASSUME NEW i \in Invoices, Registered(i)
      PROVE  Registered(i)' /\ FromCreation(i)' = FromCreation(i) /\ (Live(i)' => Live(i))
  BY <1>2, InvoiceFields, LiveStays DEF Registered, FromCreation
<1>3. Existing \subseteq Invoices
  BY LedgerAssumption
<1>4. ASSUME NEW s \in Services, svc'[s] = svc[s]
      PROVE  Interest(svc[s])'
  <2>1. svc[s].watched \subseteq Invoices /\ Interest(svc[s]) /\ \A i \in Existing : Registered(i)
    BY <1>1 DEF TickLocals, InterestInv
  <2>2. Planning(svc[s])' => Planning(svc[s])
    BY <1>4 DEF Planning, Applying, Recomputing
  <2>3. (svc[s].pc # "idle" =>
           /\ \A i \in svc[s].watched : Registered(i)
           /\ \A i \in Existing : Live(i) => i \in svc[s].watched)'
    BY <1>2, <1>3, <1>4, <2>1 DEF Interest
  <2>4. ASSUME Planning(svc[s])', NEW i \in svc'[s].watched, Live(i)'
        PROVE  FromCreation(i)' \subseteq svc'[s].plan
    <3>1. i \in Invoices /\ Registered(i)
      BY <1>4, <2>1, <2>2, <2>4 DEF Interest, Planning, Applying, Recomputing
    <3>2. QED BY <1>2, <1>4, <2>1, <2>2, <2>4, <3>1 DEF Interest
  <2>5. (Planning(svc[s]) => \A i \in svc[s].watched : Live(i) => FromCreation(i) \subseteq svc[s].plan)'
    BY <2>4
  <2>6. QED BY <2>3, <2>5 DEF Interest
<1>5. ASSUME NEW s \in Services, TickStep(s), svc'[s].pc # "idle"
      PROVE  Interest(svc[s])'
  <2>1. svc[s].watched \subseteq Invoices /\ Interest(svc[s]) /\ \A i \in Existing : Registered(i)
    BY <1>1 DEF TickLocals, InterestInv
  <2>2. CASE LoadWatched(s)
    <3>1. /\ svc'[s].pc = "tip" /\ svc'[s].watched = WatchedInvoices
          /\ UNCHANGED <<invoices, payments>>
      BY <1>1, <2>2 DEF LoadWatched, TickLocals, ledgerVars
    <3>2. ~Planning(svc'[s])
      BY <3>1 DEF Planning, Applying, Recomputing
    <3>3. \A i \in svc'[s].watched : Registered(i)
      BY <3>1 DEF WatchedInvoices
    <3>4. \A i \in Existing : Live(i) => i \in svc'[s].watched
      BY <1>3, <2>1, <3>1 DEF WatchedInvoices
    <3>5. \A i \in Invoices : Registered(i)' = Registered(i) /\ Live(i)' = Live(i)
      BY <3>1 DEF Registered, Live
    <3>6. Planning(svc[s])' = FALSE
      BY <3>2 DEF Planning, Applying, Recomputing
    <3>7. \A i \in svc'[s].watched : i \in Invoices
      BY <3>1 DEF WatchedInvoices
    <3>8. QED BY <1>3, <3>3, <3>4, <3>5, <3>6, <3>7 DEF Interest
  <2>3. CASE Resume(s)
    <3>1. /\ svc'[s].watched = svc[s].watched /\ svc'[s].plan = ScanPlan
          /\ UNCHANGED <<invoices, payments>> /\ svc[s].pc = "resume"
      <4>1. svc'[s] = [svc[s] EXCEPT !.pc = "fork", !.plan = ScanPlan]
        BY <2>3, ResumeStep
      <4>2. UNCHANGED ledgerVars /\ svc[s].pc = "resume"
        BY <2>3, ResumeStep
      <4>3. QED BY <1>1, <4>1, <4>2 DEF TickLocals, ledgerVars
    <3>2. ASSUME NEW i \in svc[s].watched, Live(i)
          PROVE  FromCreation(i) \subseteq ScanPlan
      <4>1. i \in WatchedInvoices
        BY <2>1, <3>2 DEF WatchedInvoices, Live
      <4>2. FromCreation(i) \subseteq PlanOf(i)
        BY <3>2 DEF FromCreation, PlanOf
      <4>3. QED BY <4>1, <4>2 DEF ScanPlan
    <3>3. QED BY <2>1, <3>1, <3>2 DEF Interest, Registered, Live, FromCreation
  <2>4. CASE /\ svc[s].pc # "idle" /\ svc'[s].watched = svc[s].watched
             /\ Planning(svc'[s]) => Planning(svc[s]) /\ svc'[s].plan = svc[s].plan
    <3>1. Planning(svc[s])' => Planning(svc'[s])
      BY DEF Planning, Applying, Recomputing
    <3>2. QED BY <1>2, <1>3, <2>1, <2>4, <3>1 DEF Interest
  <2>5. QED BY <1>5, <2>2, <2>3, <2>4, TickKeepsInterest
<1>6. ASSUME NEW s \in Services, svc'[s].pc = "idle"
      PROVE  Interest(svc[s])'
  BY <1>6 DEF Interest, Planning, Applying, Recomputing
<1>7. \A s \in Services : svc'[s] \in {svc[s], Idle} \/ TickStep(s)
  BY OutsideSteps DEF Next, Outside, OneService
<1>8. ASSUME NEW s \in Services PROVE Interest(svc[s])'
  <2>1. Idle.pc = "idle"
    BY DEF Idle
  <2>2. QED BY <1>4, <1>5, <1>6, <1>7, <2>1
<1>9. QED BY <1>2, <1>3, <1>8 DEF InterestInv

-----------------------------------------------------------------------------
ScanInv == CalmInv /\ BehindInv /\ PaidInv /\ InterestInv

LEMMA ScanInit == Init => ScanInv
<1> SUFFICES ASSUME Init PROVE ScanInv
  OBVIOUS
<1>1. CalmInv
  BY DEF Init, ChainInit, LedgerInit, NoPayment, NoCursor, Idle, CalmInv, Calm, OnChain
<1>2. BehindInv
  BY DEF Init, ChainInit, LedgerInit, NoPayment, NoCursor, Idle, BehindInv, Behind, Unmined
<1>3. PaidInv
  BY DEF Init, LedgerInit, Idle, PaidInv, At, Settled
<1>4. InterestInv
  BY LedgerAssumption DEF Init, ChainInit, LedgerInit, Idle, InterestInv, Interest, Planning,
        Applying, Recomputing, Registered, Unmined
<1>5. QED BY <1>1, <1>2, <1>3, <1>4 DEF ScanInv

LEMMA ReorgsStay == TypeInv /\ [Next]_vars /\ reorgs' = 0 => reorgs = 0
<1> SUFFICES ASSUME TypeInv, [Next]_vars, reorgs' = 0 PROVE reorgs = 0
  OBVIOUS
<1>1. CASE Outside
  BY <1>1, OutsideSteps DEF Outside, AbortTick, GrowChain, MineBlock, CreateInvoice,
        ExpireInvoice, vars, chainVars
<1>2. CASE \E s \in Services : TickStep(s)
  BY <1>2, ScanOthers DEF chainVars
<1>3. QED BY <1>1, <1>2 DEF Next, Outside

LEMMA ScanNext ==
  ASSUME OneService, TypeInv, ScanInv, [Next]_vars, reorgs' = 0
  PROVE  ScanInv'
<1>1. CalmInv /\ BehindInv /\ PaidInv /\ InterestInv
  BY DEF ScanInv
<1>2. CalmInv'
  BY <1>1, CalmNext
<1>3. QED BY <1>1, <1>2, BehindNext, PaidNext, InterestNext DEF ScanInv

LEMMA ScanInvariant ==
  ASSUME OneService
  PROVE  Spec => [](TypeInv /\ (reorgs = 0 => ScanInv))
<1>1. TypeInv /\ (reorgs = 0 => ScanInv) /\ [Next]_vars => (reorgs = 0 => ScanInv)'
  BY ScanNext, ReorgsStay
<1>2. QED BY <1>1, ScanInit, TypeInvariant, PTL DEF Spec

\* The plan of a tick covers where a payment it waits for is mined.
LEMMA PlanCovers ==
  ASSUME TypeInv, ScanInv, NEW s \in Services, NEW t \in Txs, minedAt[t] # Unmined,
         Planning(svc[s]), InvoiceOf[t] \in svc[s].watched, Live(InvoiceOf[t])
  PROVE  minedAt[t] \in svc[s].plan
<1>1. InvoiceOf[t] \in Invoices /\ minedAt[t] \in Heights
  BY LedgerAssumption DEF TypeInv, TypeOK, ChainTypeOK
<1>2. invoices[InvoiceOf[t]].created < minedAt[t] /\ invoices[InvoiceOf[t]].created \in Nat
  BY <1>1, ChainAssumption
     DEF ScanInv, BehindInv, TypeInv, TypeOK, LedgerTypeOK, InvoiceRows, Heights
<1>3. FromCreation(InvoiceOf[t]) \subseteq svc[s].plan
  BY DEF ScanInv, InterestInv, Interest
<1>4. minedAt[t] \in FromCreation(InvoiceOf[t])
  BY <1>1, <1>2, ChainAssumption DEF FromCreation, Heights
<1>5. QED BY <1>3, <1>4

\* The step of SkipsOnlyDeadSpace.
Missed(s, t) ==
  /\ s = ServiceOf(t)
  /\ At(s, "skip") \/ At(s, "gap")
  /\ minedAt[t] # Unmined
  /\ cursors[s].block < minedAt[t] /\ minedAt[t] <= cursors'[s].block
  /\ InvoiceOf[t] \in svc[s].watched
  /\ Live(InvoiceOf[t])
MissesNothing ==
  \A s \in Services, t \in Txs : Missed(s, t) => payments[t].status \notin {"absent", "orphaned"}

LEMMA NothingMissed ==
  ASSUME TypeInv, ScanInv, [Next]_vars, NEW s \in Services, NEW t \in Txs, Missed(s, t), reorgs' = 0
  PROVE  FALSE
<1>1. /\ minedAt[t] \in Heights /\ cursors[s] \in Cursors
      /\ svc[s].plan \subseteq Heights
  BY TickFacts DEF TypeInv, TypeOK, ChainTypeOK, TickLocals
<1>2. cursors'[s] # cursors[s]
  BY <1>1, ChainAssumption DEF Missed, Cursors, Heights
<1>3. ~Outside
  BY <1>2, OutsideSteps
<1>4. TickStep(s)
  BY <1>2, <1>3, ScanOthers DEF Next, Outside
<1>5. SkipDeadSpace(s) \/ JumpGap(s)
  <2>1. svc[s].pc \in {"skip", "gap"}
    BY DEF Missed, At
  <2>2. UNCHANGED cursors \/ Resume(s) \/ Rewind(s) \/ SkipDeadSpace(s) \/ Advance(s) \/ JumpGap(s)
    BY <1>4 DEF TickStep, LoadWatched, ReadTip, DetectFork, SelectAffected, LocateTx,
        ReorgReset, ReorgOrphan, FetchChunk, StopScanning, GetBlock, GetAnchor,
        Apply, Recount, SelectOpen, PromoteNext, NotifyConfirmed, Finalize,
        NotifyFinalized, EndTick, ReadTotal, SaveTotal, NotifySettled
  <2>3. ~Resume(s) /\ ~Rewind(s) /\ ~Advance(s)
    BY <2>1 DEF Resume, Rewind, Advance, At
  <2>4. QED BY <1>2, <2>2, <2>3
<1>6. PICK to \in Heights \cup {-1}, step \in {"chunk", "refresh"} :
        /\ \A h \in svc[s].plan : h > cursors[s].block => to < h
        /\ Jumped(s, to)
  BY <1>5, JumpSteps
<1>7. cursors'[s].block = to
  BY <1>2, <1>6 DEF Jumped
<1>8. minedAt[t] \in svc[s].plan
  BY PlanCovers DEF Missed, At, Planning
<1>9. QED
  BY <1>1, <1>6, <1>7, <1>8, ChainAssumption DEF Missed, Cursors, Heights

\* With one service, and up to the first reorganisation, the cursor is never
\* moved over a block that pays an invoice which the tick watches and which
\* still waits for money: the plan read at the start of the tick stays good.
THEOREM NothingIsMissed ==
  ASSUME OneService
  PROVE  Spec => [][reorgs' = 0 => MissesNothing]_vars
<1>1. ASSUME TypeInv, reorgs = 0 => ScanInv, [Next]_vars, reorgs' = 0
      PROVE  MissesNothing
  BY <1>1, NothingMissed, ReorgsStay DEF MissesNothing
<1>2. TypeInv /\ (reorgs = 0 => ScanInv) /\ [Next]_vars => [reorgs' = 0 => MissesNothing]_vars
  BY <1>1
<1>3. QED BY <1>2, ScanInvariant, PTL DEF Spec

\* In particular SkipsOnlyDeadSpace, on a chain that is never reorganised.
THEOREM DeadSpaceIsDead ==
  ASSUME OneService, MaxReorgs = 0
  PROVE  Spec => SkipsOnlyDeadSpace
<1>1. TypeInv /\ [Next]_vars /\ TypeInv' /\ [reorgs' = 0 => MissesNothing]_vars => [MissesNothing]_vars
  BY DEF TypeInv, TypeOK, ChainTypeOK, Hashes
<1>2. [MissesNothing]_vars =>
        [\A s \in Services, t \in Txs :
           /\ s = ServiceOf(t)
           /\ At(s, "skip") \/ At(s, "gap")
           /\ minedAt[t] # Unmined
           /\ cursors[s].block < minedAt[t] /\ minedAt[t] <= cursors'[s].block
           /\ InvoiceOf[t] \in svc[s].watched
           /\ Live(InvoiceOf[t])
           => payments[t].status \notin {"absent", "orphaned"}]_vars
  BY DEF MissesNothing, Missed
<1>3. QED BY <1>1, <1>2, NothingIsMissed, TypeInvariant, PTL DEF Spec, SkipsOnlyDeadSpace

-----------------------------------------------------------------------------
(***************************************************************************)
(* Where a payment is that the cursor has not recorded yet: still above    *)
(* the chunk, or among the sightings of the chunk that are still to be     *)
(* applied.  A native transfer is only sighted when its block is fetched.  *)
(***************************************************************************)
Sight(t) == [tx |-> t, block |-> minedAt[t], hash |-> 0]
InFound(r, t) == Kind[t] = "native" \/ Sight(t) \in r.found
Pending(r, c, t) ==
  /\ r.pc = "block" => InFound(r, t)
  /\ Applying(r) /\ r.pc # "block" =>
       IF ServiceOf(t) = "logs" \/ minedAt[t] = c + 1
       THEN t \in Recorded \/ Sight(t) \in r.todo
       ELSE InFound(r, t)
Tracked(r, c, t) ==
  /\ minedAt[t] <= c => t \in Recorded
  /\ c < minedAt[t] /\ minedAt[t] <= r.end => Pending(r, c, t)
TrackedInv ==
  \A s \in Services, t \in Txs :
    s = ServiceOf(t) /\ minedAt[t] # Unmined /\ Live(InvoiceOf[t]) /\ InvoiceOf[t] \in Existing
      => Tracked(svc[s], cursors[s].block, t)

\* A sighting of a watched invoice in the blocks of a chunk.
LEMMA SightIsPayable ==
  ASSUME TypeInv, ScanInv, NEW s \in Services, NEW t \in Txs, NEW kinds, Kind[t] \in kinds,
         minedAt[t] # Unmined, InvoiceOf[t] \in svc[s].watched
  PROVE  Sight(t) \in SightingsOf(Payable(s, kinds, minedAt[t]), minedAt[t])
<1>1. minedAt[t] \in Heights /\ InvoiceOf[t] \in Invoices
  BY LedgerAssumption DEF TypeInv, TypeOK, ChainTypeOK
<1>2. invoices[InvoiceOf[t]].created <= minedAt[t]
  BY <1>1, ChainAssumption
     DEF ScanInv, BehindInv, TypeInv, TypeOK, LedgerTypeOK, InvoiceRows, Heights
<1>3. t \in Payable(s, kinds, minedAt[t]) /\ hashAt[minedAt[t]] = 0
  BY <1>1, <1>2 DEF Payable, ScanInv, CalmInv
<1>4. QED BY <1>3 DEF SightingsOf, Sight

\* Where no chunk is being applied and the cursor is left alone, there is
\* only what is on record, which stays.
LEMMA TrackedStays ==
  ASSUME NEW s \in Services, NEW t \in Txs, Tracked(svc[s], cursors[s].block, t),
         ~Applying(svc'[s]), cursors'[s].block = cursors[s].block, minedAt'[t] = minedAt[t],
         Recorded \subseteq Recorded'
  PROVE  Tracked(svc[s], cursors[s].block, t)'
  BY DEF Tracked, Pending, Applying

LEMMA OpeningTracked ==
  ASSUME TypeInv, ScanInv, NEW s \in Services, Opening(s), NEW t \in Txs,
         minedAt[t] # Unmined, Live(InvoiceOf[t]), Tracked(svc[s], cursors[s].block, t)
  PROVE  Tracked(svc[s], cursors[s].block, t)'
<1>1. svc \in [Services -> TickLocals] /\ svc[s] \in TickLocals
  BY DEF TypeInv, TypeOK
<1>2. UNCHANGED <<minedAt, payments>> /\ Recorded' = Recorded
  BY OpeningCalm, ScanOthers DEF Opening, TickStep, ScanInv, chainVars, ledgerVars, Recorded
<1>3. CASE LoadWatched(s) \/ ReadTip(s)
  <2>1. svc'[s].pc \in {"tip", "resume"} /\ cursors' = cursors
    BY <1>1, <1>3 DEF LoadWatched, ReadTip, TickLocals
  <2>2. QED BY <1>2, <2>1, TrackedStays DEF Applying, Recomputing
<1>4. CASE DetectFork(s)
  <2>1. svc'[s].pc \in {"unwind", "skip"} /\ cursors' = cursors
    BY <1>1, <1>4 DEF DetectFork, TickLocals
  <2>2. QED BY <1>2, <2>1, TrackedStays DEF Applying, Recomputing
<1>5. CASE Resume(s)
  <2>1. svc'[s] = [svc[s] EXCEPT !.pc = "fork", !.plan = ScanPlan]
    BY <1>5, ResumeStep
  <2>2. ~Applying(svc'[s])
    BY <1>1, <2>1 DEF Applying, Recomputing, TickLocals
  <2>3. InvoiceOf[t] \in Invoices /\ minedAt[t] \in Nat
    BY LedgerAssumption, ChainAssumption DEF TypeInv, TypeOK, ChainTypeOK, Heights
  <2>4. /\ invoices[InvoiceOf[t]].created < minedAt[t]
        /\ invoices[InvoiceOf[t]].created \in Heights /\ invoices[InvoiceOf[t]].created \in Nat
    BY <2>3, ChainAssumption
       DEF ScanInv, BehindInv, TypeInv, TypeOK, LedgerTypeOK, InvoiceRows, Heights
  <2>5. invoices[InvoiceOf[t]].created \in ScanPlan
    <3>1. InvoiceOf[t] \in WatchedInvoices
      BY <2>3 DEF WatchedInvoices, Live
    <3>2. invoices[InvoiceOf[t]].created \in PlanOf(InvoiceOf[t])
      BY <2>4 DEF PlanOf
    <3>3. QED BY <3>1, <3>2 DEF ScanPlan
  <2>6. CASE cursors'[s] = cursors[s]
    BY <1>2, <2>2, <2>6, TrackedStays
  <2>7. ASSUME NEW low \in ScanPlan, \A h \in ScanPlan : low <= h,
               cursors'[s].block = IF low = 0 THEN 0 ELSE low - 1
        PROVE  Tracked(svc[s], cursors[s].block, t)'
    <3>1. low \in Nat /\ low <= invoices[InvoiceOf[t]].created
      BY <2>5, <2>7, PlanIsLow DEF ScanInv
    <3>2. cursors'[s].block < minedAt[t]
      BY <2>3, <2>4, <2>7, <3>1 DEF Unmined
    <3>3. cursors'[s].block \in Int
      BY <2>7, <3>1
    <3>4. QED BY <1>2, <2>2, <2>3, <3>2, <3>3 DEF Tracked, Pending, Applying
  <2>8. QED BY <1>5, <2>5, <2>6, <2>7, ResumeStep
<1>6. QED BY <1>3, <1>4, <1>5 DEF Opening

LEMMA WalkingTracked ==
  ASSUME TypeInv, ScanInv, NEW s \in Services, Walking(s), NEW t \in Txs, s = ServiceOf(t),
         minedAt[t] # Unmined, Live(InvoiceOf[t]), Tracked(svc[s], cursors[s].block, t),
         InvoiceOf[t] \in svc[s].watched, Recorded \subseteq Recorded'
  PROVE  Tracked(svc[s], cursors[s].block, t)'
<1>1. /\ svc[s] \in TickLocals /\ cursors[s].block \in Int /\ svc[s].end \in Nat
      /\ minedAt[t] \in Heights /\ minedAt[t] \in Nat
      /\ Applying(svc[s]) => cursors[s].block < svc[s].end
  BY TickFacts, ChainAssumption
     DEF TypeInv, TypeOK, ChainTypeOK, TickLocals, Cursors, Heights, LocalsOK
<1>2. minedAt' = minedAt /\ CalmInv
  BY ScanOthers DEF Walking, TickStep, chainVars, ScanInv
<1>3. Kind[t] \in IF s = "logs" THEN {"vault"} ELSE {"native", "erc20"}
  BY WatcherAssumption DEF ServiceOf
<1>4. CASE SkipDeadSpace(s) \/ JumpGap(s)
  <2>1. PICK to \in Heights \cup {-1}, step \in {"chunk", "refresh"} :
          /\ \A h \in svc[s].plan : h > cursors[s].block => to < h
          /\ svc'[s] = [svc[s] EXCEPT !.pc = step]
          /\ Jumped(s, to)
    BY <1>4, JumpSteps
  <2>2. ~Applying(svc'[s])
    BY <1>1, <2>1 DEF Applying, Recomputing, TickLocals
  <2>3. CASE cursors'[s] = cursors[s]
    BY <1>2, <2>2, <2>3, TrackedStays
  <2>4. CASE to > cursors[s].block /\ cursors'[s].block = to
    <3>1. minedAt[t] \in svc[s].plan
      <4>1. Planning(svc[s])
        BY <1>4 DEF SkipDeadSpace, JumpGap, At, Planning
      <4>2. QED BY <4>1, PlanCovers
    <3>2. minedAt[t] <= to => minedAt[t] <= cursors[s].block
      BY <1>1, <2>1, <3>1, ChainAssumption DEF Heights
    <3>3. QED BY <1>2, <2>2, <2>4, <3>2 DEF Tracked, Pending, Applying
  <2>5. QED BY <2>1, <2>3, <2>4 DEF Jumped
<1>5. CASE FetchChunk(s)
  <2>1. PICK end \in Heights, rangeEnd \in Heights : Chunked(s, end, rangeEnd)
    BY <1>5, ChunkStep
  <2>2. /\ svc'[s].pc = "block" /\ svc'[s].end = end /\ svc'[s].found = ChunkLogs(s, end)
        /\ cursors' = cursors /\ end \in Nat
    BY <1>1, <2>1, ChainAssumption DEF Chunked, TickLocals, Heights
  <2>3. ASSUME cursors[s].block < minedAt[t], minedAt[t] <= end, Kind[t] # "native"
        PROVE  Sight(t) \in ChunkLogs(s, end)
    <3> DEFINE kinds == IF s = "logs" THEN {"vault"} ELSE {"erc20"}
    <3>1. Kind[t] \in kinds
      BY <1>3, <2>3
    <3> HIDE DEF kinds
    <3>2. Sight(t) \in SightingsOf(Payable(s, kinds, minedAt[t]), minedAt[t])
      BY <3>1, SightIsPayable
    <3>3. minedAt[t] \in cursors[s].block + 1 .. end
      BY <1>1, <2>2, <2>3
    <3>4. QED BY <3>2, <3>3 DEF ChunkLogs, kinds
  <2>4. Sight(t)' = Sight(t)
    BY <1>2 DEF Sight
  <2>5. QED BY <1>2, <2>2, <2>3, <2>4 DEF Tracked, Pending, InFound
<1>6. CASE GetBlock(s)
  <2>1. PICK m \in Heights : Fetched(s, m)
    BY <1>2, <1>6, BlockStep
  <2>2. /\ svc'[s].pc = "apply" /\ svc'[s].end = svc[s].end /\ cursors' = cursors
        /\ svc'[s].todo = SightingsOf(Payable(s, {"native"}, m), m)
                            \cup {f \in svc[s].found : f.block = m /\ f.hash = 0}
        /\ svc'[s].found = {f \in svc[s].found : f.block # m}
        /\ m = cursors[s].block + 1 /\ svc[s].pc = "block" /\ s = "addresses"
    BY <1>1, <2>1 DEF Fetched, TickLocals
  <2>3. /\ Sight(t)' = Sight(t) /\ Sight(t).block = minedAt[t] /\ Sight(t).hash = 0
        /\ InFound(svc[s], t)' <=> Kind[t] = "native" \/ Sight(t) \in svc'[s].found
    BY <1>2 DEF Sight, InFound
  <2>4. ASSUME cursors[s].block < minedAt[t], minedAt[t] <= svc[s].end
        PROVE  IF minedAt[t] = m THEN Sight(t) \in svc'[s].todo
               ELSE Kind[t] = "native" \/ Sight(t) \in svc'[s].found
    <3>1. Kind[t] = "native" \/ Sight(t) \in svc[s].found
      BY <2>2, <2>4 DEF Tracked, Pending, InFound
    <3>2. Kind[t] = "native" /\ minedAt[t] = m => Sight(t) \in SightingsOf(Payable(s, {"native"}, m), m)
      BY SightIsPayable
    <3>3. QED BY <2>2, <2>3, <3>1, <3>2
  <2>5. QED BY <1>2, <2>2, <2>3, <2>4 DEF Tracked, Pending
<1>7. CASE GetAnchor(s)
  <2>1. /\ svc'[s] = [svc[s] EXCEPT !.pc = "apply", !.anchor = 0,
                         !.todo = svc[s].found, !.found = {}]
        /\ svc[s].pc = "block" /\ s = "logs" /\ cursors' = cursors
    BY <1>2, <1>7, AnchorStep
  <2>2. svc'[s].pc = "apply" /\ svc'[s].end = svc[s].end /\ svc'[s].todo = svc[s].found
    BY <1>1, <2>1 DEF TickLocals
  <2>3. Sight(t)' = Sight(t) /\ Kind[t] = "vault"
    BY <1>2, <1>3, <2>1 DEF Sight
  <2>4. QED BY <1>2, <2>1, <2>2, <2>3 DEF Tracked, Pending, InFound
<1>8. CASE Apply(s)
  <2>1. PICK f \in svc[s].todo : Applied(s, f)
    BY <1>8, ApplyStep
  <2>2. /\ svc'[s].pc = "sum" /\ svc'[s].end = svc[s].end /\ svc'[s].found = svc[s].found
        /\ svc'[s].todo = svc[s].todo \ {f} /\ cursors' = cursors
        /\ Applying(svc[s]) /\ svc[s].pc = "apply" /\ f.tx \in Recorded'
    BY <1>1, <2>1 DEF Applied, Applying, TickLocals
  <2>3. Sight(t)' = Sight(t) /\ Sight(t).tx = t
    BY <1>2 DEF Sight
  <2>4. Sight(t) \in svc[s].todo => t \in Recorded' \/ Sight(t) \in svc'[s].todo
    BY <2>2, <2>3
  <2>5. QED BY <1>2, <2>2, <2>3, <2>4 DEF Tracked, Pending, InFound
<1>9. CASE Advance(s)
  <2>1. PICK m \in Heights, used \in Nat, step \in {"block", "chunk", "refresh", "gap"} :
          Advanced(s, m, used, step)
    BY <1>9, AdvanceStep
  <2>2. /\ svc'[s].pc = step /\ svc'[s].end = svc[s].end /\ svc'[s].found = svc[s].found
        /\ cursors'[s].block = m /\ Applying(svc[s]) /\ svc[s].pc = "apply" /\ svc[s].todo = {}
        /\ m = IF s = "logs" THEN svc[s].end ELSE cursors[s].block + 1
        /\ cursors[s].block < m /\ m <= svc[s].end /\ m \in Nat
        /\ step = "block" => m < svc[s].end
    BY <1>1, <2>1, ChainAssumption DEF Advanced, Applying, TickLocals, Heights
  <2>3. Sight(t)' = Sight(t)
    BY <1>2 DEF Sight
  <2>4. ASSUME minedAt[t] <= m PROVE t \in Recorded
    <3>1. CASE minedAt[t] <= cursors[s].block
      BY <3>1 DEF Tracked
    <3>2. CASE cursors[s].block < minedAt[t]
      <4>1. minedAt[t] <= svc[s].end /\ (s = "logs" \/ minedAt[t] = cursors[s].block + 1)
        BY <1>1, <2>2, <2>4, <3>2
      <4>2. QED BY <2>2, <3>2, <4>1 DEF Tracked, Pending
    <3>3. QED BY <1>1, <3>1, <3>2
  <2>5. ASSUME m < minedAt[t], minedAt[t] <= svc[s].end, step = "block"
        PROVE  InFound(svc[s], t)
    <3>1. cursors[s].block < minedAt[t] /\ s # "logs" /\ minedAt[t] # cursors[s].block + 1
      BY <1>1, <2>2, <2>5
    <3>2. QED BY <2>2, <2>5, <3>1 DEF Tracked, Pending
  <2>6. InFound(svc[s], t)' <=> InFound(svc[s], t)
    BY <2>2, <2>3 DEF InFound
  <2>7. Applying(svc'[s]) => svc'[s].pc = "block"
    BY <2>2 DEF Applying, Recomputing
  <2>8. QED BY <1>2, <2>2, <2>4, <2>5, <2>6, <2>7 DEF Tracked, Pending, Applying
<1>10. QED BY <1>4, <1>5, <1>6, <1>7, <1>8, <1>9 DEF Walking

LEMMA TickTracked ==
  ASSUME TypeInv, ScanInv, NEW s \in Services, TickStep(s), NEW t \in Txs, s = ServiceOf(t),
         minedAt[t] # Unmined, Live(InvoiceOf[t]), Tracked(svc[s], cursors[s].block, t),
         InvoiceOf[t] \in Existing, Recorded \subseteq Recorded'
  PROVE  Tracked(svc[s], cursors[s].block, t)'
<1>1. svc \in [Services -> TickLocals] /\ svc[s] \in TickLocals /\ CalmInv
  BY DEF TypeInv, TypeOK, ScanInv
<1>2. minedAt' = minedAt
  BY ScanOthers DEF chainVars
<1>3. svc[s].pc # "idle" => InvoiceOf[t] \in svc[s].watched
  BY LedgerAssumption DEF ScanInv, InterestInv, Interest
<1>4. CASE Opening(s)
  BY <1>4, OpeningTracked
<1>5. CASE Walking(s)
  <2>1. svc[s].pc # "idle"
    BY <1>5 DEF Walking, SkipDeadSpace, FetchChunk, GetBlock, GetAnchor, Apply, Advance, JumpGap, At
  <2>2. QED BY <1>3, <1>5, <2>1, WalkingTracked
<1>6. CASE Refreshing(s)
  <2>1. /\ svc'[s].pc \in {"refresh", "select", "promote", "confirmed", "finalize",
                          "finalized", "sum"}
        /\ svc'[s].pc = "sum" => svc'[s].ret = "promote"
        /\ cursors' = cursors
    BY <1>6, RefreshingSteps
  <2>2. ~Applying(svc'[s])
    BY <2>1 DEF Applying, Recomputing
  <2>3. QED BY <1>2, <2>1, <2>2, TrackedStays
<1>7. CASE Totalling(s)
  <2>1. /\ Recomputing(svc[s]) /\ cursors' = cursors
        /\ svc'[s].found = svc[s].found /\ svc'[s].todo = svc[s].todo /\ svc'[s].end = svc[s].end
        /\ \/ svc'[s].pc \in {"total", "settled"} /\ svc'[s].ret = svc[s].ret
           \/ svc'[s].pc = svc[s].ret /\ svc'[s].ret = "idle"
    BY <1>7, TotallingSteps
  <2>2. svc[s].ret \in {"apply", "promote"}
    BY <1>1, <2>1, TickFacts DEF LocalsOK, Calm, CalmInv
  <2>3. Applying(svc'[s]) => Applying(svc[s]) /\ svc[s].pc # "block"
    BY <2>1, <2>2 DEF Applying, Recomputing
  <2>4. Sight(t)' = Sight(t) /\ svc'[s].pc # "block"
    BY <1>2, <2>1, <2>2 DEF Sight
  <2>5. QED BY <1>2, <2>1, <2>3, <2>4 DEF Tracked, Pending, InFound, Applying
<1>8. CASE EndTick(s)
  <2>1. svc'[s].pc = "idle" /\ cursors' = cursors
    BY <1>1, <1>8 DEF EndTick, Idle
  <2>2. QED BY <1>2, <2>1, TrackedStays DEF Applying, Recomputing
<1>9. QED BY <1>1, <1>4, <1>5, <1>6, <1>7, <1>8, CalmSteps

LEMMA OutsideTracked ==
  ASSUME TypeInv, ScanInv, Outside, reorgs' = 0, NEW s \in Services, NEW t \in Txs,
         minedAt'[t] # Unmined,
         minedAt[t] # Unmined => Tracked(svc[s], cursors[s].block, t)
  PROVE  Tracked(svc[s], cursors[s].block, t)'
<1>1. UNCHANGED <<payments, cursors>> /\ svc'[s] \in {svc[s], Idle} /\ Recorded' = Recorded
  BY OutsideSteps DEF Recorded
<1>2. CASE minedAt'[t] = minedAt[t]
  <2>1. CASE svc'[s] = svc[s]
    <3>1. Sight(t)' = Sight(t)
      BY <1>2 DEF Sight
    <3>2. QED BY <1>1, <1>2, <2>1, <3>1 DEF Tracked, Pending, InFound, Applying, Recomputing
  <2>2. CASE svc'[s] = Idle
    <3>1. ~Applying(svc'[s])
      BY <2>2 DEF Idle, Applying, Recomputing
    <3>2. QED BY <1>1, <1>2, <3>1, TrackedStays
  <2>3. QED BY <1>1, <2>1, <2>2
<1>3. CASE minedAt'[t] # minedAt[t]
  <2>1. GrowChain
    BY <1>3, OutsideSteps DEF Outside, AbortTick, CreateInvoice, ExpireInvoice, vars, chainVars
  <2>2. minedAt'[t] = tip + 1
    BY <1>3, <2>1 DEF GrowChain, MineBlock
  <2>3. /\ cursors[s].block < tip /\ svc[s].end < tip /\ cursors[s].block \in Int
        /\ svc[s].end \in Nat /\ tip \in Nat
    BY BehindFacts DEF ScanInv, BehindInv, Behind
  <2>4. svc'[s] = svc[s] /\ cursors' = cursors
    BY <2>1 DEF GrowChain
  <2>5. QED BY <2>2, <2>3, <2>4 DEF Tracked
<1>4. QED BY <1>2, <1>3

LEMMA TrackedNext ==
  ASSUME OneService, TypeInv, ScanInv, TrackedInv, [Next]_vars, reorgs' = 0
  PROVE  TrackedInv'
<1> SUFFICES ASSUME NEW s \in Services, NEW t \in Txs, s = ServiceOf(t), minedAt'[t] # Unmined,
                    Live(InvoiceOf[t])', InvoiceOf[t] \in Existing
             PROVE  Tracked(svc[s], cursors[s].block, t)'
  BY DEF TrackedInv, ServiceOf
<1>1. InvoiceOf[t] \in Invoices /\ Registered(InvoiceOf[t])
  BY LedgerAssumption DEF ScanInv, InterestInv
<1>2. Live(InvoiceOf[t])
  BY <1>1, LiveStays DEF ScanInv
<1>3. minedAt[t] # Unmined => Tracked(svc[s], cursors[s].block, t)
  BY <1>2 DEF TrackedInv
<1>4. CASE Outside
  BY <1>3, <1>4, OutsideTracked
<1>5. CASE TickStep(s)
  <2>1. minedAt' = minedAt
    BY <1>5, ScanOthers DEF chainVars
  <2>2. QED BY <1>2, <1>3, <1>5, <2>1, RecordedGrows, TickTracked
<1>6. QED BY <1>4, <1>5 DEF Next, Outside, OneService

LEMMA TrackedInvariant ==
  ASSUME OneService
  PROVE  Spec => [](TypeInv /\ (reorgs = 0 => ScanInv /\ TrackedInv))
<1>1. Init => TrackedInv
  BY DEF Init, ChainInit, TrackedInv
<1>2. TypeInv /\ (reorgs = 0 => ScanInv) /\ (reorgs = 0 => TrackedInv) /\ [Next]_vars
        => (reorgs = 0 => TrackedInv)'
  BY TrackedNext, ReorgsStay
<1>3. QED BY <1>1, <1>2, ScanInvariant, PTL DEF Spec

\* With one service, and up to the first reorganisation, every transaction
\* that pays an invoice that was there before the watcher, while it waits for
\* money, is on record once the cursor has passed its block, however ticks are
\* cut short and started again.
THEOREM ScanIsComplete ==
  ASSUME OneService
  PROVE  Spec => [](reorgs = 0 => ScanComplete)
<1>1. ASSUME TypeInv, ScanInv, TrackedInv PROVE ScanComplete
  <2> SUFFICES ASSUME NEW s \in Services, NEW t \in Txs, s = ServiceOf(t), minedAt[t] # Unmined,
                      Passed(s, minedAt[t]), Live(InvoiceOf[t]), InvoiceOf[t] \in Existing
               PROVE  payments[t].status \notin {"absent", "orphaned"}
    BY DEF ScanComplete
  <2>1. t \in Recorded
    BY <1>1 DEF TrackedInv, Tracked, Passed
  <2>2. QED BY <1>1, <2>1 DEF Recorded, ScanInv, CalmInv
<1>2. QED BY <1>1, TrackedInvariant, PTL
-----------------------------------------------------------------------------
(***************************************************************************)
(* After the first reorganisation, with one service, no tick cut short and *)
(* a plan without gaps: a payment of a replaced block is not passed by the *)
(* scan before handle_reorg has moved or orphaned it.  Its row names a     *)
(* block of the old chain at or below the cursor, and the cursor carries   *)
(* the hash of the old block it is on: no further block extends that one,  *)
(* the hashes remembered from the payment's block on are old ones too, and *)
(* so detect_fork_point goes below the payment as soon as it is asked.     *)
(***************************************************************************)
RightAt(t, block, hash) == minedAt[t] = block /\ hashAt[block] = hash

\* The rows this is about.  Until the reorganisation, which may replace any
\* block, all open payments are; afterwards the ones that are wrong.
Doubtful(t, row) == /\ row.status \in {"detected", "merchant_confirmed"}
                    /\ reorgs = 0 \/ ~RightAt(t, row.block, row.hash)

\* A tick has fetched the block above the cursor and is applying it; a tick
\* is in handle_reorg.
Holding(r) == r.pc = "apply" \/ (Recomputing(r) /\ r.ret = "apply")
Unwinding(r) == \/ r.pc \in {"unwind", "locate", "relocate"}
                \/ Recomputing(r) /\ r.ret = "locate"

\* The blocks from low to high were replaced, and there are no more of them
\* than one reorganisation replaces.
Replaced(low, high) ==
  /\ high < low + MaxReorgSpan
  /\ \A h \in Heights : low <= h /\ h <= high => hashAt[h] = 1

\* network_seen_blocks has every height from block on, up to the cursor, as
\* far as the scan plan reaches and prune_seen_blocks leaves it.
Remembered(block, last, hashes) ==
  \A h \in Heights :
    /\ block <= h /\ h <= last /\ h <= block + FINAL_CONFIRMATIONS
    /\ last - 2 * MAX_REORG_DEPTH <= h
    => hashes[h] = 0

\* The cursor c has passed the block of a doubtful row.
Under(block, c, hashes) ==
  /\ block <= c.block /\ c.hash = 0
  /\ Remembered(block, c.block, hashes)
  /\ reorgs = 1 => Replaced(block, c.block)

RowOK(t, row, r, c, hashes) ==
  /\ row.hash = 0 /\ Registered(InvoiceOf[t])
  /\ reorgs = 0 => RightAt(t, row.block, row.hash)
  /\ Under(row.block, c, hashes) \/ (row.block = c.block + 1 /\ Holding(r))
  /\ Holding(r) => r.anchor = 0 /\ (reorgs = 1 => Replaced(row.block, c.block + 1))
  /\ r.pc # "idle" => InvoiceOf[t] \in r.watched
  /\ r.pc \in {"fork", "skip"} =>
       \A h \in Heights : row.block <= h /\ h <= row.block + FINAL_CONFIRMATIONS + 1 => h \in r.plan
  /\ Unwinding(r) =>
       /\ reorgs = 1 /\ r.fork < row.block
       /\ r.pc = "unwind" \/ t \in r.rows \/ (r.pc = "relocate" /\ t = r.tx)

\* What was fetched is where the node says it is, or was fetched before the
\* reorganisation.
Stale(f) == reorgs = 1 /\ f.hash = 0 /\ hashAt[f.block] = 1
SightOK(f, r) ==
  /\ InvoiceOf[f.tx] \in r.watched /\ Registered(InvoiceOf[f.tx])
  /\ RightAt(f.tx, f.block, f.hash) \/ Stale(f)
SightsOK(r, c) ==
  /\ Applying(r) => \A f \in r.found : SightOK(f, r)
  /\ Holding(r) => \A f \in r.todo :
       SightOK(f, r) /\ f.block = c.block + 1 /\ f.hash = r.anchor
  /\ r.pc = "relocate" => \A f \in r.found : f.tx = r.tx /\ RightAt(f.tx, f.block, f.hash)

\* A plan without gaps is scanned from one end to the other.
IsRun(plan) == \A x, y \in plan, h \in Heights : x <= h /\ h <= y => h \in plan
PlanOK(r, c) ==
  /\ IsRun(r.plan)
  /\ r.pc = "chunk" => c.block + 1 \in r.plan \/ r.tip - 1 <= c.block
  /\ Applying(r) => /\ r.end <= r.rangeEnd
                    /\ \A h \in Heights : c.block < h /\ h <= r.rangeEnd => h \in r.plan
  /\ r.pc # "gap"

MinedOK ==
  /\ \A t \in Txs : minedAt[t] <= tip /\ (minedAt[t] # Unmined => Registered(InvoiceOf[t]))
  /\ reorgs = 1 => 1 <= MaxReorgSpan
LocalOK(r, c, hashes, rows) ==
  /\ SightsOK(r, c) /\ PlanOK(r, c)
  /\ \A t \in Txs : Doubtful(t, rows[t]) => RowOK(t, rows[t], r, c, hashes)
TickOK(s) == LocalOK(svc[s], cursors[s], seen[s], payments)
HeldInv == MinedOK /\ \A s \in Services : TickOK(s)

\* One reorganisation is neither deeper than the scan plan of a payment goes
\* on, nor than detect_fork_point looks back.
SmallReorgs == MaxReorgSpan <= FINAL_CONFIRMATIONS /\ MaxReorgSpan <= MAX_REORG_DEPTH

\* The scan plan has no gaps: there is one invoice, or none is ever settled
\* or expires.
OneInvoice == \A i, j \in Invoices : i = j
NoneSettles == Expiring = {} /\ \A i \in Invoices : Value[PaymentsOf(i)] < Requested[i]
-----------------------------------------------------------------------------
\* Invoices that cannot be paid in full wait for ever.
Waiting == \A i \in Invoices : ~invoices[i].expired /\ ~Settled(invoices[i].status)
                               /\ invoices[i].status # "expired"

LEMMA WaitingNext ==
  ASSUME NoneSettles, TypeInv, SumsBacked, Waiting, [Next]_vars
  PROVE  Waiting'
<1>1. invoices \in [Invoices -> InvoiceRows]
  BY DEF TypeInv, TypeOK, LedgerTypeOK
<1>2. ASSUME NEW i \in Invoices PROVE ~invoices'[i].expired
  <2>1. CASE CreateInvoice \/ ExpireInvoice
    BY <1>1, <2>1 DEF CreateInvoice, RegisterInvoice, ExpireInvoice, Waiting, NoneSettles, InvoiceRows
  <2>2. CASE \E s \in Services : SaveTotal(s)
    BY <1>1, <2>2 DEF SaveTotal, WriteTotal, Waiting, InvoiceRows
  <2>3. CASE ~(CreateInvoice \/ ExpireInvoice \/ \E s \in Services : SaveTotal(s))
    <3>1. invoices' = invoices
      BY <2>3, InvoicesKept
    <3>2. QED BY <3>1 DEF Waiting
  <2>4. QED BY <2>1, <2>2, <2>3
<1>3. ASSUME NEW i \in Invoices
      PROVE  ~Settled(invoices'[i].status) /\ invoices'[i].status # "expired"
  <2>1. CASE invoices'[i].status = invoices[i].status
    BY <2>1 DEF Waiting
  <2>2. ASSUME NEW s \in Services, SaveTotal(s), i = InvoiceOf[svc[s].tx]
        PROVE  ~Settled(invoices'[i].status) /\ invoices'[i].status # "expired"
    <3>1. svc[s].sum <= Value[EverRecorded(i)] /\ svc[s].sum \in Nat
      BY <2>2, TickFacts DEF SumsBacked, Backed, Sum, SaveTotal, At, TickLocals
    <3>2. /\ Value[EverRecorded(i)] \in Nat /\ Value[PaymentsOf(i)] \in Nat
          /\ Value[EverRecorded(i)] <= Value[PaymentsOf(i)]
      <4>1. EverRecorded(i) \in SUBSET Txs /\ PaymentsOf(i) \in SUBSET Txs
        BY DEF EverRecorded, PaymentsOf
      <4>2. EverRecorded(i) \subseteq PaymentsOf(i)
        BY DEF EverRecorded
      <4>3. QED BY <4>1, <4>2, LedgerAssumption
    <3>3. Requested[i] \in Nat /\ Value[PaymentsOf(i)] < Requested[i]
      BY LedgerAssumption DEF NoneSettles
    <3>4. ~(svc[s].sum >= Requested[i])
      BY <3>1, <3>2, <3>3
    <3>5. StatusFor(i, svc[s].sum) \in {"underpaid", "pending"}
      BY <3>4 DEF StatusFor
    <3>6. /\ invoices[i] \in InvoiceRows
          /\ invoices'[i].status \in {invoices[i].status, StatusFor(i, svc[s].sum)}
      BY <1>1, <2>2 DEF SaveTotal, WriteTotal, InvoiceRows
    <3>7. QED BY <3>5, <3>6 DEF Waiting, Settled
  <2>3. QED BY <2>1, <2>2, InvoiceSteps
<1>4. QED BY <1>2, <1>3 DEF Waiting

LEMMA WaitingInvariant ==
  ASSUME NoneSettles
  PROVE  Spec => []Waiting
<1>1. Init => Waiting
  BY DEF Init, LedgerInit, Waiting, Settled
<1>2. TypeInv /\ SumsBacked /\ Waiting /\ [Next]_vars => Waiting'
  BY WaitingNext
<1>3. QED BY <1>1, <1>2, BackedInvariant, PTL DEF Spec

\* The scan plan has no gaps when it comes from one invoice, or from invoices
\* that all still wait for money.
LEMMA PlanIsRun ==
  ASSUME TypeInv, OneInvoice \/ Waiting
  PROVE  IsRun(ScanPlan)
<1> SUFFICES ASSUME NEW x \in ScanPlan, NEW y \in ScanPlan, NEW h \in Heights, x <= h, h <= y
             PROVE  h \in ScanPlan
  BY DEF IsRun
<1>1. PICK i \in WatchedInvoices : x \in PlanOf(i)
  BY DEF ScanPlan
<1>2. PICK j \in WatchedInvoices : y \in PlanOf(j)
  BY DEF ScanPlan
<1>3. i \in Invoices /\ j \in Invoices /\ x \in Heights /\ y \in Heights
  BY <1>1, <1>2 DEF WatchedInvoices, PlanOf
<1>4. MaxTip \in Nat /\ FINAL_CONFIRMATIONS \in Nat
  BY ChainAssumption, LedgerAssumption
<1> DEFINE paid(k) == {payments[t].block : t \in OpenPayments(k)}
<1>5. \A b \in paid(i) \cup paid(j) \cup {invoices[i].created} : b \in Heights
  BY <1>3 DEF OpenPayments, PaymentsOf, TypeInv, TypeOK, LedgerTypeOK, PaymentRows, InvoiceRows
<1>6. CASE Live(i)
  <2>1. PICK b \in paid(i) \cup {invoices[i].created} : b <= x
    BY <1>1, <1>6 DEF PlanOf
  <2>2. b <= h
    BY <1>3, <1>4, <1>5, <2>1 DEF Heights
  <2>3. h \in PlanOf(i)
    BY <1>6, <2>1, <2>2 DEF PlanOf
  <2>4. QED BY <2>3 DEF ScanPlan
<1>7. CASE ~Live(i) /\ i = j
  <2>1. PICK b \in paid(i) : b <= x
    BY <1>1, <1>7 DEF PlanOf
  <2>2. PICK d \in paid(i) : y <= d + FINAL_CONFIRMATIONS + 1
    BY <1>2, <1>7 DEF PlanOf
  <2>3. b \in Heights /\ d \in Heights
    BY <1>5, <2>1, <2>2
  <2> HIDE DEF paid
  <2>4. b <= h /\ h <= d + FINAL_CONFIRMATIONS + 1
    BY <1>3, <1>4, <2>1, <2>2, <2>3 DEF Heights
  <2> USE DEF paid
  <2>5. h \in PlanOf(i)
    BY <1>7, <2>1, <2>2, <2>4 DEF PlanOf
  <2>6. QED BY <2>5 DEF ScanPlan
<1>8. Live(i) \/ i = j
  <2>1. CASE OneInvoice
    BY <1>3, <2>1 DEF OneInvoice
  <2>2. CASE Waiting
    <3>1. invoices[i].status \in {"pending", "underpaid"}
      BY <1>3, <2>2 DEF Waiting, Settled, TypeInv, TypeOK, LedgerTypeOK, InvoiceRows, InvoiceStatuses
    <3>2. QED BY <1>1, <1>3, <2>2, <3>1 DEF Waiting, Live, WatchedInvoices
  <2>3. QED BY <2>1, <2>2
<1>9. QED BY <1>6, <1>7, <1>8

\* The chunk ends where the plan does, or before.
LEMMA ChunkIsPlanned ==
  ASSUME NEW plan \in SUBSET Heights, NEW n \in plan, NEW ceiling
  PROVE  \A h \in Heights : n <= h /\ h <= PlanRangeEnd(plan, n, ceiling) => h \in plan
<1> DEFINE run == {h \in plan : n <= h /\ (n .. h) \subseteq plan}
<1>1. n .. n = {n} /\ n \in Nat /\ n <= n
  BY ChainAssumption DEF Heights
<1>2. n \in run /\ run \in SUBSET Heights
  BY <1>1
<1>3. PlanRangeEnd(plan, n, ceiling) = Max(run)
  BY Zenon DEF PlanRangeEnd
<1> HIDE DEF run
<1>4. Max(run) \in run
  BY <1>2, MaxType
<1>5. (n .. Max(run)) \subseteq plan
  BY <1>4 DEF run
<1> DEFINE last == Max(run)
<1> HIDE DEF last
<1>6. n .. last \subseteq plan /\ last \in Heights
  BY <1>2, <1>4, <1>5 DEF last
<1>7. \A h \in Heights : n <= h /\ h <= last => h \in n .. last
  BY <1>1, <1>6, ChainAssumption DEF Heights
<1>8. QED BY <1>3, <1>6, <1>7 DEF last
-----------------------------------------------------------------------------
\* Where a step of the tick starts from.
HeldTick(s) == /\ TypeInv /\ TickOK(s) /\ MinedOK
               /\ s = "addresses" /\ reorgs \in {0, 1}
               /\ reorgs = 0 => ScanInv

LEMMA HeldFacts ==
  ASSUME NEW s \in Services, HeldTick(s)
  PROVE  /\ svc \in [Services -> TickLocals] /\ svc[s] \in TickLocals
         /\ cursors \in [Services -> Cursors] /\ cursors[s] \in Cursors
         /\ payments \in [Txs -> PaymentRows]
         /\ seen \in [Services -> [Heights -> Hashes \cup {NoHash}]]
         /\ SightsOK(svc[s], cursors[s]) /\ PlanOK(svc[s], cursors[s])
         /\ reorgs = 0 => CalmInv
         /\ \A t \in Txs : Doubtful(t, payments[t])
              => RowOK(t, payments[t], svc[s], cursors[s], seen[s])
  BY DEF HeldTick, TickOK, LocalOK, TypeInv, TypeOK, Cursors, LedgerTypeOK, ScanInv

\* Promotions and counters do not move a payment or bring one back.
LEMMA KeptRows ==
  ASSUME TypeInv, NEW s \in Services, TickStep(s), ~(Apply(s) \/ ReorgReset(s) \/ ReorgOrphan(s)),
         NEW t \in Txs, Doubtful(t, payments'[t])
  PROVE  /\ Doubtful(t, payments[t])
         /\ payments'[t].block = payments[t].block /\ payments'[t].hash = payments[t].hash
<1>1. payments[t] \in PaymentRows
  BY DEF TypeInv, TypeOK, LedgerTypeOK
<1>2. CASE payments'[t] = payments[t]
  BY <1>2
<1>3. ASSUME NEW n, payments'[t] = [payments[t] EXCEPT !.confs = n]
      PROVE  /\ payments'[t].status = payments[t].status
             /\ payments'[t].block = payments[t].block /\ payments'[t].hash = payments[t].hash
  BY <1>1, <1>3 DEF PaymentRows
<1>4. CASE Confirms(s, t)
  BY <1>1, <1>4 DEF Confirms, PaymentRows, Doubtful
<1>5. ~Finalizes(s, t)
  BY <1>1 DEF Finalizes, PaymentRows, Doubtful
<1>6. QED BY <1>2, <1>3, <1>4, <1>5, RowSteps DEF Doubtful

\* A tick does not touch the chain, so what holds of its new record does.
LEMMA TickMoved ==
  ASSUME TypeInv, NEW s \in Services, TickStep(s),
         LocalOK(svc'[s], cursors'[s], seen'[s], payments'), TypeInv'
  PROVE  TickOK(s)'
<1>1. UNCHANGED chainVars
  BY ScanOthers
<1>2. \A t \in Txs : Registered(InvoiceOf[t]) => Registered(InvoiceOf[t])'
  <2>1. \A t \in Txs : InvoiceOf[t] \in Invoices
    BY LedgerAssumption
  <2>2. QED BY <2>1, InvoiceFields DEF Next, Registered
<1>3. /\ Applying(svc[s])' = Applying(svc'[s]) /\ Holding(svc[s])' = Holding(svc'[s])
      /\ Unwinding(svc[s])' = Unwinding(svc'[s])
  BY DEF Applying, Holding, Unwinding, Recomputing
<1>4. \A t \in Txs : Doubtful(t, payments[t])' = Doubtful(t, payments'[t])
  BY <1>1 DEF Doubtful, RightAt, chainVars
<1>5. ASSUME NEW f \in Sightings, SightOK(f, svc'[s])
      PROVE  SightOK(f, svc[s])'
  BY <1>1, <1>2, <1>5 DEF Sightings, SightOK, RightAt, Stale, chainVars
<1>6. svc'[s].found \subseteq Sightings /\ svc'[s].todo \subseteq Sightings
  BY DEF TypeInv, TypeOK, TickLocals
<1>7. SightsOK(svc[s], cursors[s])'
  <2>1. SightsOK(svc'[s], cursors'[s])
    BY DEF LocalOK
  <2>2. (Applying(svc[s]) => \A f \in svc[s].found : SightOK(f, svc[s]))'
    BY <1>3, <1>5, <1>6, <2>1 DEF SightsOK
  <2>3. (Holding(svc[s]) => \A f \in svc[s].todo :
           SightOK(f, svc[s]) /\ f.block = cursors[s].block + 1 /\ f.hash = svc[s].anchor)'
    BY <1>3, <1>5, <1>6, <2>1 DEF SightsOK
  <2>4. (svc[s].pc = "relocate" => \A f \in svc[s].found :
           f.tx = svc[s].tx /\ RightAt(f.tx, f.block, f.hash))'
    BY <1>1, <2>1 DEF SightsOK, RightAt, chainVars
  <2>5. QED BY <2>2, <2>3, <2>4 DEF SightsOK
<1>8. PlanOK(svc[s], cursors[s])'
  BY <1>3 DEF LocalOK, PlanOK, IsRun
<1>9. ASSUME NEW t \in Txs, RowOK(t, payments'[t], svc'[s], cursors'[s], seen'[s])
      PROVE  RowOK(t, payments[t], svc[s], cursors[s], seen[s])'
  <2>1. Under(payments[t].block, cursors[s], seen[s])' = Under(payments'[t].block, cursors'[s], seen'[s])
    BY <1>1 DEF Under, Remembered, Replaced, chainVars
  <2>2. Replaced(payments[t].block, cursors[s].block + 1)'
          = Replaced(payments'[t].block, cursors'[s].block + 1)
    BY <1>1 DEF Replaced, chainVars
  <2>3. RightAt(t, payments[t].block, payments[t].hash)'
          = RightAt(t, payments'[t].block, payments'[t].hash)
    BY <1>1 DEF RightAt, chainVars
  <2>4. reorgs' = reorgs
    BY <1>1 DEF chainVars
  <2>5. QED BY <1>2, <1>3, <1>9, <2>1, <2>2, <2>3, <2>4 DEF RowOK
<1>10. QED BY <1>4, <1>7, <1>8, <1>9 DEF TickOK, LocalOK
-----------------------------------------------------------------------------
\* The start of a tick.
LEMMA LoadWatchedHeld ==
  ASSUME NEW s \in Services, HeldTick(s), LoadWatched(s)
  PROVE  LocalOK(svc'[s], cursors'[s], seen'[s], payments')
<1>1. /\ svc'[s] = [svc[s] EXCEPT !.pc = "tip", !.watched = WatchedInvoices]
      /\ svc[s].pc = "idle" /\ UNCHANGED <<payments, cursors, seen>>
  BY HeldFacts DEF LoadWatched, At, ledgerVars
<1>2. /\ svc'[s].pc = "tip" /\ svc'[s].watched = WatchedInvoices /\ svc'[s].plan = svc[s].plan
  BY <1>1, HeldFacts DEF TickLocals
<1>3. SightsOK(svc'[s], cursors'[s]) /\ PlanOK(svc'[s], cursors'[s])
  BY <1>1, <1>2, HeldFacts DEF SightsOK, PlanOK, Applying, Holding, Recomputing
<1>4. ASSUME NEW t \in Txs, Doubtful(t, payments[t])
      PROVE  RowOK(t, payments[t], svc'[s], cursors[s], seen[s])
  <2>1. RowOK(t, payments[t], svc[s], cursors[s], seen[s])
    BY <1>4, HeldFacts
  <2>2. InvoiceOf[t] \in WatchedInvoices
    BY <1>4, <2>1, LedgerAssumption DEF RowOK, WatchedInvoices, OpenPayments, PaymentsOf, Open, Doubtful
  <2>3. QED BY <1>1, <1>2, <2>1, <2>2 DEF RowOK, Holding, Unwinding, Recomputing
<1>5. QED BY <1>1, <1>3, <1>4 DEF LocalOK

LEMMA ReadTipHeld ==
  ASSUME NEW s \in Services, HeldTick(s), ReadTip(s)
  PROVE  LocalOK(svc'[s], cursors'[s], seen'[s], payments')
<1>1. /\ svc'[s] = [svc[s] EXCEPT !.pc = "resume", !.tip = tip]
      /\ svc[s].pc = "tip" /\ UNCHANGED <<payments, cursors, seen>>
  BY HeldFacts DEF ReadTip, At, ledgerVars
<1>2. /\ svc'[s].pc = "resume" /\ svc'[s].watched = svc[s].watched /\ svc'[s].plan = svc[s].plan
  BY <1>1, HeldFacts DEF TickLocals
<1>3. SightsOK(svc'[s], cursors'[s]) /\ PlanOK(svc'[s], cursors'[s])
  BY <1>1, <1>2, HeldFacts DEF SightsOK, PlanOK, Applying, Holding, Recomputing
<1>4. ASSUME NEW t \in Txs, Doubtful(t, payments[t])
      PROVE  RowOK(t, payments[t], svc'[s], cursors[s], seen[s])
  <2>1. RowOK(t, payments[t], svc[s], cursors[s], seen[s])
    BY <1>4, HeldFacts
  <2>2. QED BY <1>1, <1>2, <2>1 DEF RowOK, Holding, Unwinding, Recomputing
<1>5. QED BY <1>1, <1>3, <1>4 DEF LocalOK

\* The plan of the tick covers every open payment and what comes after it.
LEMMA ResumeHeld ==
  ASSUME NEW s \in Services, HeldTick(s), Resume(s), OneInvoice \/ Waiting
  PROVE  LocalOK(svc'[s], cursors'[s], seen'[s], payments')
<1>1. /\ svc'[s] = [svc[s] EXCEPT !.pc = "fork", !.plan = ScanPlan]
      /\ svc[s].pc = "resume" /\ UNCHANGED <<payments, seen>>
      /\ cursors[s] # NoCursor => cursors' = cursors
  BY HeldFacts DEF Resume, At, ledgerVars
<1>2. svc'[s].pc = "fork" /\ svc'[s].watched = svc[s].watched /\ svc'[s].plan = ScanPlan
  BY <1>1, HeldFacts DEF TickLocals
<1>3. SightsOK(svc'[s], cursors'[s]) /\ PlanOK(svc'[s], cursors'[s])
  <2>1. IsRun(ScanPlan)
    BY PlanIsRun DEF HeldTick
  <2>2. QED BY <1>2, <2>1 DEF SightsOK, PlanOK, Applying, Holding, Recomputing
<1>4. ASSUME NEW t \in Txs, Doubtful(t, payments[t])
      PROVE  RowOK(t, payments[t], svc'[s], cursors'[s], seen[s])
  <2>1. RowOK(t, payments[t], svc[s], cursors[s], seen[s])
    BY <1>4, HeldFacts
  <2>2. Under(payments[t].block, cursors[s], seen[s])
    BY <1>1, <2>1 DEF RowOK, Holding, Recomputing
  <2>3. cursors'[s] = cursors[s]
    BY <1>1, <2>2 DEF Under, NoCursor, NoHash
  <2>4. ASSUME NEW h \in Heights, payments[t].block <= h, h <= payments[t].block + FINAL_CONFIRMATIONS + 1
        PROVE  h \in ScanPlan
    <3>1. InvoiceOf[t] \in WatchedInvoices /\ t \in OpenPayments(InvoiceOf[t])
      BY <1>4, <2>1, LedgerAssumption DEF RowOK, WatchedInvoices, OpenPayments, PaymentsOf, Open, Doubtful
    <3>2. h \in PlanOf(InvoiceOf[t])
      BY <2>4, <3>1 DEF PlanOf
    <3>3. QED BY <3>1, <3>2 DEF ScanPlan
  <2>5. QED BY <1>1, <1>2, <2>1, <2>2, <2>3, <2>4 DEF RowOK, Holding, Unwinding, Recomputing
<1>5. QED BY <1>1, <1>3, <1>4 DEF LocalOK

\* detect_fork_point goes below every payment of a replaced block.
LEMMA ForkIsBelow ==
  ASSUME NEW s \in Services, TypeInv, SmallReorgs, NEW block \in Nat \ {0},
         Under(block, cursors[s], seen[s]), reorgs = 1
  PROVE  ForkPoint(s) < block
<1> DEFINE last == cursors[s].block
           floor == Max({last - MAX_REORG_DEPTH, 0})
           agree == {h \in floor .. last - 1 :
                       \/ seen[s][h] = hashAt[h]
                       \/ s = "addresses" /\ seen[s][h] = NoHash}
<1>1. ForkPoint(s) = IF agree = {} THEN floor ELSE Max(agree)
  BY DEF ForkPoint
<1>2. last \in Heights /\ last \in Nat /\ MAX_REORG_DEPTH \in Nat /\ MaxTip \in Nat /\ MaxReorgSpan \in Nat
  BY TickFacts, ChainAssumption, WatcherAssumption DEF Heights, Cursors, Under
<1>3. /\ block <= last /\ last < block + MaxReorgSpan
      /\ \A h \in Heights : block <= h /\ h <= last => hashAt[h] = 1
      /\ Remembered(block, last, seen[s])
  BY DEF Under, Replaced
<1>4. floor \in Nat /\ last - MAX_REORG_DEPTH <= floor /\ floor < block
  <2>1. CASE last - MAX_REORG_DEPTH <= 0
    <3>1. \A x \in {last - MAX_REORG_DEPTH, 0} : 0 >= x
      BY <1>2, <2>1
    <3>2. floor = 0
      BY <1>2, <2>1, <3>1 DEF Max
    <3>3. QED BY <1>2, <2>1, <3>2
  <2>2. CASE last - MAX_REORG_DEPTH > 0
    <3>1. \A x \in {last - MAX_REORG_DEPTH, 0} : last - MAX_REORG_DEPTH >= x
      BY <1>2, <2>2
    <3>2. floor = last - MAX_REORG_DEPTH
      <4>1. \A x \in {last - MAX_REORG_DEPTH, 0} :
               (\A y \in {last - MAX_REORG_DEPTH, 0} : x >= y) => x = last - MAX_REORG_DEPTH
        BY <1>2, <2>2
      <4>2. QED BY <3>1, <4>1 DEF Max
    <3>3. QED BY <1>2, <1>3, <2>2, <3>2 DEF SmallReorgs
  <2>3. QED BY <1>2, <2>1, <2>2
<1> HIDE DEF floor
<1>5. agree \in SUBSET Heights /\ \A h \in agree : h < block
  <2>1. floor .. last - 1 \subseteq Heights
    BY <1>2, <1>4 DEF Heights
  <2>2. ASSUME NEW h \in agree, block <= h PROVE FALSE
    <3>1. h \in Heights /\ h \in Nat /\ h <= last /\ floor <= h
      BY <1>2, <1>4, <2>1 DEF Heights
    <3>2. hashAt[h] = 1
      BY <1>3, <2>2, <3>1
    <3>3. h <= block + FINAL_CONFIRMATIONS /\ last - 2 * MAX_REORG_DEPTH <= h
      BY <1>2, <1>3, <1>4, <3>1, LedgerAssumption DEF SmallReorgs
    <3>4. seen[s][h] = 0
      BY <1>3, <2>2, <3>1, <3>3 DEF Remembered
    <3>5. QED BY <3>2, <3>4 DEF NoHash
  <2>3. \A h \in agree : h \in Nat
    BY <1>2, <2>1 DEF Heights
  <2>4. QED BY <2>1, <2>2, <2>3
<1> HIDE DEF agree
<1>6. agree # {} => Max(agree) \in agree
  BY <1>5, MaxType
<1>7. QED BY <1>1, <1>4, <1>5, <1>6

LEMMA DetectForkHeld ==
  ASSUME NEW s \in Services, HeldTick(s), DetectFork(s), SmallReorgs
  PROVE  LocalOK(svc'[s], cursors'[s], seen'[s], payments')
<1>1. svc[s].pc = "fork" /\ UNCHANGED <<payments, cursors, seen>>
  BY DEF DetectFork, At, ledgerVars
<1>2. /\ svc'[s].watched = svc[s].watched /\ svc'[s].plan = svc[s].plan
      /\ \/ svc'[s].pc = "skip"
         \/ svc'[s].pc = "unwind" /\ svc'[s].fork = ForkPoint(s) /\ Reorganised(s)
  BY HeldFacts DEF DetectFork, TickLocals
<1>3. SightsOK(svc'[s], cursors'[s]) /\ PlanOK(svc'[s], cursors'[s])
  BY <1>1, <1>2, HeldFacts DEF SightsOK, PlanOK, Applying, Holding, Recomputing
<1>4. ASSUME NEW t \in Txs, Doubtful(t, payments[t])
      PROVE  RowOK(t, payments[t], svc'[s], cursors[s], seen[s])
  <2>1. RowOK(t, payments[t], svc[s], cursors[s], seen[s])
    BY <1>4, HeldFacts
  <2>2. Under(payments[t].block, cursors[s], seen[s])
    BY <1>1, <2>1 DEF RowOK, Holding, Recomputing
  <2>3. CASE svc'[s].pc = "skip"
    BY <1>1, <1>2, <2>1, <2>2, <2>3 DEF RowOK, Holding, Unwinding, Recomputing
  <2>4. CASE svc'[s].pc = "unwind" /\ svc'[s].fork = ForkPoint(s) /\ Reorganised(s)
    <3>1. reorgs = 1
      <4>1. reorgs = 0 => ~Reorganised(s)
        BY HeldFacts DEF Reorganised, OnChain, CalmInv
      <4>2. QED BY <2>4, <4>1 DEF HeldTick
    <3>2. payments[t].block \in Nat \ {0}
      <4>1. payments[t] \in PaymentRows /\ t \in Recorded
        BY <1>4, HeldFacts DEF Recorded, Doubtful
      <4>2. payments[t].block # Unmined
        BY <4>1 DEF HeldTick, TypeInv, RowsMined
      <4>3. QED BY <4>1, <4>2, ChainAssumption DEF PaymentRows, Heights, Unmined
    <3>3. ForkPoint(s) < payments[t].block
      BY <2>2, <3>1, <3>2, ForkIsBelow DEF HeldTick
    <3>4. QED BY <1>1, <1>2, <2>1, <2>2, <2>4, <3>1, <3>3 DEF RowOK, Holding, Unwinding, Recomputing
  <2>5. QED BY <1>2, <2>3, <2>4
<1>5. QED BY <1>1, <1>3, <1>4 DEF LocalOK
-----------------------------------------------------------------------------
\* handle_reorg: every doubtful row is among the affected ones.
LEMMA SelectAffectedHeld ==
  ASSUME NEW s \in Services, HeldTick(s), SelectAffected(s)
  PROVE  LocalOK(svc'[s], cursors'[s], seen'[s], payments')
<1>1. svc[s].pc = "unwind" /\ UNCHANGED <<payments, cursors, seen>>
  BY DEF SelectAffected, At, ledgerVars
<1>2. /\ svc'[s].watched = svc[s].watched /\ svc'[s].plan = svc[s].plan
      /\ svc'[s].pc = "locate" /\ svc'[s].fork = svc[s].fork /\ svc'[s].rows = Affected(s)
  BY HeldFacts DEF SelectAffected, TickLocals
<1>3. SightsOK(svc'[s], cursors'[s]) /\ PlanOK(svc'[s], cursors'[s])
  BY <1>1, <1>2, HeldFacts DEF SightsOK, PlanOK, Applying, Holding, Recomputing
<1>4. ASSUME NEW t \in Txs, Doubtful(t, payments[t])
      PROVE  RowOK(t, payments[t], svc'[s], cursors[s], seen[s])
  <2>1. RowOK(t, payments[t], svc[s], cursors[s], seen[s])
    BY <1>4, HeldFacts
  <2>2. payments[t].block \in Int /\ svc[s].fork \in Int
    BY HeldFacts, ChainAssumption DEF PaymentRows, TickLocals, Heights
  <2>3. t \in Affected(s)
    BY <1>1, <1>4, <2>1, <2>2 DEF RowOK, Affected, Unwinding, Doubtful
  <2>4. QED BY <1>1, <1>2, <2>1, <2>3 DEF RowOK, Holding, Unwinding, Recomputing
<1>5. QED BY <1>1, <1>3, <1>4 DEF LocalOK

LEMMA LocateTxHeld ==
  ASSUME NEW s \in Services, HeldTick(s), LocateTx(s)
  PROVE  LocalOK(svc'[s], cursors'[s], seen'[s], payments')
<1>1. svc[s].pc = "locate" /\ UNCHANGED <<payments, cursors, seen>>
  BY DEF LocateTx, At, ledgerVars
<1>2. PICK u \in svc[s].rows :
        svc' = [svc EXCEPT ![s].pc = "relocate", ![s].tx = u, ![s].rows = @ \ {u},
                  ![s].found = IF minedAt[u] = Unmined THEN {} ELSE SightingsOf({u}, minedAt[u])]
  BY DEF LocateTx
<1>3. /\ svc'[s].watched = svc[s].watched /\ svc'[s].plan = svc[s].plan
      /\ svc'[s].pc = "relocate" /\ svc'[s].fork = svc[s].fork
      /\ svc'[s].rows = svc[s].rows \ {u} /\ svc'[s].tx = u
      /\ svc'[s].found \subseteq SightingsOf({u}, minedAt[u])
  BY <1>2, HeldFacts DEF TickLocals
<1>4. \A f \in SightingsOf({u}, minedAt[u]) : f.tx = u /\ RightAt(f.tx, f.block, f.hash)
  BY DEF SightingsOf, RightAt
<1>5. SightsOK(svc'[s], cursors'[s]) /\ PlanOK(svc'[s], cursors'[s])
  BY <1>3, <1>4, HeldFacts DEF SightsOK, PlanOK, Applying, Holding, Recomputing
<1>6. ASSUME NEW t \in Txs, Doubtful(t, payments[t])
      PROVE  RowOK(t, payments[t], svc'[s], cursors[s], seen[s])
  <2>1. RowOK(t, payments[t], svc[s], cursors[s], seen[s])
    BY <1>6, HeldFacts
  <2>2. QED BY <1>1, <1>3, <2>1 DEF RowOK, Holding, Unwinding, Recomputing
<1>7. QED BY <1>1, <1>5, <1>6 DEF LocalOK

\* The row being handled is moved to where its transaction is, or is open no
\* more; either way it is not doubtful any longer.
LEMMA RelocateHeld ==
  ASSUME NEW s \in Services, HeldTick(s), ReorgReset(s) \/ ReorgOrphan(s)
  PROVE  LocalOK(svc'[s], cursors'[s], seen'[s], payments')
<1>1. svc[s].pc = "relocate" /\ UNCHANGED <<cursors, seen>>
  BY DEF ReorgReset, ReorgOrphan, At
<1>2. svc' = [svc EXCEPT ![s].pc = "sum", ![s].ret = "locate", ![s].found = {}]
  BY DEF ReorgReset, ReorgOrphan, RecomputeThen
<1>3. /\ svc'[s].watched = svc[s].watched /\ svc'[s].plan = svc[s].plan
      /\ svc'[s].pc = "sum" /\ svc'[s].ret = "locate" /\ svc'[s].fork = svc[s].fork
      /\ svc'[s].rows = svc[s].rows /\ svc'[s].found = {}
  BY <1>2, HeldFacts DEF TickLocals
<1>4. SightsOK(svc'[s], cursors'[s]) /\ PlanOK(svc'[s], cursors'[s])
  BY <1>3, HeldFacts DEF SightsOK, PlanOK, Applying, Holding, Recomputing
<1>5. reorgs = 1
  <2>1. reorgs = 0 => svc[s].pc # "relocate"
    BY HeldFacts DEF CalmInv, Calm
  <2>2. QED BY <1>1, <2>1 DEF HeldTick
<1>6. ASSUME NEW t \in Txs, Doubtful(t, payments'[t])
      PROVE  t # svc[s].tx /\ payments'[t] = payments[t]
  <2>1. CASE ReorgReset(s)
    <3>1. PICK f \in svc[s].found : ResetPayment(svc[s].tx, f.block, f.hash)
      BY <2>1 DEF ReorgReset
    <3>2. f.tx = svc[s].tx /\ RightAt(f.tx, f.block, f.hash)
      BY <1>1, HeldFacts DEF SightsOK
    <3>3. CASE t = svc[s].tx
      <4>1. payments'[t].block = f.block /\ payments'[t].hash = f.hash
        BY <3>1, <3>3, HeldFacts DEF ResetPayment
      <4>2. QED BY <1>5, <1>6, <3>2, <3>3, <4>1 DEF Doubtful
    <3>4. QED BY <3>1, <3>3, HeldFacts DEF ResetPayment
  <2>2. CASE ReorgOrphan(s)
    <3>1. payments' = [payments EXCEPT ![svc[s].tx].status = "orphaned", ![svc[s].tx].confs = 0]
      BY <2>2 DEF ReorgOrphan, OrphanPayment
    <3>2. CASE t = svc[s].tx
      <4>1. payments'[t].status = "orphaned"
        BY <3>1, <3>2, HeldFacts DEF PaymentRows
      <4>2. QED BY <1>6, <4>1 DEF Doubtful
    <3>3. QED BY <3>1, <3>2, HeldFacts
  <2>3. QED BY <2>1, <2>2
<1>7. ASSUME NEW t \in Txs, Doubtful(t, payments'[t])
      PROVE  RowOK(t, payments'[t], svc'[s], cursors[s], seen[s])
  <2>1. t # svc[s].tx /\ payments'[t] = payments[t]
    BY <1>6, <1>7
  <2>2. RowOK(t, payments[t], svc[s], cursors[s], seen[s])
    BY <1>7, <2>1, HeldFacts
  <2>3. QED BY <1>1, <1>3, <2>1, <2>2 DEF RowOK, Holding, Unwinding, Recomputing
<1>8. QED BY <1>1, <1>4, <1>7 DEF LocalOK

\* The cursor goes back when no doubtful row is left.
LEMMA RewindHeld ==
  ASSUME NEW s \in Services, HeldTick(s), Rewind(s)
  PROVE  LocalOK(svc'[s], cursors'[s], seen'[s], payments')
<1>1. svc[s].pc = "locate" /\ svc[s].rows = {} /\ UNCHANGED <<payments, seen>>
  BY DEF Rewind, At, ledgerVars
<1>2. svc'[s].plan = svc[s].plan /\ svc'[s].pc = "skip"
  BY HeldFacts DEF Rewind, TickLocals
<1>3. SightsOK(svc'[s], cursors'[s]) /\ PlanOK(svc'[s], cursors'[s])
  BY <1>2, HeldFacts DEF SightsOK, PlanOK, Applying, Holding, Recomputing
<1>4. ASSUME NEW t \in Txs, Doubtful(t, payments[t]) PROVE FALSE
  <2>1. RowOK(t, payments[t], svc[s], cursors[s], seen[s])
    BY <1>4, HeldFacts
  <2>2. QED BY <1>1, <2>1 DEF RowOK, Unwinding
<1>5. QED BY <1>1, <1>3, <1>4 DEF LocalOK
-----------------------------------------------------------------------------
\* The scan.  The cursor is not parked beyond a doubtful row that the plan
\* still follows.
LEMMA SkipHeld ==
  ASSUME NEW s \in Services, HeldTick(s), SkipDeadSpace(s), SmallReorgs
  PROVE  LocalOK(svc'[s], cursors'[s], seen'[s], payments')
<1>1. PICK to \in Heights \cup {-1}, step \in {"chunk", "refresh"} :
        /\ to <= Ceiling(s)
        /\ \A h \in svc[s].plan : h > cursors[s].block => to < h
        /\ step = "chunk" => \E h \in svc[s].plan : h > cursors[s].block /\ to \in {h - 1, Ceiling(s)}
        /\ svc'[s] = [svc[s] EXCEPT !.pc = step]
        /\ Jumped(s, to)
        /\ UNCHANGED <<chainVars, ledgerVars>>
  BY JumpSteps DEF HeldTick
<1>2. svc[s].pc = "skip" /\ UNCHANGED payments
  BY <1>1 DEF SkipDeadSpace, At, ledgerVars
<1>3. /\ svc'[s].watched = svc[s].watched /\ svc'[s].plan = svc[s].plan /\ svc'[s].tip = svc[s].tip
      /\ svc'[s].pc = step
  BY <1>1, HeldFacts DEF TickLocals
<1>4. /\ cursors[s].block \in Int /\ -1 <= cursors[s].block /\ to \in Int
      /\ svc[s].plan \subseteq Heights
      /\ Ceiling(s) = svc[s].tip - 1 /\ svc[s].tip \in Nat /\ svc[s].tip <= MaxTip /\ MaxTip \in Nat
  BY HeldFacts, ChainAssumption DEF Cursors, TickLocals, Heights, Ceiling
<1>5. PlanOK(svc'[s], cursors'[s])
  <2>1. ASSUME step = "chunk"
        PROVE  cursors'[s].block + 1 \in svc[s].plan \/ svc[s].tip - 1 <= cursors'[s].block
    <3>1. PICK h \in svc[s].plan : h > cursors[s].block /\ to \in {h - 1, Ceiling(s)}
      BY <1>1, <2>1
    <3>2. h \in Int
      BY <1>4, ChainAssumption DEF Heights
    <3>3. CASE to <= cursors[s].block /\ cursors' = cursors
      <4>1. CASE to = h - 1
        <5>1. cursors'[s].block + 1 = h
          BY <1>4, <3>1, <3>2, <3>3, <4>1
        <5>2. QED BY <5>1
      <4>2. CASE to = Ceiling(s)
        BY <1>4, <3>3, <4>2
      <4>3. QED BY <3>1, <4>1, <4>2
    <3>4. CASE cursors'[s].block = to
      <4>1. CASE to = h - 1
        <5>1. cursors'[s].block + 1 = h
          BY <1>4, <3>2, <3>4, <4>1
        <5>2. QED BY <5>1
      <4>2. CASE to = Ceiling(s)
        BY <1>4, <3>4, <4>2
      <4>3. QED BY <3>1, <4>1, <4>2
    <3>5. QED BY <1>1, <3>3, <3>4 DEF Jumped
  <2>2. QED BY <1>3, <2>1, HeldFacts DEF PlanOK, Applying, Recomputing
<1>6. SightsOK(svc'[s], cursors'[s])
  BY <1>3 DEF SightsOK, Applying, Holding, Recomputing
<1>7. ASSUME NEW t \in Txs, Doubtful(t, payments[t])
      PROVE  RowOK(t, payments[t], svc'[s], cursors'[s], seen'[s])
  <2> DEFINE b == payments[t].block
             c == cursors[s].block
  <2>1. RowOK(t, payments[t], svc[s], cursors[s], seen[s])
    BY <1>7, HeldFacts
  <2>2. Under(b, cursors[s], seen[s])
    BY <1>2, <2>1 DEF RowOK, Holding, Recomputing
  <2>3. b \in Nat
    BY HeldFacts, ChainAssumption DEF PaymentRows, Heights
  <2>4. Under(b, cursors'[s], seen'[s])
    <3>1. CASE to <= c /\ UNCHANGED <<cursors, seen>>
      BY <2>2, <3>1
    <3>2. CASE /\ to > c /\ cursors'[s] = [block |-> to, hash |-> hashAt[to]]
               /\ seen' = [seen EXCEPT ![s][to] = hashAt[to]]
      <4>1. c + 1 \in Heights /\ to \in Heights
        BY <1>1, <1>4, <3>2 DEF Heights
      <4>2. FINAL_CONFIRMATIONS \in Nat /\ MAX_REORG_DEPTH \in Nat /\ MaxReorgSpan \in Nat
        BY LedgerAssumption, WatcherAssumption, ChainAssumption
      <4>3. b + FINAL_CONFIRMATIONS + 1 <= c
        <5>1. SUFFICES ASSUME c + 1 <= b + FINAL_CONFIRMATIONS + 1 PROVE FALSE
          BY <1>4, <2>3, <4>2
        <5>2. b <= c + 1
          BY <1>4, <2>2, <2>3 DEF Under
        <5>3. c + 1 \in svc[s].plan
          BY <1>2, <2>1, <4>1, <5>1, <5>2 DEF RowOK
        <5>4. to < c + 1
          BY <1>1, <1>4, <5>3
        <5>5. QED BY <1>4, <3>2, <5>4
      <4>4. reorgs = 0
        <5>1. reorgs = 1 => c < b + MaxReorgSpan
          BY <2>2 DEF Under, Replaced
        <5>2. QED BY <1>4, <2>3, <4>2, <4>3, <5>1 DEF SmallReorgs, HeldTick
      <4>5. hashAt[to] = 0
        BY <4>1, <4>4, HeldFacts DEF CalmInv
      <4>6. Remembered(b, to, seen'[s])
        <5>1. SUFFICES ASSUME NEW h \in Heights, b <= h, h <= to, h <= b + FINAL_CONFIRMATIONS,
                              to - 2 * MAX_REORG_DEPTH <= h
                       PROVE  seen'[s][h] = 0
          BY DEF Remembered
        <5>2. h < c /\ c - 2 * MAX_REORG_DEPTH <= h /\ h # to /\ h \in Nat
          BY <1>4, <2>3, <3>2, <4>1, <4>2, <4>3, <5>1, ChainAssumption DEF Heights
        <5>3. seen'[s][h] = seen[s][h]
          BY <3>2, <5>2, HeldFacts
        <5>4. Remembered(b, c, seen[s])
          BY <2>2 DEF Under
        <5>5. QED BY <1>4, <5>1, <5>2, <5>3, <5>4 DEF Remembered
      <4>7. b <= to
        BY <1>4, <2>2, <2>3, <3>2 DEF Under
      <4>8. QED BY <3>2, <4>4, <4>5, <4>6, <4>7 DEF Under
    <3>3. QED BY <1>1, <3>1, <3>2 DEF Jumped
  <2>5. QED BY <1>2, <1>3, <2>1, <2>4 DEF RowOK, Holding, Unwinding, Recomputing
<1>8. QED BY <1>2, <1>5, <1>6, <1>7 DEF LocalOK

LEMMA FetchChunkHeld ==
  ASSUME NEW s \in Services, HeldTick(s), FetchChunk(s)
  PROVE  LocalOK(svc'[s], cursors'[s], seen'[s], payments')
<1>1. PICK end \in Heights, rangeEnd \in Heights : Chunked(s, end, rangeEnd)
  BY ChunkStep DEF HeldTick
<1>2. /\ svc[s].pc = "chunk" /\ UNCHANGED <<payments, cursors, seen>>
      /\ svc'[s].watched = svc[s].watched /\ svc'[s].plan = svc[s].plan /\ svc'[s].pc = "block"
      /\ svc'[s].end = end /\ svc'[s].rangeEnd = rangeEnd /\ svc'[s].found = ChunkLogs(s, end)
  BY <1>1, HeldFacts DEF Chunked, TickLocals, ledgerVars
<1>3. PlanOK(svc'[s], cursors'[s])
  <2>1. cursors[s].block + 1 \in svc[s].plan
    <3>1. cursors[s].block + 1 <= svc[s].tip - 1
      BY DEF FetchChunk, CanScan, Ceiling
    <3>2. cursors[s].block \in Int /\ svc[s].tip \in Int
      BY HeldFacts, ChainAssumption DEF Cursors, TickLocals, Heights
    <3>3. QED BY <1>2, <3>1, <3>2, HeldFacts DEF PlanOK
  <2>2. svc[s].plan \in SUBSET Heights /\ cursors[s].block \in Int
    BY HeldFacts, ChainAssumption DEF TickLocals, Cursors, Heights
  <2>3. \A h \in Heights : cursors[s].block + 1 <= h /\ h <= rangeEnd => h \in svc[s].plan
    BY <1>1, <2>1, <2>2, ChunkIsPlanned DEF Chunked
  <2>4. \A h \in Heights : cursors[s].block < h => cursors[s].block + 1 <= h
    BY <2>2, ChainAssumption DEF Heights
  <2>5. end <= rangeEnd
    BY <1>1 DEF Chunked
  <2>6. QED BY <1>2, <2>3, <2>4, <2>5, HeldFacts DEF PlanOK
<1>4. SightsOK(svc'[s], cursors'[s])
  <2>1. ASSUME NEW f \in ChunkLogs(s, end) PROVE SightOK(f, svc'[s])
    <3>1. PICK h \in Heights \ {Unmined} :
            f.block = h /\ f.hash = hashAt[h] /\ minedAt[f.tx] = h /\ InvoiceOf[f.tx] \in svc[s].watched
            /\ f.tx \in Txs
      <4>1. PICK h \in cursors[s].block + 1 .. end, kinds \in SUBSET {"vault", "erc20"} :
              f \in SightingsOf(Payable(s, kinds, h), h)
        BY DEF ChunkLogs
      <4>2. h \in Heights
        <5>1. cursors[s].block \in Int /\ -1 <= cursors[s].block
          BY HeldFacts, ChainAssumption DEF Cursors, Heights
        <5>2. QED BY <4>1, <5>1, ChainAssumption DEF Heights
      <4>3. QED BY <4>1, <4>2 DEF SightingsOf, Payable
    <3>2. Registered(InvoiceOf[f.tx])
      BY <3>1 DEF HeldTick, MinedOK
    <3>3. QED BY <1>2, <3>1, <3>2 DEF SightOK, RightAt
  <2>2. QED BY <1>2, <2>1 DEF SightsOK, Holding, Recomputing
<1>5. ASSUME NEW t \in Txs, Doubtful(t, payments[t])
      PROVE  RowOK(t, payments[t], svc'[s], cursors[s], seen[s])
  <2>1. RowOK(t, payments[t], svc[s], cursors[s], seen[s])
    BY <1>5, HeldFacts
  <2>2. QED BY <1>2, <2>1 DEF RowOK, Holding, Unwinding, Recomputing
<1>6. QED BY <1>2, <1>3, <1>4, <1>5 DEF LocalOK

\* The next block is only fetched when it extends the cursor's, and no block
\* of the chain extends the one a wrong row has put the cursor on.
LEMMA GetBlockHeld ==
  ASSUME NEW s \in Services, HeldTick(s), GetBlock(s)
  PROVE  LocalOK(svc'[s], cursors'[s], seen'[s], payments')
<1> DEFINE m == cursors[s].block + 1
           native == SightingsOf(Payable(s, {"native"}, m), m)
           sighted == {f \in svc[s].found : f.block = m /\ f.hash = hashAt[m]}
<1>1. svc[s].pc = "block" /\ UNCHANGED <<payments, cursors, seen>>
  BY DEF GetBlock, At, ledgerVars
<1>2. m \in Heights /\ cursors[s].block \in Heights \cup {-1}
  <2>1. /\ cursors[s].block \in Heights \cup {-1} /\ svc[s].end \in Heights
        /\ cursors[s].block < svc[s].end
    BY <1>1, TickFacts DEF HeldTick, Cursors, TickLocals, LocalsOK, Applying
  <2>2. QED BY <2>1, ChainAssumption DEF Heights
<1>3. /\ \A f \in svc[s].found : SightOK(f, svc[s])
      /\ PlanOK(svc[s], cursors[s])
  BY <1>1, HeldFacts DEF SightsOK, Applying
<1>4. ASSUME NEW t \in Txs, Doubtful(t, payments[t])
      PROVE  /\ RowOK(t, payments[t], svc[s], cursors[s], seen[s])
             /\ Under(payments[t].block, cursors[s], seen[s])
  BY <1>1, <1>4, HeldFacts DEF RowOK, Holding, Recomputing
<1>5. CASE ~Extends(s)
  <2>1. /\ svc'[s].watched = svc[s].watched /\ svc'[s].plan = svc[s].plan /\ svc'[s].pc = "refresh"
    BY <1>5, HeldFacts DEF GetBlock, TickLocals
  <2>2. SightsOK(svc'[s], cursors'[s]) /\ PlanOK(svc'[s], cursors'[s])
    BY <1>3, <2>1 DEF SightsOK, PlanOK, Applying, Holding, Recomputing
  <2>3. ASSUME NEW t \in Txs, Doubtful(t, payments[t])
        PROVE  RowOK(t, payments[t], svc'[s], cursors[s], seen[s])
    BY <1>1, <1>4, <2>1, <2>3 DEF RowOK, Holding, Unwinding, Recomputing
  <2>4. QED BY <1>1, <2>2, <2>3 DEF LocalOK
<1>6. CASE Extends(s)
  <2> HIDE DEF m, native, sighted
  <2>1. svc' = [svc EXCEPT ![s].pc = "apply", ![s].anchor = hashAt[m],
                  ![s].todo = native \cup sighted, ![s].found = {f \in @ : f.block # m}]
    BY <1>6 DEF GetBlock, m, native, sighted
  <2>2. /\ svc'[s].watched = svc[s].watched /\ svc'[s].plan = svc[s].plan /\ svc'[s].pc = "apply"
        /\ svc'[s].end = svc[s].end /\ svc'[s].rangeEnd = svc[s].rangeEnd
        /\ svc'[s].anchor = hashAt[m] /\ svc'[s].todo = native \cup sighted
        /\ svc'[s].found \subseteq svc[s].found
    BY <2>1, HeldFacts DEF TickLocals
  <2>3. PlanOK(svc'[s], cursors'[s])
    BY <1>1, <1>3, <2>2 DEF PlanOK, Applying
  <2>4. ASSUME NEW f \in native \cup sighted
        PROVE  SightOK(f, svc'[s]) /\ f.block = m /\ f.hash = hashAt[m]
    <3>1. CASE f \in native
      <4>1. /\ f.tx \in Txs /\ minedAt[f.tx] = m /\ m # Unmined
            /\ InvoiceOf[f.tx] \in svc[s].watched /\ f.block = m /\ f.hash = hashAt[m]
        BY <3>1 DEF native, SightingsOf, Payable
      <4>2. Registered(InvoiceOf[f.tx])
        BY <4>1 DEF HeldTick, MinedOK
      <4>3. QED BY <2>2, <4>1, <4>2 DEF SightOK, RightAt
    <3>2. CASE f \in sighted
      BY <1>3, <2>2, <3>2 DEF sighted, SightOK
    <3>3. QED BY <3>1, <3>2
  <2>5. SightsOK(svc'[s], cursors'[s])
    <3>1. \A f \in svc'[s].found : SightOK(f, svc'[s])
      BY <1>3, <2>2 DEF SightOK
    <3>2. m = cursors'[s].block + 1
      BY <1>1 DEF m
    <3>3. QED BY <2>2, <2>4, <3>1, <3>2 DEF SightsOK
  <2>6. ASSUME NEW t \in Txs, Doubtful(t, payments[t])
        PROVE  RowOK(t, payments[t], svc'[s], cursors[s], seen[s])
    <3>1. reorgs = 0
      <4>1. hashAt[cursors[s].block] = 0
        BY <1>4, <1>6, <2>6 DEF Extends, Under, NoHash
      <4>2. cursors[s].block \in Heights /\ cursors[s].block <= cursors[s].block
            /\ payments[t].block <= cursors[s].block
        <5>1. payments[t].block \in Heights
          BY HeldFacts DEF PaymentRows
        <5>2. payments[t].block <= cursors[s].block
          BY <1>4, <2>6 DEF Under
        <5>3. QED BY <1>2, <5>1, <5>2, ChainAssumption DEF Heights
      <4>3. reorgs = 1 => hashAt[cursors[s].block] = 1
        BY <1>4, <2>6, <4>2 DEF Under, Replaced
      <4>4. QED BY <4>1, <4>3 DEF HeldTick
    <3>2. hashAt[m] = 0
      BY <1>2, <3>1, HeldFacts DEF CalmInv, m
    <3>3. QED BY <1>1, <1>4, <2>2, <2>6, <3>1, <3>2 DEF RowOK, Holding, Unwinding, Recomputing
  <2>7. QED BY <1>1, <2>3, <2>5, <2>6 DEF LocalOK
<1>7. QED BY <1>5, <1>6

\* A row that is applied is right, or one more of a replaced block.
LEMMA ApplyHeld ==
  ASSUME NEW s \in Services, HeldTick(s), Apply(s)
  PROVE  LocalOK(svc'[s], cursors'[s], seen'[s], payments')
<1>1. PICK f \in svc[s].todo : Applied(s, f)
  BY ApplyStep DEF HeldTick
<1>2. /\ svc[s].pc = "apply" /\ UNCHANGED <<cursors, seen>>
      /\ svc'[s].watched = svc[s].watched /\ svc'[s].plan = svc[s].plan /\ svc'[s].pc = "sum"
      /\ svc'[s].ret = "apply" /\ svc'[s].end = svc[s].end /\ svc'[s].rangeEnd = svc[s].rangeEnd
      /\ svc'[s].anchor = svc[s].anchor /\ svc'[s].todo = svc[s].todo \ {f}
      /\ svc'[s].found = svc[s].found
  BY <1>1, HeldFacts DEF Applied, TickLocals
<1>3. /\ Applying(svc[s]) /\ Holding(svc[s]) /\ Applying(svc'[s]) /\ Holding(svc'[s])
      /\ ~Unwinding(svc'[s])
  BY <1>2 DEF Applying, Holding, Unwinding, Recomputing
<1>4. SightsOK(svc'[s], cursors'[s]) /\ PlanOK(svc'[s], cursors'[s])
  BY <1>2, <1>3, HeldFacts DEF SightsOK, SightOK, PlanOK
<1>5. /\ SightOK(f, svc[s]) /\ f.block = cursors[s].block + 1 /\ f.hash = svc[s].anchor
      /\ f \in Sightings
  BY <1>3, HeldFacts DEF SightsOK, TickLocals
<1>6. ASSUME NEW t \in Txs, payments'[t] = payments[t], Doubtful(t, payments[t])
      PROVE  RowOK(t, payments'[t], svc'[s], cursors[s], seen[s])
  <2>1. RowOK(t, payments[t], svc[s], cursors[s], seen[s])
    BY <1>6, HeldFacts
  <2>2. QED BY <1>2, <1>3, <1>6, <2>1 DEF RowOK
<1>7. ASSUME NEW t \in Txs, Doubtful(t, payments'[t]), t = f.tx,
             payments'[t].block = f.block, payments'[t].hash = f.hash
      PROVE  RowOK(t, payments'[t], svc'[s], cursors[s], seen[s])
  <2>1. reorgs = 0 => RightAt(t, f.block, f.hash) /\ f.hash = 0
    <3>1. reorgs = 0 => hashAt[f.block] = 0
      BY <1>5, HeldFacts DEF CalmInv, Sightings
    <3>2. QED BY <1>5, <1>7, <3>1 DEF SightOK, Stale, RightAt
  <2>2. reorgs = 1 => f.hash = 0 /\ Replaced(f.block, cursors[s].block + 1)
    <3>1. SUFFICES ASSUME reorgs = 1 PROVE f.hash = 0 /\ Replaced(f.block, cursors[s].block + 1)
      OBVIOUS
    <3>2. f.hash = 0 /\ hashAt[f.block] = 1
      BY <1>5, <1>7, <3>1 DEF SightOK, Stale, Doubtful
    <3>3. MaxReorgSpan \in Nat /\ 1 <= MaxReorgSpan /\ f.block \in Int
      BY <1>5, <3>1, ChainAssumption DEF HeldTick, MinedOK, Sightings, Heights
    <3>4. \A h \in Heights : f.block <= h /\ h <= f.block => hashAt[h] = 1
      BY <3>2, <3>3, ChainAssumption DEF Heights
    <3>5. QED BY <1>5, <3>2, <3>3, <3>4 DEF Replaced
  <2>3. f.hash = 0
    BY <2>1, <2>2 DEF HeldTick
  <2>4. QED BY <1>2, <1>3, <1>5, <1>7, <2>1, <2>2, <2>3 DEF RowOK, SightOK
<1>8. ASSUME NEW t \in Txs
      PROVE  \/ payments'[t] = payments[t]
             \/ t = f.tx /\ payments'[t].block = f.block /\ payments'[t].hash = f.hash
  <2>1. payments[t] \in PaymentRows
    BY HeldFacts
  <2>2. CASE InsertPayment(f.tx, f.block, f.hash)
    BY <2>1, <2>2, HeldFacts DEF InsertPayment
  <2>3. CASE RelocatePayment(f.tx, f.block, f.hash)
    BY <2>1, <2>3, HeldFacts DEF RelocatePayment, PaymentRows
  <2>4. QED BY <1>1, <2>2, <2>3 DEF Applied
<1>9. QED BY <1>2, <1>4, <1>6, <1>7, <1>8 DEF LocalOK

\* The cursor follows: what was held is under it.
LEMMA AdvanceHeld ==
  ASSUME NEW s \in Services, HeldTick(s), Advance(s)
  PROVE  LocalOK(svc'[s], cursors'[s], seen'[s], payments')
<1>1. PICK m \in Heights, used \in Nat, step \in {"block", "chunk", "refresh", "gap"} :
        Advanced(s, m, used, step)
  BY AdvanceStep DEF HeldTick
<1>2. /\ svc[s].pc = "apply" /\ UNCHANGED payments
      /\ svc'[s].watched = svc[s].watched /\ svc'[s].plan = svc[s].plan /\ svc'[s].pc = step
      /\ svc'[s].end = svc[s].end /\ svc'[s].rangeEnd = svc[s].rangeEnd
      /\ svc'[s].found = svc[s].found
      /\ cursors'[s].block = m /\ cursors'[s].hash = svc[s].anchor
      /\ seen' = [seen EXCEPT ![s][m] = svc[s].anchor]
  BY <1>1, HeldFacts DEF Advanced, TickLocals, ledgerVars
<1>3. /\ m = cursors[s].block + 1 /\ m <= svc[s].end /\ svc[s].end \in Heights
      /\ cursors[s].block \in Int /\ svc[s].rangeEnd \in Heights /\ m \in Nat /\ MaxTip \in Nat
      /\ svc[s].plan \in SUBSET Heights
  BY <1>1, HeldFacts, ChainAssumption DEF Advanced, HeldTick, TickLocals, Cursors, Heights
<1>4. Applying(svc[s]) /\ Holding(svc[s]) /\ ~Holding(svc'[s]) /\ ~Unwinding(svc'[s])
  BY <1>2 DEF Applying, Holding, Unwinding, Recomputing
<1>5. SightsOK(svc'[s], cursors'[s])
  BY <1>2, <1>4, HeldFacts DEF SightsOK, SightOK
<1>6. PlanOK(svc'[s], cursors'[s])
  <2>1. /\ IsRun(svc[s].plan) /\ svc[s].end <= svc[s].rangeEnd
        /\ \A h \in Heights : cursors[s].block < h /\ h <= svc[s].rangeEnd => h \in svc[s].plan
    BY <1>4, HeldFacts DEF PlanOK
  <2>2. step = "chunk" => m + 1 \in svc[s].plan
    <3>1. m + 1 <= svc[s].rangeEnd => m + 1 \in Heights /\ cursors[s].block < m + 1
      BY <1>3 DEF Heights
    <3>2. QED BY <1>1, <2>1, <3>1 DEF Advanced
  <2>3. step # "gap"
    <3>1. SUFFICES ASSUME m + 1 \notin svc[s].plan, NEW h \in svc[s].plan, m + 1 <= h PROVE FALSE
      BY <1>1 DEF Advanced
    <3>2. m \in Heights /\ cursors[s].block < m /\ m <= svc[s].rangeEnd
      BY <1>3, <2>1 DEF Heights
    <3>3. m \in svc[s].plan
      BY <2>1, <3>2
    <3>4. m + 1 \in Heights /\ m <= m + 1
      BY <1>3, <3>1 DEF Heights
    <3>5. QED BY <2>1, <3>1, <3>3, <3>4 DEF IsRun
  <2>4. \A h \in Heights : m < h => cursors[s].block < h
    BY <1>3 DEF Heights
  <2>5. QED BY <1>2, <2>1, <2>2, <2>3, <2>4 DEF PlanOK
<1>7. ASSUME NEW t \in Txs, Doubtful(t, payments[t])
      PROVE  RowOK(t, payments[t], svc'[s], cursors'[s], seen'[s])
  <2> DEFINE b == payments[t].block
             c == cursors[s].block
  <2>1. RowOK(t, payments[t], svc[s], cursors[s], seen[s])
    BY <1>7, HeldFacts
  <2>2. svc[s].anchor = 0 /\ (reorgs = 1 => Replaced(b, m))
    BY <1>3, <1>4, <2>1 DEF RowOK
  <2>3. b \in Nat /\ b <= m /\ (b = m \/ Remembered(b, c, seen[s]))
    <3>1. b \in Nat
      BY HeldFacts, ChainAssumption DEF PaymentRows, Heights
    <3>2. Under(b, cursors[s], seen[s]) \/ b = m
      BY <1>3, <2>1 DEF RowOK
    <3>3. QED BY <1>3, <3>1, <3>2 DEF Under
  <2>4. Remembered(b, m, seen'[s])
    <3>1. SUFFICES ASSUME NEW h \in Heights, b <= h, h <= m, h <= b + FINAL_CONFIRMATIONS,
                          m - 2 * MAX_REORG_DEPTH <= h
                   PROVE  seen'[s][h] = 0
      BY DEF Remembered
    <3>2. CASE h = m
      BY <1>2, <2>2, <3>2, HeldFacts
    <3>3. CASE h # m
      <4>1. h <= c /\ c - 2 * MAX_REORG_DEPTH <= h /\ b # m
        BY <1>3, <2>3, <3>1, <3>3, WatcherAssumption DEF Heights
      <4>2. seen[s][h] = 0
        BY <2>3, <3>1, <4>1 DEF Remembered
      <4>3. QED BY <1>2, <3>3, <4>2, HeldFacts
    <3>4. QED BY <3>2, <3>3
  <2>5. Under(b, cursors'[s], seen'[s])
    BY <1>2, <2>2, <2>3, <2>4 DEF Under
  <2>6. QED BY <1>2, <1>4, <2>1, <2>5 DEF RowOK
<1>8. QED BY <1>2, <1>5, <1>6, <1>7 DEF LocalOK
-----------------------------------------------------------------------------
\* The rest of the tick keeps its hands off the cursor and what is under it.
LEMMA RefreshingMore ==
  ASSUME TypeInv, NEW s \in Services, Refreshing(s)
  PROVE  /\ svc[s].pc \in {"chunk", "refresh", "select", "promote", "confirmed", "finalize", "finalized"}
         /\ svc'[s].plan \in {svc[s].plan, {}}
         /\ UNCHANGED seen
<1>1. svc \in [Services -> TickLocals] /\ svc[s] \in TickLocals
  BY DEF TypeInv, TypeOK
<1>2. CASE StopScanning(s)
  BY <1>1, <1>2 DEF StopScanning, Go, At, TickLocals
<1>3. CASE Recount(s)
  BY <1>1, <1>3 DEF Recount, At, TickLocals
<1>4. CASE SelectOpen(s)
  <2>1. PICK open, snap :
          svc' = [svc EXCEPT ![s].pc = "promote", ![s].rows = open, ![s].snap = snap]
    BY <1>4, Zenon DEF SelectOpen
  <2>2. svc[s].pc = "select" /\ UNCHANGED seen
    BY <1>4, Zenon DEF SelectOpen, At
  <2>3. QED BY <1>1, <2>1, <2>2 DEF TickLocals
<1>5. CASE PromoteNext(s)
  BY <1>1, <1>5 DEF PromoteNext, At, TickLocals
<1>6. CASE NotifyConfirmed(s) \/ Finalize(s) \/ NotifyFinalized(s)
  BY <1>1, <1>6 DEF NotifyConfirmed, Finalize, NotifyFinalized, Go, At, TickLocals
<1>7. QED BY <1>2, <1>3, <1>4, <1>5, <1>6 DEF Refreshing

LEMMA RefreshingHeld ==
  ASSUME NEW s \in Services, HeldTick(s), Refreshing(s)
  PROVE  LocalOK(svc'[s], cursors'[s], seen'[s], payments')
<1>1. /\ svc[s].pc \in {"chunk", "refresh", "select", "promote", "confirmed", "finalize", "finalized"}
      /\ svc'[s].plan \in {svc[s].plan, {}} /\ UNCHANGED <<cursors, seen>>
      /\ svc'[s].pc \in {"refresh", "select", "promote", "confirmed", "finalize", "finalized", "sum"}
      /\ svc'[s].pc = "sum" => svc'[s].ret = "promote"
      /\ svc'[s].watched = svc[s].watched
  BY RefreshingMore, RefreshingSteps DEF HeldTick
<1>2. ~Holding(svc[s]) /\ ~Holding(svc'[s]) /\ ~Applying(svc'[s]) /\ ~Unwinding(svc'[s])
  BY <1>1 DEF Applying, Holding, Unwinding, Recomputing
<1>3. SightsOK(svc'[s], cursors'[s])
  BY <1>1, <1>2 DEF SightsOK
<1>4. PlanOK(svc'[s], cursors'[s])
  BY <1>1, <1>2, HeldFacts DEF PlanOK, IsRun
<1>5. ASSUME NEW t \in Txs, Doubtful(t, payments'[t])
      PROVE  RowOK(t, payments'[t], svc'[s], cursors[s], seen[s])
  <2>1. TickStep(s) /\ ~(Apply(s) \/ ReorgReset(s) \/ ReorgOrphan(s))
    BY <1>1 DEF TickStep, Refreshing, Apply, ReorgReset, ReorgOrphan, At
  <2>2. /\ Doubtful(t, payments[t])
        /\ payments'[t].block = payments[t].block /\ payments'[t].hash = payments[t].hash
    BY <1>5, <2>1, KeptRows DEF HeldTick
  <2>3. RowOK(t, payments[t], svc[s], cursors[s], seen[s])
    BY <2>2, HeldFacts
  <2>4. QED BY <1>1, <1>2, <2>2, <2>3 DEF RowOK
<1>6. QED BY <1>1, <1>3, <1>4, <1>5 DEF LocalOK

LEMMA TotallingMore ==
  ASSUME TypeInv, NEW s \in Services, Totalling(s)
  PROVE  /\ svc'[s].rows = svc[s].rows /\ svc'[s].fork = svc[s].fork
         /\ svc'[s].rangeEnd = svc[s].rangeEnd
         /\ UNCHANGED seen
<1>1. svc \in [Services -> TickLocals] /\ svc[s] \in TickLocals
  BY DEF TypeInv, TypeOK
<1>2. CASE ReadTotal(s)
  BY <1>1, <1>2 DEF ReadTotal, TickLocals
<1>3. CASE SaveTotal(s)
  <2>1. CASE Finishes(InvoiceOf[svc[s].tx], svc[s].sum)
    BY <1>1, <1>3, <2>1 DEF SaveTotal, TickLocals
  <2>2. CASE ~Finishes(InvoiceOf[svc[s].tx], svc[s].sum)
    BY <1>1, <1>3, <2>2 DEF SaveTotal, TickLocals
  <2>3. QED BY <2>1, <2>2
<1>4. CASE NotifySettled(s)
  BY <1>1, <1>4 DEF NotifySettled, TickLocals
<1>5. QED BY <1>2, <1>3, <1>4 DEF Totalling

LEMMA TotallingHeld ==
  ASSUME NEW s \in Services, HeldTick(s), Totalling(s)
  PROVE  LocalOK(svc'[s], cursors'[s], seen'[s], payments')
<1>1. /\ Recomputing(svc[s]) /\ UNCHANGED <<payments, cursors, seen>>
      /\ \/ svc'[s].pc \in {"total", "settled"} /\ svc'[s].ret = svc[s].ret
         \/ svc'[s].pc = svc[s].ret /\ svc'[s].ret = "idle"
      /\ svc'[s].watched = svc[s].watched /\ svc'[s].plan = svc[s].plan
      /\ svc'[s].found = svc[s].found /\ svc'[s].todo = svc[s].todo
      /\ svc'[s].anchor = svc[s].anchor /\ svc'[s].end = svc[s].end
      /\ svc'[s].rows = svc[s].rows /\ svc'[s].fork = svc[s].fork
      /\ svc'[s].rangeEnd = svc[s].rangeEnd
  BY TotallingSteps, TotallingMore DEF HeldTick
<1>2. svc[s].ret \in {"locate", "apply", "promote"}
  BY <1>1, TickFacts DEF HeldTick, LocalsOK
<1>3. /\ Holding(svc'[s]) <=> Holding(svc[s])
      /\ Applying(svc'[s]) <=> Applying(svc[s])
      /\ Unwinding(svc'[s]) <=> Unwinding(svc[s])
      /\ svc'[s].pc \in {"total", "settled", "locate", "apply", "promote"}
      /\ svc[s].pc \notin {"idle", "unwind", "relocate"}
  BY <1>1, <1>2 DEF Applying, Holding, Unwinding, Recomputing
<1>4. SightsOK(svc'[s], cursors'[s])
  BY <1>1, <1>3, HeldFacts DEF SightsOK, SightOK
<1>5. PlanOK(svc'[s], cursors'[s])
  BY <1>1, <1>3, HeldFacts DEF PlanOK
<1>6. ASSUME NEW t \in Txs, Doubtful(t, payments[t])
      PROVE  RowOK(t, payments[t], svc'[s], cursors[s], seen[s])
  <2>1. RowOK(t, payments[t], svc[s], cursors[s], seen[s])
    BY <1>6, HeldFacts
  <2>2. QED BY <1>1, <1>3, <2>1 DEF RowOK
<1>7. QED BY <1>1, <1>4, <1>5, <1>6 DEF LocalOK

\* prune_seen_blocks leaves what detect_fork_point may have to look at.
LEMMA EndTickHeld ==
  ASSUME NEW s \in Services, HeldTick(s), EndTick(s)
  PROVE  LocalOK(svc'[s], cursors'[s], seen'[s], payments')
<1>1. /\ svc[s].pc = "promote" /\ UNCHANGED <<payments, cursors>>
      /\ svc'[s].pc = "idle" /\ svc'[s].plan = {}
  BY HeldFacts DEF EndTick, Idle, At, ledgerVars
<1>2. SightsOK(svc'[s], cursors'[s]) /\ PlanOK(svc'[s], cursors'[s])
  BY <1>1 DEF SightsOK, PlanOK, IsRun, Applying, Holding, Recomputing
<1>3. \A h \in Heights : ~(h < cursors[s].block - 2 * MAX_REORG_DEPTH) => seen'[s][h] = seen[s][h]
  BY HeldFacts DEF EndTick
<1>4. \A h \in Heights : cursors[s].block - 2 * MAX_REORG_DEPTH <= h
        => ~(h < cursors[s].block - 2 * MAX_REORG_DEPTH)
  <2>1. cursors[s].block \in Int /\ MAX_REORG_DEPTH \in Nat
    BY HeldFacts, ChainAssumption, WatcherAssumption DEF Cursors, Heights
  <2>2. QED BY <2>1, ChainAssumption DEF Heights
<1>5. ASSUME NEW t \in Txs, Doubtful(t, payments[t])
      PROVE  RowOK(t, payments[t], svc'[s], cursors[s], seen'[s])
  <2>1. RowOK(t, payments[t], svc[s], cursors[s], seen[s])
    BY <1>5, HeldFacts
  <2>2. Under(payments[t].block, cursors[s], seen[s])
    BY <1>1, <2>1 DEF RowOK, Holding, Recomputing
  <2>3. Under(payments[t].block, cursors[s], seen'[s])
    BY <1>3, <1>4, <2>2 DEF Under, Remembered
  <2>4. QED BY <1>1, <2>1, <2>3 DEF RowOK, Holding, Unwinding, Recomputing
<1>6. QED BY <1>1, <1>2, <1>5 DEF LocalOK

-----------------------------------------------------------------------------
\* A step of a tick, all in all.
LEMMA HeldTickStep ==
  ASSUME SmallReorgs, OneInvoice \/ Waiting, NEW s \in Services, HeldTick(s), TickStep(s), TypeInv'
  PROVE  TickOK(s)'
<1>1. CASE Opening(s)
  BY <1>1, LoadWatchedHeld, ReadTipHeld, ResumeHeld, DetectForkHeld, TickMoved DEF Opening, HeldTick
<1>2. CASE SelectAffected(s) \/ LocateTx(s) \/ ReorgReset(s) \/ ReorgOrphan(s) \/ Rewind(s)
  BY <1>2, SelectAffectedHeld, LocateTxHeld, RelocateHeld, RewindHeld, TickMoved DEF HeldTick
<1>3. CASE Walking(s)
  <2>1. ~GetAnchor(s)
    BY DEF GetAnchor, HeldTick
  <2>2. ~JumpGap(s)
    BY HeldFacts DEF JumpGap, At, PlanOK
  <2>3. QED BY <1>3, <2>1, <2>2, SkipHeld, FetchChunkHeld, GetBlockHeld, ApplyHeld, AdvanceHeld,
               TickMoved DEF Walking, HeldTick
<1>4. CASE Refreshing(s) \/ Totalling(s) \/ EndTick(s)
  BY <1>4, RefreshingHeld, TotallingHeld, EndTickHeld, TickMoved DEF HeldTick
<1>5. QED BY <1>1, <1>2, <1>3, <1>4 DEF TickStep, Opening, Walking, Refreshing, Totalling
-----------------------------------------------------------------------------
\* Between the steps of a tick.  A new block leaves what is right where it is,
\* and nothing that was wrong comes right by it.
LEMMA RegisteredStays ==
  ASSUME TypeInv, [Next]_vars, NEW t \in Txs, Registered(InvoiceOf[t])
  PROVE  Registered(InvoiceOf[t])'
<1>1. InvoiceOf[t] \in Invoices
  BY LedgerAssumption
<1>2. QED BY <1>1, InvoiceFields DEF Registered

LEMMA HeldStays ==
  ASSUME TypeInv, [Next]_vars, NEW s \in Services, TickOK(s), reorgs \in {0, 1},
         UNCHANGED <<payments, svc, cursors, seen, reorgs>>,
         \A t \in Txs, b \in Heights \ {Unmined} : \A hash : RightAt(t, b, hash) => RightAt(t, b, hash)',
         reorgs = 1 => \A h \in Heights : hashAt[h] = 1 => hashAt'[h] = 1
  PROVE  TickOK(s)'
<1>1. /\ svc[s] \in TickLocals
      /\ \A t \in Txs : Doubtful(t, payments[t]) => payments[t].block \in Heights \ {Unmined}
  <2>1. payments \in [Txs -> PaymentRows] /\ svc \in [Services -> TickLocals]
    BY DEF TypeInv, TypeOK, LedgerTypeOK
  <2>2. \A t \in Txs : Doubtful(t, payments[t]) => t \in Recorded
    BY DEF Doubtful, Recorded
  <2>3. QED BY <2>1, <2>2 DEF TypeInv, RowsMined, PaymentRows
<1>2. /\ Applying(svc[s])' = Applying(svc[s]) /\ Holding(svc[s])' = Holding(svc[s])
      /\ Unwinding(svc[s])' = Unwinding(svc[s])
  BY DEF Applying, Holding, Unwinding, Recomputing
<1>3. ASSUME NEW f \in Sightings, SightOK(f, svc[s])
      PROVE  SightOK(f, svc[s])'
  <2>1. f.tx \in Txs /\ f.block \in Heights \ {Unmined}
    BY DEF Sightings
  <2>2. QED BY <1>3, <2>1, RegisteredStays DEF SightOK, Stale
<1>4. SightsOK(svc[s], cursors[s])'
  <2>1. SightsOK(svc[s], cursors[s]) /\ svc[s].found \subseteq Sightings /\ svc[s].todo \subseteq Sightings
    BY <1>1 DEF TickOK, LocalOK, TickLocals
  <2>2. (Applying(svc[s]) => \A f \in svc[s].found : SightOK(f, svc[s]))'
    BY <1>2, <1>3, <2>1 DEF SightsOK
  <2>3. (Holding(svc[s]) => \A f \in svc[s].todo :
           SightOK(f, svc[s]) /\ f.block = cursors[s].block + 1 /\ f.hash = svc[s].anchor)'
    BY <1>2, <1>3, <2>1 DEF SightsOK
  <2>4. (svc[s].pc = "relocate" => \A f \in svc[s].found :
           f.tx = svc[s].tx /\ RightAt(f.tx, f.block, f.hash))'
    BY <2>1 DEF SightsOK, Sightings
  <2>5. QED BY <2>2, <2>3, <2>4 DEF SightsOK
<1>5. PlanOK(svc[s], cursors[s])'
  BY <1>2 DEF TickOK, LocalOK, PlanOK, IsRun
<1>6. ASSUME NEW t \in Txs, Doubtful(t, payments[t])'
      PROVE  RowOK(t, payments[t], svc[s], cursors[s], seen[s])'
  <2>1. Doubtful(t, payments[t])
    <3>1. payments[t].status \in {"detected", "merchant_confirmed"}
      BY <1>6 DEF Doubtful
    <3>2. payments[t].block \in Heights \ {Unmined}
      <4>1. payments[t] \in PaymentRows /\ t \in Recorded
        BY <3>1 DEF TypeInv, TypeOK, LedgerTypeOK, Recorded
      <4>2. QED BY <4>1 DEF TypeInv, RowsMined, PaymentRows
    <3>3. QED BY <1>6, <3>1, <3>2 DEF Doubtful
  <2>2. RowOK(t, payments[t], svc[s], cursors[s], seen[s])
    BY <2>1 DEF TickOK, LocalOK
  <2>3. RightAt(t, payments[t].block, payments[t].hash) => RightAt(t, payments[t].block, payments[t].hash)'
    BY <1>1, <2>1 DEF RightAt
  <2>4. ASSUME NEW low, NEW high, reorgs = 1, Replaced(low, high)
        PROVE  Replaced(low, high)'
    BY <2>4 DEF Replaced
  <2>5. Under(payments[t].block, cursors[s], seen[s])
          => Under(payments[t].block, cursors[s], seen[s])'
    BY <2>4 DEF Under, Remembered, Replaced
  <2>6. reorgs = 1 /\ Replaced(payments[t].block, cursors[s].block + 1)
          => Replaced(payments[t].block, cursors[s].block + 1)'
    BY <2>4 DEF Replaced
  <2>7. Registered(InvoiceOf[t])'
    BY <2>2, RegisteredStays DEF RowOK
  <2>8. QED BY <1>2, <2>2, <2>3, <2>5, <2>6, <2>7 DEF RowOK
<1>7. QED BY <1>4, <1>5, <1>6 DEF TickOK, LocalOK

LEMMA GrowHeld ==
  ASSUME TypeInv, HeldInv, reorgs \in {0, 1}, GrowChain
  PROVE  HeldInv'
<1>1. /\ tip \in Nat /\ tip + 1 \in Heights /\ tip' = tip + 1
      /\ hashAt \in [Heights -> Hashes] /\ minedAt \in [Txs -> Heights]
      /\ hashAt' = [hashAt EXCEPT ![tip + 1] = reorgs]
      /\ UNCHANGED <<payments, invoices, svc, cursors, seen, reorgs>>
  BY ChainAssumption DEF GrowChain, MineBlock, TypeInv, TypeOK, ChainTypeOK, ledgerVars, Heights
<1>2. ASSUME NEW t \in Txs
      PROVE  \/ minedAt'[t] = minedAt[t]
             \/ minedAt[t] = Unmined /\ minedAt'[t] = tip + 1 /\ Registered(InvoiceOf[t])
  BY DEF GrowChain, MineBlock, PayableTxs
<1>3. ASSUME NEW t \in Txs
      PROVE  minedAt[t] \in Nat /\ minedAt[t] <= tip /\ (minedAt[t] # Unmined => Registered(InvoiceOf[t]))
  BY <1>1, ChainAssumption DEF HeldInv, MinedOK, Heights
<1>4. MinedOK'
  <2>1. ASSUME NEW t \in Txs
        PROVE  minedAt'[t] <= tip' /\ (minedAt'[t] # Unmined => Registered(InvoiceOf[t])')
    BY <1>1, <1>2, <1>3 DEF Registered
  <2>2. QED BY <1>1, <2>1 DEF HeldInv, MinedOK
<1>5. ASSUME NEW t \in Txs, NEW b \in Heights \ {Unmined}, NEW hash, RightAt(t, b, hash)
      PROVE  RightAt(t, b, hash)'
  <2>1. minedAt[t] = b /\ hashAt[b] = hash /\ b # tip + 1 /\ minedAt'[t] = b
    BY <1>1, <1>2, <1>3, <1>5 DEF RightAt
  <2>2. QED BY <1>1, <2>1 DEF RightAt
<1>6. reorgs = 1 => \A h \in Heights : hashAt[h] = 1 => hashAt'[h] = 1
  BY <1>1
<1>7. ASSUME NEW s \in Services PROVE TickOK(s)'
  BY <1>1, <1>5, <1>6, HeldStays DEF HeldInv, Next
<1>8. QED BY <1>4, <1>7 DEF HeldInv

LEMMA QuietHeld ==
  ASSUME TypeInv, HeldInv, reorgs \in {0, 1}, CreateInvoice \/ ExpireInvoice \/ UNCHANGED vars
  PROVE  HeldInv'
<1>1. UNCHANGED <<payments, svc, cursors, seen, tip, hashAt, minedAt, reorgs>>
  BY DEF CreateInvoice, RegisterInvoice, ExpireInvoice, PassExpiry, vars, ledgerVars, chainVars
<1>2. MinedOK'
  BY <1>1, RegisteredStays DEF HeldInv, MinedOK, Next
<1>3. ASSUME NEW s \in Services PROVE TickOK(s)'
  BY <1>1, HeldStays DEF HeldInv, Next, RightAt
<1>4. QED BY <1>2, <1>3 DEF HeldInv

\* The reorganisation: what it left where it was is right, the rest is under
\* or at the cursors, which are below the tip.
LEMMA ReorgHeld ==
  ASSUME TypeInv, HeldInv, ScanInv, reorgs = 0, ReorgChain
  PROVE  HeldInv'
<1>1. /\ tip \in Nat /\ hashAt \in [Heights -> Hashes] /\ minedAt \in [Txs -> Heights]
      /\ MaxReorgSpan \in Nat /\ MaxTip \in Nat /\ tip <= MaxTip
      /\ reorgs' = 1 /\ tip' = tip
      /\ UNCHANGED <<payments, invoices, svc, cursors, seen>>
      /\ CalmInv /\ BehindInv
  BY ChainAssumption
     DEF ReorgChain, Reorganise, TypeInv, TypeOK, ChainTypeOK, ledgerVars, Heights, ScanInv
<1>2. PICK fork \in Heights :
        /\ fork < tip
        /\ tip - fork <= MaxReorgSpan
        /\ hashAt' = [h \in Heights |-> IF h \in fork + 1 .. tip THEN reorgs + 1 ELSE hashAt[h]]
        /\ \E moved \in [{t \in PayableTxs : minedAt[t] = Unmined \/ minedAt[t] > fork}
                           -> {Unmined} \cup (fork + 1 .. tip)] :
             minedAt' = [t \in Txs |-> IF t \in DOMAIN moved THEN moved[t] ELSE minedAt[t]]
  BY DEF ReorgChain, Reorganise
<1>3. PICK moved \in [{t \in PayableTxs : minedAt[t] = Unmined \/ minedAt[t] > fork}
                        -> {Unmined} \cup (fork + 1 .. tip)] :
        minedAt' = [t \in Txs |-> IF t \in DOMAIN moved THEN moved[t] ELSE minedAt[t]]
  BY <1>2
<1>4. fork \in Nat /\ \A h \in Heights : h \in Nat
  BY <1>1 DEF Heights
<1>5. \A h \in Heights : /\ hashAt[h] = 0
                         /\ h <= fork => hashAt'[h] = 0
                         /\ fork < h /\ h <= tip => hashAt'[h] = 1
  <2> SUFFICES ASSUME NEW h \in Heights
               PROVE  /\ hashAt[h] = 0
                      /\ h <= fork => hashAt'[h] = 0
                      /\ fork < h /\ h <= tip => hashAt'[h] = 1
    OBVIOUS
  <2>1. hashAt[h] = 0 /\ h \in Nat
    BY <1>1, <1>4 DEF CalmInv
  <2>2. hashAt'[h] = IF h \in fork + 1 .. tip THEN 1 ELSE 0
    BY <1>2, <2>1
  <2>3. QED BY <1>1, <1>4, <2>1, <2>2
<1>6. ASSUME NEW t \in Txs
      PROVE  /\ minedAt'[t] = minedAt[t] \/ (minedAt'[t] <= tip /\ Registered(InvoiceOf[t]))
             /\ minedAt[t] # Unmined /\ minedAt[t] <= fork => minedAt'[t] = minedAt[t]
  <2>1. minedAt[t] \in Nat
    BY <1>1, <1>4
  <2>2. CASE t \in DOMAIN moved
    BY <1>1, <1>3, <1>4, <2>1, <2>2 DEF PayableTxs, Unmined
  <2>3. CASE t \notin DOMAIN moved
    BY <1>3, <2>3
  <2>4. QED BY <2>2, <2>3
<1>7. MinedOK'
  <2>1. ASSUME NEW t \in Txs
        PROVE  minedAt'[t] <= tip' /\ (minedAt'[t] # Unmined => Registered(InvoiceOf[t])')
    BY <1>1, <1>6 DEF HeldInv, MinedOK, Registered
  <2>2. QED BY <1>1, <1>2, <1>4, <2>1 DEF MinedOK
<1>8. ASSUME NEW t \in Txs, NEW b \in Heights \ {Unmined}, NEW hash, RightAt(t, b, hash)
      PROVE  hash = 0 /\ b <= tip /\ (b <= fork => RightAt(t, b, hash)')
  <2>1. minedAt[t] = b /\ hashAt[b] = hash /\ b <= tip
    BY <1>8 DEF RightAt, HeldInv, MinedOK
  <2>2. QED BY <1>5, <1>6, <2>1 DEF RightAt
<1>9. ASSUME NEW low \in Nat, NEW high \in Int, fork < low, high <= tip
      PROVE  Replaced(low, high)'
  <2>1. high < low + MaxReorgSpan
    BY <1>1, <1>2, <1>4, <1>9
  <2>2. \A h \in Heights : low <= h /\ h <= high => hashAt'[h] = 1
    BY <1>1, <1>4, <1>5, <1>9
  <2>3. QED BY <2>1, <2>2 DEF Replaced
<1>10. ASSUME NEW s \in Services PROVE TickOK(s)'
  <2> DEFINE c == cursors[s].block
  <2>1. /\ svc[s] \in TickLocals /\ c \in Int /\ c < tip /\ Calm(svc[s])
        /\ payments \in [Txs -> PaymentRows]
    BY <1>1, BehindFacts DEF TypeInv, TypeOK, LedgerTypeOK, CalmInv, BehindInv, Behind
  <2>2. /\ Applying(svc[s])' = Applying(svc[s]) /\ Holding(svc[s])' = Holding(svc[s])
        /\ Unwinding(svc[s])' = FALSE /\ svc[s].pc # "relocate"
    BY <1>1, <2>1 DEF Applying, Holding, Unwinding, Recomputing, Calm
  <2>3. ASSUME NEW f \in Sightings, SightOK(f, svc[s])
        PROVE  SightOK(f, svc[s])'
    <3>1. /\ f.tx \in Txs /\ f.block \in Heights \ {Unmined}
          /\ RightAt(f.tx, f.block, f.hash)
      BY <2>3 DEF Sightings, SightOK, Stale
    <3>2. f.hash = 0 /\ f.block <= tip /\ (f.block <= fork => RightAt(f.tx, f.block, f.hash)')
      BY <1>8, <3>1
    <3>3. f.block <= fork \/ (f.hash = 0 /\ hashAt'[f.block] = 1)
      <4>1. f.block \in Heights /\ f.block \in Nat
        BY <1>4, <3>1
      <4>2. f.block <= fork \/ fork < f.block
        BY <1>4, <4>1
      <4>3. QED BY <1>5, <3>2, <4>1, <4>2
    <3>4. QED BY <1>1, <2>3, <3>1, <3>2, <3>3 DEF SightOK, Stale, Registered
  <2>4. SightsOK(svc[s], cursors[s])'
    <3>1. SightsOK(svc[s], cursors[s]) /\ svc[s].found \subseteq Sightings /\ svc[s].todo \subseteq Sightings
      BY <2>1 DEF HeldInv, TickOK, LocalOK, TickLocals
    <3>2. (Applying(svc[s]) => \A f \in svc[s].found : SightOK(f, svc[s]))'
      BY <1>1, <2>2, <2>3, <3>1 DEF SightsOK
    <3>3. (Holding(svc[s]) => \A f \in svc[s].todo :
             SightOK(f, svc[s]) /\ f.block = cursors[s].block + 1 /\ f.hash = svc[s].anchor)'
      BY <1>1, <2>2, <2>3, <3>1 DEF SightsOK
    <3>4. QED BY <1>1, <2>2, <3>2, <3>3 DEF SightsOK
  <2>5. PlanOK(svc[s], cursors[s])'
    BY <1>1, <2>2 DEF HeldInv, TickOK, LocalOK, PlanOK, IsRun
  <2>6. ASSUME NEW t \in Txs, Doubtful(t, payments[t])'
        PROVE  RowOK(t, payments[t], svc[s], cursors[s], seen[s])'
    <3> DEFINE b == payments[t].block
    <3>1. Doubtful(t, payments[t]) /\ ~RightAt(t, b, payments[t].hash)'
      BY <1>1, <2>6 DEF Doubtful, RightAt
    <3>2. b \in Heights \ {Unmined}
      <4>1. payments[t] \in PaymentRows /\ t \in Recorded
        BY <2>1, <3>1 DEF Doubtful, Recorded
      <4>2. QED BY <4>1 DEF TypeInv, RowsMined, PaymentRows
    <3>3. RowOK(t, payments[t], svc[s], cursors[s], seen[s])
      BY <3>1 DEF HeldInv, TickOK, LocalOK
    <3>4. fork < b
      <4>1. RightAt(t, b, payments[t].hash)
        BY <3>3 DEF RowOK
      <4>2. ~(b <= fork)
        BY <1>1, <1>8, <3>1, <3>2, <4>1 DEF RightAt
      <4>3. b \in Nat
        BY <1>4, <3>2
      <4>4. QED BY <1>4, <4>2, <4>3
    <3>5. Replaced(b, c)' /\ Replaced(b, c + 1)'
      <4>1. b \in Nat
        BY <1>4, <3>2
      <4>2. c <= tip /\ c + 1 <= tip /\ c + 1 \in Int /\ c \in Int
        BY <1>1, <2>1
      <4>3. QED BY <1>1, <1>9, <3>4, <4>1, <4>2 DEF Replaced
    <3>6. Under(b, cursors[s], seen[s]) => Under(payments[t].block, cursors[s], seen[s])'
      BY <1>1, <3>5 DEF Under, Remembered, Replaced
    <3>7. Replaced(payments[t].block, cursors[s].block + 1)'
      BY <1>1, <3>5 DEF Replaced
    <3>8. QED BY <1>1, <2>2, <3>3, <3>6, <3>7 DEF RowOK, Registered
  <2>7. QED BY <2>4, <2>5, <2>6 DEF TickOK, LocalOK
<1>11. QED BY <1>7, <1>10 DEF HeldInv
-----------------------------------------------------------------------------
LEMMA HeldInit == Init => HeldInv
<1> SUFFICES ASSUME Init PROVE HeldInv
  OBVIOUS
<1>1. MinedOK
  BY DEF Init, ChainInit, MinedOK, Unmined
<1>2. ASSUME NEW s \in Services PROVE TickOK(s)
  <2>1. svc[s] = Idle /\ Idle.pc = "idle" /\ Idle.plan = {}
    BY DEF Init, Idle
  <2>2. SightsOK(svc[s], cursors[s]) /\ PlanOK(svc[s], cursors[s])
    BY <2>1 DEF SightsOK, PlanOK, IsRun, Applying, Holding, Recomputing
  <2>3. \A t \in Txs : ~Doubtful(t, payments[t])
    BY DEF Init, LedgerInit, NoPayment, Doubtful
  <2>4. QED BY <2>2, <2>3 DEF TickOK, LocalOK
<1>3. QED BY <1>1, <1>2 DEF HeldInv

LEMMA FewReorgsStay == TypeInv /\ [Next]_vars /\ reorgs' <= 1 => reorgs \in {0, 1}
<1> SUFFICES ASSUME TypeInv, [Next]_vars, reorgs' <= 1 PROVE reorgs \in {0, 1}
  OBVIOUS
<1>1. reorgs \in Nat
  BY ChainAssumption DEF TypeInv, TypeOK, ChainTypeOK, Hashes
<1>2. ASSUME NEW s \in Services, TickStep(s) PROVE reorgs' = reorgs
  BY <1>2, ScanOthers DEF chainVars
<1>3. reorgs' \in {reorgs, reorgs + 1}
  BY <1>2 DEF Next, AbortTick, GrowChain, MineBlock, ReorgChain, Reorganise, CreateInvoice,
              ExpireInvoice, vars, chainVars
<1>4. QED BY <1>1, <1>3

LEMMA HeldNext ==
  ASSUME Services \subseteq {"addresses"}, SmallReorgs, OneInvoice \/ Waiting,
         TypeInv, TypeInv', reorgs = 0 => ScanInv, HeldInv, [Next]_vars, aborts' = 0, reorgs' <= 1
  PROVE  HeldInv'
<1>1. reorgs \in {0, 1}
  BY FewReorgsStay
<1>2. ASSUME NEW s \in Services, TickStep(s)
      PROVE  HeldInv'
  <2>1. UNCHANGED chainVars
    BY <1>2, ScanOthers
  <2>2. MinedOK'
    BY <2>1, RegisteredStays DEF HeldInv, MinedOK, chainVars
  <2>3. TickOK(s)'
    BY <1>1, <1>2, HeldTickStep DEF HeldTick, HeldInv
  <2>4. \A u \in Services : u = s
    OBVIOUS
  <2>5. QED BY <2>2, <2>3, <2>4 DEF HeldInv
<1>3. ASSUME NEW s \in Services PROVE ~AbortTick(s)
  BY DEF AbortTick, TypeInv, TypeOK
<1>4. CASE ReorgChain
  <2>1. reorgs = 0
    BY <1>1, <1>4 DEF ReorgChain, Reorganise
  <2>2. QED BY <1>4, <2>1, ReorgHeld
<1>5. CASE GrowChain
  BY <1>1, <1>5, GrowHeld
<1>6. CASE CreateInvoice \/ ExpireInvoice \/ UNCHANGED vars
  BY <1>1, <1>6, QuietHeld
<1>7. QED BY <1>2, <1>3, <1>4, <1>5, <1>6 DEF Next

LEMMA HeldInvariant ==
  ASSUME Services \subseteq {"addresses"}, SmallReorgs, OneInvoice \/ NoneSettles
  PROVE  Spec => [](TypeInv /\ (aborts = 0 /\ reorgs <= 1 => HeldInv))
<1>1. Spec => [](OneInvoice \/ Waiting)
  <2>1. CASE OneInvoice
    <3>1. OneInvoice \/ Waiting
      BY <2>1
    <3>2. QED BY <3>1, PTL
  <2>2. CASE NoneSettles
    <3>1. Spec => []Waiting
      BY <2>2, WaitingInvariant
    <3>2. Waiting => OneInvoice \/ Waiting
      OBVIOUS
    <3>3. QED BY <3>1, <3>2, PTL
  <2>3. QED BY <2>1, <2>2
<1>2. Spec => [](TypeInv /\ (reorgs = 0 => ScanInv))
  <2>1. OneService
    BY DEF OneService
  <2>2. QED BY <2>1, ScanInvariant
<1>3. ASSUME OneInvoice \/ Waiting, TypeInv, TypeInv', reorgs = 0 => ScanInv, [Next]_vars,
             aborts = 0 /\ reorgs <= 1 => HeldInv
      PROVE  (aborts = 0 /\ reorgs <= 1 => HeldInv)'
  <2>1. SUFFICES ASSUME aborts' = 0, reorgs' <= 1 PROVE HeldInv'
    OBVIOUS
  <2>2. aborts = 0 /\ reorgs <= 1
    BY <1>3, <2>1, AbortsStay, FewReorgsStay
  <2>3. QED BY <1>3, <2>1, <2>2, HeldNext
<1>4. Init => HeldInv
  BY HeldInit
<1>5. QED BY <1>1, <1>2, <1>3, <1>4, PTL DEF Spec

\* With one service, up to the second reorganisation and as long as no tick is
\* cut short, every open payment below a canonical cursor is where its row
\* says it is: detect_fork_point goes below every block that was replaced, and
\* handle_reorg moves or orphans every payment there.  For this a
\* reorganisation must be no deeper than MAX_REORG_DEPTH and
\* FINAL_CONFIRMATIONS, and the plan must have no gaps.
THEOREM NoPhantomUntilTheSecondReorg ==
  ASSUME Services \subseteq {"addresses"}, SmallReorgs, OneInvoice \/ NoneSettles
  PROVE  Spec => [](aborts = 0 /\ reorgs <= 1 => NoPhantom)
<1>1. ASSUME TypeInv, aborts = 0 /\ reorgs <= 1 => HeldInv, aborts = 0, reorgs <= 1
      PROVE  NoPhantom
  <2> SUFFICES ASSUME NEW s \in Services, NEW t \in Txs, Open(t), Passed(s, payments[t].block)
               PROVE  RightAt(t, payments[t].block, payments[t].hash)
    BY DEF NoPhantom, RightAt
  <2>1. /\ svc[s].pc = "idle" /\ payments[t].block <= cursors[s].block
        /\ cursors[s].hash = hashAt[cursors[s].block]
    BY DEF Passed, At
  <2>2. reorgs \in {0, 1} /\ cursors[s] \in Cursors /\ payments[t].block \in Heights
    <3>1. reorgs \in Nat
      BY <1>1, ChainAssumption DEF TypeInv, TypeOK, ChainTypeOK, Hashes
    <3>2. QED BY <1>1, <3>1 DEF TypeInv, TypeOK, Cursors, LedgerTypeOK, PaymentRows
  <2>3. SUFFICES ASSUME ~RightAt(t, payments[t].block, payments[t].hash) PROVE FALSE
    OBVIOUS
  <2>4. RowOK(t, payments[t], svc[s], cursors[s], seen[s])
    BY <1>1, <2>3 DEF Open, Doubtful, HeldInv, TickOK, LocalOK
  <2>5. reorgs = 1 /\ Under(payments[t].block, cursors[s], seen[s])
    BY <2>1, <2>2, <2>3, <2>4 DEF RowOK, Holding, Recomputing
  <2>6. cursors[s].block \in Heights /\ cursors[s].block <= cursors[s].block
    BY <2>1, <2>2, ChainAssumption DEF Cursors, Heights
  <2>7. hashAt[cursors[s].block] = 1 /\ cursors[s].hash = 0
    BY <2>1, <2>5, <2>6 DEF Under, Replaced
  <2>8. QED BY <2>1, <2>7
<1>2. QED BY <1>1, HeldInvariant, PTL
=============================================================================
