----------------------------- MODULE EsploraChain -----------------------------
(***************************************************************************)
(* A Bitcoin chain with its mempool, as the Esplora endpoints answer for   *)
(* it.  Blocks behave as in EvmChain; in addition a transaction is known   *)
(* to the network before it is mined, and an unmined one can be dropped    *)
(* (evicted, or replaced by fee).  Two endpoints that are both honest may  *)
(* disagree about the newest block and the mempool, so an answer may lag   *)
(* behind.  External to the repository.                                    *)
(***************************************************************************)
EXTENDS EvmChain

CONSTANTS
  MaxFaults  \* bound: how many transactions are dropped, answers lag, calls fail

ASSUME EsploraChainAssumption == MaxFaults \in Nat

VARIABLES
  known,  \* the transactions in the mempool or in a canonical block
  faults  \* number of faults so far

esploraChainVars == <<chainVars, known, faults>>

\* What GET /tx/:txid/status says of a transaction: the height of its block,
\* Unmined for one in the mempool, Gone for 404.
Gone == -1
Answers == Heights \cup {Gone}

EsploraChainTypeOK ==
  /\ ChainTypeOK
  /\ known \in SUBSET Txs
  /\ faults \in 0 .. MaxFaults

EsploraChainInit ==
  /\ ChainInit
  /\ known = {}
  /\ faults = 0

Fault == faults < MaxFaults /\ faults' = faults + 1

Broadcast(payable) ==
  /\ \E t \in payable \ known : known' = known \cup {t}
  /\ UNCHANGED <<chainVars, faults>>

DropTx ==
  /\ Fault
  /\ \E t \in known : minedAt[t] = Unmined /\ known' = known \ {t}
  /\ UNCHANGED chainVars

MineKnown == MineBlock(known) /\ UNCHANGED <<known, faults>>

\* The new branch may spend what a transaction of the old one spends: that
\* transaction is then lost.
ReorgKnown ==
  /\ Reorganise(known)
  /\ \E lost \in SUBSET {t \in known : minedAt[t] # Unmined /\ minedAt'[t] = Unmined} :
       known' = known \ lost
  /\ UNCHANGED faults

\* GET /tx/:txid/status answers at.
AnswersStatus(t, at) ==
  \/ at = (IF t \in known THEN minedAt[t] ELSE Gone) /\ UNCHANGED faults
  \/ t \in known /\ at \in {Gone, Unmined} /\ at # minedAt[t] /\ Fault

\* GET /address/:addr/txs for an address that txs pay: the transactions with
\* their heights, at most page of them, the unmined and the newest first.
Entries == [tx : Txs, block : Heights]
Page(txs, page) ==
  {S \in SUBSET txs :
     /\ Cardinality(S) <= page
     /\ S # txs => Cardinality(S) = page
     /\ \A t \in S, u \in txs \ S : minedAt[u] # Unmined /\
          (minedAt[t] = Unmined \/ minedAt[t] >= minedAt[u])}
ListsAddress(txs, page, listed) ==
  \E S \in Page(txs \cap known, page) :
    \/ listed = {[tx |-> t, block |-> minedAt[t]] : t \in S} /\ UNCHANGED faults
    \/ \E late \in (SUBSET S) \ {{}}, demoted \in SUBSET S :
         /\ demoted \subseteq late
         /\ listed = {[tx |-> t, block |-> IF t \in demoted THEN Unmined ELSE minedAt[t]] :
                        t \in (S \ late) \cup demoted}
         /\ Fault

\* GET /blocks/tip/height.
AnswersTip(height) ==
  \/ height = tip /\ UNCHANGED faults
  \/ height = tip - 1 /\ height > 0 /\ Fault
=============================================================================
