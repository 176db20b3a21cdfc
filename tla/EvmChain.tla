------------------------------ MODULE EvmChain ------------------------------
(***************************************************************************)
(* The chain an EVMNetwork watches, seen through its JSON-RPC endpoints:   *)
(* a canonical chain of blocks that grows at the tip and whose last blocks *)
(* may be replaced by others.  The code never writes it; it reads the tip  *)
(* (eth_blockNumber), a block by height (eth_getBlockByNumber), the logs   *)
(* of a range (eth_getLogs) and the place of a transaction                 *)
(* (eth_getTransactionByHash).  External to the repository.                *)
(***************************************************************************)
EXTENDS Integers, FiniteSets

CONSTANTS
  Txs,          \* the transactions that may pay an invoice
  MaxTip,       \* bound: the height at which the chain stops growing
  MaxReorgs,    \* bound: how many reorganisations happen
  MaxReorgSpan  \* bound: how many blocks one of them replaces

ASSUME ChainAssumption ==
  /\ MaxTip \in Nat \ {0}
  /\ MaxReorgs \in Nat
  /\ MaxReorgSpan \in Nat

VARIABLES
  tip,      \* height of the newest block
  hashAt,   \* height -> hash of the canonical block there
  minedAt,  \* transaction -> height of the canonical block that holds it
  reorgs    \* number of reorganisations so far

chainVars == <<tip, hashAt, minedAt, reorgs>>

Heights == 0 .. MaxTip

\* Block 0 is the genesis block: no payment is ever in it, so its height also
\* stands for "in the mempool, or unknown to the node".
Unmined == 0

\* A block is identified by its height and the number of the reorganisation
\* that produced it; a replaced block never comes back.
Hashes == 0 .. MaxReorgs

\* The empty hash of a cursor that was saved without one, and of a height
\* that has no row in network_seen_blocks.
NoHash == -1

ChainTypeOK ==
  /\ tip \in Heights \ {0}
  /\ hashAt \in [Heights -> Hashes]
  /\ minedAt \in [Txs -> Heights]
  /\ reorgs \in Hashes

ChainInit ==
  /\ tip = 1
  /\ hashAt = [h \in Heights |-> 0]
  /\ minedAt = [t \in Txs |-> Unmined]
  /\ reorgs = 0

\* A block is mined on top of the chain with some of the payable transactions.
MineBlock(payable) ==
  /\ tip < MaxTip
  /\ tip' = tip + 1
  /\ hashAt' = [hashAt EXCEPT ![tip + 1] = reorgs]
  /\ \E included \in SUBSET {t \in payable : minedAt[t] = Unmined} :
       minedAt' = [t \in Txs |-> IF t \in included THEN tip + 1 ELSE minedAt[t]]
  /\ UNCHANGED reorgs

\* The blocks above fork are replaced.  Each of their transactions lands in
\* another of the new blocks, or in none; a waiting one may land there too.
Reorganise(payable) ==
  /\ reorgs < MaxReorgs
  /\ reorgs' = reorgs + 1
  /\ \E fork \in Heights :
       /\ fork < tip
       /\ tip - fork <= MaxReorgSpan
       /\ hashAt' = [h \in Heights |->
                       IF h \in fork + 1 .. tip THEN reorgs + 1 ELSE hashAt[h]]
       /\ \E moved \in [{t \in payable : minedAt[t] = Unmined \/ minedAt[t] > fork}
                          -> {Unmined} \cup (fork + 1 .. tip)] :
            minedAt' = [t \in Txs |->
                          IF t \in DOMAIN moved THEN moved[t] ELSE minedAt[t]]
  /\ UNCHANGED tip
=============================================================================
