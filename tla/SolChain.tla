------------------------------- MODULE SolChain -------------------------------
(***************************************************************************)
(* The cluster a SolanaNetwork watches, seen through its JSON-RPC nodes.   *)
(* A transaction is its signature; it is landed in a slot or in none.  The *)
(* slots above the finalized root may be replaced by those of another      *)
(* fork.  The code reads the root (getSlot), what names an address         *)
(* (getSignaturesForAddress), a body (getTransaction) and the standing of  *)
(* a signature (getSignatureStatuses).  External to the repository.        *)
(***************************************************************************)
EXTENDS Integers, FiniteSets

CONSTANTS
  Txs,       \* the transactions that may pay an invoice
  MayFail,   \* those that may fail when they land
  Lifetime,  \* how many slots after one where it landed a transaction may land
  MaxSlot,   \* bound: the slot at which the cluster stops
  MaxForks   \* bound: how many times slots are replaced

ASSUME ChainAssumption ==
  /\ IsFiniteSet(Txs)
  /\ MayFail \subseteq Txs
  /\ Lifetime \in Nat
  /\ MaxSlot \in Nat \ {0}
  /\ MaxForks \in Nat

VARIABLES
  head,      \* newest confirmed slot
  root,      \* newest finalized slot
  landed,    \* transaction -> the slot it is in
  failed,    \* transaction -> whether it failed there
  deadline,  \* transaction -> the last slot it can still land in
  forks      \* number of forks abandoned so far

chainVars == <<head, root, landed, failed, deadline, forks>>

Slots == 0 .. MaxSlot

\* Slot 0 is the genesis: no payment is in it, so it also stands for "unknown".
Nowhere == 0

ChainTypeOK ==
  /\ head \in Slots \ {0}
  /\ root \in 1 .. head
  /\ landed \in [Txs -> 0 .. head]
  /\ failed \in [Txs -> BOOLEAN]
  /\ deadline \in [Txs -> Nat]
  /\ forks \in 0 .. MaxForks

ChainInit ==
  /\ head = 1
  /\ root = 1
  /\ landed = [t \in Txs |-> Nowhere]
  /\ failed = [t \in Txs |-> FALSE]
  /\ deadline = [t \in Txs |-> MaxSlot]
  /\ forks = 0

Rooted(t) == landed[t] # Nowhere /\ landed[t] <= root
Succeeded(t) == landed[t] # Nowhere /\ ~failed[t]

\* The transactions in the domain of place are now there, or nowhere.
Land(place) ==
  /\ \A t \in DOMAIN place : place[t] <= deadline[t]
  /\ landed' = [t \in Txs |-> IF t \in DOMAIN place THEN place[t] ELSE landed[t]]
  /\ deadline' = [t \in Txs |->
       IF t \in DOMAIN place /\ place[t] # Nowhere /\ place[t] + Lifetime < deadline[t]
       THEN place[t] + Lifetime ELSE deadline[t]]
  /\ \E failing \in SUBSET (MayFail \cap DOMAIN place) :
       failed' = [t \in Txs |-> IF t \in DOMAIN place THEN t \in failing ELSE failed[t]]

\* The next slot is confirmed, with some of the waiting transactions.
NextSlot(payable) ==
  /\ head < MaxSlot
  /\ head' = head + 1
  /\ \E included \in SUBSET {t \in payable : landed[t] = Nowhere} :
       Land([t \in included |-> head + 1])
  /\ UNCHANGED <<root, forks>>

Finalize ==
  /\ root < head
  /\ root' = root + 1
  /\ UNCHANGED <<head, landed, failed, deadline, forks>>

\* The cluster settles on another fork above the root: transactions that were
\* in the slots it replaces, or in none, are now elsewhere in them or nowhere.
SwitchFork(payable) ==
  /\ forks < MaxForks
  /\ forks' = forks + 1
  /\ root < head
  /\ \E place \in [{t \in payable : landed[t] = Nowhere \/ landed[t] > root}
                     -> {Nowhere} \cup (root + 1 .. head)] : Land(place)
  /\ UNCHANGED <<head, root>>
=============================================================================
