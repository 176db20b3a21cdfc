---------------------------- MODULE InvoiceCreation ----------------------------
(***************************************************************************)
(* How a merchant, its main wallets and the rows the watchers load come to *)
(* be: signup (api/merchants.rs), the orchestrator's create_invoice with   *)
(* the token handlers it delegates to (tokens/*.rs), the address           *)
(* derivation and the start-up of the network clients (networks/*.rs).     *)
(* Requests are concurrent tasks: every database statement, RPC call and   *)
(* answer of one is a step of its own, and it may fail at each of them.    *)
(***************************************************************************)
EXTENDS Integers, FiniteSets

CONSTANTS
  Merchants,
  Invoices,
  Tokens,
  Registered,    \* tokens TokenRegistry has a handler for
  Nameless,      \* those whose handler names no network (eth.rs, base.rs, base_sepolia.rs)
  TestMnemonic,  \* those whose handler derives from a fixed phrase (eth.rs, base.rs)
  Clients,       \* network clients the process runs
  ClientOf,      \* token -> the client its handler holds
  FamilyOf,      \* client -> "evm", "solana" or "esplora"
  MintOf,        \* token -> its contract or mint, NoMint when native
  PhraseOf,      \* merchant -> its BIP39 phrase
  TestPhrase,
  NoMint, NoClient, NoMerchant, NoToken, NoPhrase,
  Chains,        \* bound: clients whose chain moves
  MaxTip,        \* bound: blocks or slots of a chain
  MaxCrashes     \* bound: restarts of the process

Families == {"evm", "solana", "esplora"}

\* Merchants may sign up with the same phrase, or with the one of the test
\* handlers: signup_merchant_handler takes any valid mnemonic and no index of
\* the schema refuses a repeated one.
ASSUME InvoiceCreationAssumption ==
  /\ Registered \subseteq Tokens
  /\ Nameless \subseteq Registered /\ TestMnemonic \subseteq Nameless
  /\ ClientOf \in [Tokens -> Clients]
  /\ FamilyOf \in [Clients -> Families]
  /\ \A t \in Nameless : FamilyOf[ClientOf[t]] = "evm"
  /\ NoClient \notin Clients /\ "solana" \notin Clients
  /\ NoMerchant \notin Merchants
  /\ Chains \subseteq Clients
  /\ MaxTip \in Nat \ {0}
  /\ MaxCrashes \in Nat

VARIABLES
  merchants,  \* merchants rows, with their key material
  wallets,    \* merchant_wallets: <<merchant, family>>, always index 0 of its phrase
  indices,    \* merchant_network_indices: merchant -> namespace -> next_index
  rows,       \* invoices rows
  requests,   \* the task that creates the invoice and its locals
  started,    \* clients whose spin_up has read its backfill
  backfill,   \* client -> the merchants it still inserts a main wallet for
  tip, root,  \* client -> newest block, deepest one that can no longer go
  paid,       \* invoice -> block of the payment to its address, 0 for none
  crashes

serviceVars == <<merchants, wallets, indices, rows, requests, started, backfill>>
chainVars == <<tip, root, paid>>
vars == <<serviceVars, chainVars, crashes>>

-----------------------------------------------------------------------------
(* Addresses *)

\* Derivation is taken to be injective: an address is what it is derived
\* from.  The mint distinguishes an associated token account from its owner.
Derive(family, phrase, index, mint) ==
  [family |-> family, phrase |-> phrase, index |-> index, mint |-> mint]

MainAddress(m, family) == Derive(family, PhraseOf[m], 0, NoMint)

NoAddress == Derive("evm", NoPhrase, 0, NoMint)

\* The network column of merchant_network_indices: every Solana cluster
\* writes the same one.
Namespace(c) == IF FamilyOf[c] = "solana" THEN "solana" ELSE c
Namespaces == Clients \cup {"solana"}

\* Mutant: the first invoice of a merchant shares index 0 with its main wallet.
IndexFromZero(family, next) == next - 1
\* Mutant: the index after the one the upsert handed out.
IndexAhead(family, next) == next + 1

\* The index derived from the next_index an upsert returned.
IndexFrom(family, next) == IF family = "esplora" THEN next - 1 ELSE next

-----------------------------------------------------------------------------
(* Rows *)

Skeleton == [merchant |-> NoMerchant, token |-> NoToken, client |-> NoClient,
             address |-> NoAddress, mint |-> NoMint, floor |-> 0]

NewRequest == [pc |-> "none", phrase |-> NoPhrase, mint |-> NoMint,
               index |-> 0, floor |-> 0]

InFlight == {"handler", "keys", "token", "readback", "derive", "height",
             "publish", "answer"}

Client(i) == ClientOf[rows[i].token]
Family(i) == FamilyOf[Client(i)]

\* load_watched_invoices and load_watch_set, but for status and expiry: the
\* EVM one joins merchant_wallets, the Solana one joins it loosely.
Watches(c, i) ==
  /\ rows[i].client = c
  /\ rows[i].address # NoAddress
  /\ FamilyOf[c] = "evm" => <<rows[i].merchant, "evm">> \in wallets

\* WatchedInvoice::watch_addresses: on Solana also the owner of the token
\* account, which doubles as the payment reference.
WatchedAddresses(i) ==
  {rows[i].address} \cup
    (IF rows[i].address.family = "solana"
     THEN {[rows[i].address EXCEPT !.mint = NoMint]} ELSE {})

-----------------------------------------------------------------------------
(* The process starts on an empty database; later states have restarts. *)

Init ==
  /\ merchants = {}
  /\ wallets = {}
  /\ indices = [m \in Merchants |-> [n \in Namespaces |-> 0]]
  /\ rows = [i \in Invoices |-> Skeleton]
  /\ requests = [i \in Invoices |-> NewRequest]
  /\ started = {}
  /\ backfill = [c \in Clients |-> {}]
  /\ tip = [c \in Clients |-> 1]
  /\ root = [c \in Clients |-> 1]
  /\ paid = [i \in Invoices |-> 0]
  /\ crashes = 0

-----------------------------------------------------------------------------
(* Signup and start-up *)

\* Mutant: the EVM wallet is left to the next start-up.
SignUpWithoutWallet(m) ==
  /\ m \notin merchants
  /\ merchants' = merchants \cup {m}
  /\ UNCHANGED <<wallets, indices, rows, requests, started, backfill, chainVars, crashes>>

\* One transaction: the merchant, its key material, its EVM wallet, and
\* index rows for "EVM", "SOL" and "ESPLORA", names no client reads.
SignUp(m) ==
  /\ m \notin merchants
  /\ merchants' = merchants \cup {m}
  /\ wallets' = wallets \cup {<<m, "evm">>}
  /\ UNCHANGED <<indices, rows, requests, started, backfill, chainVars, crashes>>

\* spin_up: the SELECT of ensure_merchant_wallets, which Esplora has not.
SpinUp(c) ==
  /\ c \notin started /\ FamilyOf[c] # "esplora"
  /\ started' = started \cup {c}
  /\ backfill' = [backfill EXCEPT ![c] =
       {m \in merchants : <<m, FamilyOf[c]>> \notin wallets}]
  /\ UNCHANGED <<merchants, wallets, indices, rows, requests, chainVars, crashes>>

\* INSERT .. ON CONFLICT DO NOTHING of one merchant that SELECT returned.
Backfill(c, m) ==
  /\ m \in backfill[c]
  /\ wallets' = wallets \cup {<<m, FamilyOf[c]>>}
  /\ backfill' = [backfill EXCEPT ![c] = backfill[c] \ {m}]
  /\ UNCHANGED <<merchants, indices, rows, requests, started, chainVars, crashes>>

\* An error ends the loop, and the client's task, until the next restart.
BackfillFails(c) ==
  /\ backfill[c] # {}
  /\ backfill' = [backfill EXCEPT ![c] = {}]
  /\ UNCHANGED <<merchants, wallets, indices, rows, requests, started, chainVars, crashes>>

-----------------------------------------------------------------------------
(* create_invoice *)

\* The locals go with the task.
End(pc) == [NewRequest EXCEPT !.pc = pc]

Goto(i, pc) == requests' = [requests EXCEPT ![i].pc = pc]

\* The skeleton; its foreign key needs the merchant.
InsertInvoice(i, m, t) ==
  /\ requests[i].pc = "none"
  /\ m \in merchants
  /\ rows' = [rows EXCEPT ![i] = [Skeleton EXCEPT !.merchant = m, !.token = t]]
  /\ Goto(i, "handler")
  /\ UNCHANGED <<merchants, wallets, indices, started, backfill, chainVars, crashes>>

\* get_handler; a token without one leaves the skeleton behind.
GetHandler(i) ==
  /\ requests[i].pc = "handler"
  /\ LET t == rows[i].token IN
       requests' = [requests EXCEPT ![i] =
         IF t \notin Registered THEN End("failed")
         ELSE IF t \in TestMnemonic
              THEN [requests[i] EXCEPT !.pc = "derive", !.phrase = TestPhrase]
              ELSE [requests[i] EXCEPT !.pc = "keys"]]
  /\ UNCHANGED <<merchants, wallets, indices, rows, started, backfill, chainVars, crashes>>

\* The merchant's decrypted phrase.
FetchKeys(i) ==
  /\ requests[i].pc = "keys"
  /\ rows[i].merchant \in merchants
  /\ requests' = [requests EXCEPT ![i] = [requests[i] EXCEPT
       !.phrase = PhraseOf[rows[i].merchant],
       !.pc = IF Family(i) = "solana" THEN "token" ELSE "derive"]]
  /\ UNCHANGED <<merchants, wallets, indices, rows, started, backfill, chainVars, crashes>>

\* Mutant: the token fields are not written before the derivation.
SetNoToken(i) ==
  /\ requests[i].pc = "token"
  /\ Goto(i, "readback")
  /\ UNCHANGED <<merchants, wallets, indices, rows, started, backfill, chainVars, crashes>>

\* Solana: token_address and token_program are committed first ...
SetToken(i) ==
  /\ requests[i].pc = "token"
  /\ rows' = [rows EXCEPT ![i].mint = MintOf[rows[i].token]]
  /\ Goto(i, "readback")
  /\ UNCHANGED <<merchants, wallets, indices, started, backfill, chainVars, crashes>>

\* ... and get_derive_address reads them back.
ReadToken(i) ==
  /\ requests[i].pc = "readback"
  /\ requests' = [requests EXCEPT ![i] = [requests[i] EXCEPT
       !.mint = rows[i].mint, !.pc = "derive"]]
  /\ UNCHANGED <<merchants, wallets, indices, rows, started, backfill, chainVars, crashes>>

ReadsHeight(i) == rows[i].token \notin Nameless /\ Family(i) # "esplora"

\* The upsert of get_derive_address, and the derivation from what it returns.
TakeIndex(i) ==
  /\ requests[i].pc = "derive"
  /\ LET m == rows[i].merchant
         n == Namespace(Client(i))
         next == indices[m][n] + 1
     IN  /\ indices' = [indices EXCEPT ![m] = [indices[m] EXCEPT ![n] = next]]
         /\ requests' = [requests EXCEPT ![i] = [requests[i] EXCEPT
              !.index = IndexFrom(Family(i), next),
              !.pc = IF ReadsHeight(i) THEN "height" ELSE "publish"]]
  /\ UNCHANGED <<merchants, wallets, rows, started, backfill, chainVars, crashes>>

\* Mutant: the floor is the newest slot, which a fork can take back.
HeightAtTip(c) == tip[c]

\* get_current_block reads the newest block, get_finalized_block the root.
Height(c) == IF FamilyOf[c] = "solana" THEN root[c] ELSE tip[c]

ReadHeight(i) ==
  /\ requests[i].pc = "height"
  /\ requests' = [requests EXCEPT ![i] = [requests[i] EXCEPT
       !.floor = Height(Client(i)), !.pc = "publish"]]
  /\ UNCHANGED <<merchants, wallets, indices, rows, started, backfill, chainVars, crashes>>

Derived(i) == Derive(Family(i), requests[i].phrase, requests[i].index, requests[i].mint)

\* The one UPDATE that makes the row visible to a watcher; eth.rs, base.rs and
\* base_sepolia.rs set no network and no floor, bitcoin.rs no floor.
Published(i) ==
  LET mint == IF Family(i) = "solana" \/ rows[i].token \in TestMnemonic
              THEN rows[i].mint ELSE MintOf[rows[i].token]
      named == [rows[i] EXCEPT !.address = Derived(i), !.mint = mint]
  IN  IF rows[i].token \in Nameless THEN named
      ELSE [named EXCEPT !.client = Client(i), !.floor = requests[i].floor]

Publish(i) ==
  /\ requests[i].pc = "publish"
  /\ rows' = [rows EXCEPT ![i] = Published(i)]
  /\ Goto(i, "answer")
  /\ UNCHANGED <<merchants, wallets, indices, started, backfill, chainVars, crashes>>

\* The checkout URL reaches the merchant.
Answer(i) ==
  /\ requests[i].pc = "answer"
  /\ requests' = [requests EXCEPT ![i] = End("answered")]
  /\ UNCHANGED <<merchants, wallets, indices, rows, started, backfill, chainVars, crashes>>

\* A statement, a call or the response of the request fails.
Fail(i) ==
  /\ requests[i].pc \in InFlight
  /\ requests' = [requests EXCEPT ![i] = End("failed")]
  /\ UNCHANGED <<merchants, wallets, indices, rows, started, backfill, chainVars, crashes>>

Crash ==
  /\ crashes < MaxCrashes
  /\ crashes' = crashes + 1
  /\ requests' = [i \in Invoices |->
       IF requests[i].pc \in InFlight THEN End("failed") ELSE requests[i]]
  /\ started' = {}
  /\ backfill' = [c \in Clients |-> {}]
  /\ UNCHANGED <<merchants, wallets, indices, rows, chainVars>>

-----------------------------------------------------------------------------
(* The chains *)

\* A block, with payments of payers who were shown the address.
Grow(c, payers) ==
  /\ tip[c] < MaxTip
  /\ \A i \in payers : /\ requests[i].pc = "answered" /\ Client(i) = c
                       /\ paid[i] = 0
  /\ tip' = [tip EXCEPT ![c] = tip[c] + 1]
  /\ paid' = [i \in Invoices |-> IF i \in payers THEN tip[c] + 1 ELSE paid[i]]
  /\ UNCHANGED <<serviceVars, root, crashes>>

Finalize(c) ==
  /\ root[c] < tip[c]
  /\ root' = [root EXCEPT ![c] = root[c] + 1]
  /\ UNCHANGED <<serviceVars, tip, paid, crashes>>

\* The blocks above h go; their payments wait to be included again.
Fork(c, h) ==
  /\ root[c] <= h /\ h < tip[c]
  /\ tip' = [tip EXCEPT ![c] = h]
  /\ paid' = [i \in Invoices |->
       IF requests[i].pc = "answered" /\ Client(i) = c /\ paid[i] > h
       THEN 0 ELSE paid[i]]
  /\ UNCHANGED <<serviceVars, root, crashes>>

-----------------------------------------------------------------------------
RequestStep(i) ==
  \/ \E m \in Merchants, t \in Tokens : InsertInvoice(i, m, t)
  \/ GetHandler(i) \/ FetchKeys(i) \/ SetToken(i) \/ ReadToken(i)
  \/ TakeIndex(i) \/ ReadHeight(i) \/ Publish(i) \/ Answer(i)
  \/ Fail(i)

ClientStep(c) ==
  \/ SpinUp(c) \/ BackfillFails(c)
  \/ \E m \in Merchants : Backfill(c, m)

ChainStep(c) ==
  \/ \E payers \in SUBSET Invoices : Grow(c, payers)
  \/ Finalize(c)
  \/ \E h \in 1..MaxTip : Fork(c, h)

Next ==
  \/ \E m \in Merchants : SignUp(m)
  \/ \E i \in Invoices : RequestStep(i)
  \/ \E c \in Clients : ClientStep(c)
  \/ \E c \in Chains : ChainStep(c)
  \/ Crash

Spec == Init /\ [][Next]_vars

-----------------------------------------------------------------------------
(* What creation promises *)

\* Every variable holds a value of its kind; an index in use was handed out.
CreationTypeOK ==
  /\ merchants \subseteq Merchants
  /\ wallets \subseteq merchants \X {"evm", "solana"}
  /\ indices \in [Merchants -> [Namespaces -> Nat]]
  /\ \A i \in Invoices :
       /\ rows[i].merchant \in merchants \cup {NoMerchant}
       /\ rows[i].client \in Clients \cup {NoClient}
       /\ requests[i].index \in Nat
       /\ requests[i].pc \in InFlight \cup {"none", "answered", "failed"}
       /\ rows[i].client # NoClient =>
            rows[i].address.index <= indices[rows[i].merchant][Namespace(Client(i))]
  /\ \A c \in Clients : /\ backfill[c] \subseteq merchants
                        /\ 1 <= root[c] /\ root[c] <= tip[c] /\ tip[c] <= MaxTip

\* However requests interleave, fail and restart, no address feed of a chain
\* belongs to two invoices, nor to an invoice and a main wallet of any merchant:
\* a watcher credits a plain transfer by the address alone.  Only the invoices
\* of two merchants with the same phrase share addresses.  (NETWORKS.md counts
\* with less: "the same deposit address can legitimately appear on two
\* invoices".  It reserves index 0 for the main wallet, which get_derive_address
\* of esplora.rs hands to an invoice; no Esplora client has main wallets.)
SeedsApart(a, b) == a = b \/ PhraseOf[a] # PhraseOf[b]
AddressesApart ==
  /\ \A i, j \in Invoices :
       /\ i # j
       /\ rows[i].client # NoClient /\ rows[i].client = rows[j].client
       /\ SeedsApart(rows[i].merchant, rows[j].merchant)
       => WatchedAddresses(i) \cap WatchedAddresses(j) = {}
  /\ \A i \in Invoices, w \in wallets :
       rows[i].client # NoClient => MainAddress(w[1], w[2]) \notin WatchedAddresses(i)

\* A row a watcher can load is derived from its own merchant's phrase, and a
\* Solana one under the mint the row names.
PaysItsMerchant ==
  \A i \in Invoices : rows[i].client # NoClient =>
    /\ rows[i].address.phrase = PhraseOf[rows[i].merchant]
    /\ rows[i].mint = MintOf[rows[i].token]
    /\ Family(i) = "solana" => rows[i].address.mint = MintOf[rows[i].token]

\* An invoice whose URL was handed out is in its chain's watch set, unless its
\* handler is one of those that name no network.
AnsweredIsWatched ==
  \A i \in Invoices :
    requests[i].pc = "answered" /\ rows[i].token \notin Nameless
      => Watches(Client(i), i)

\* On Solana no payment lands below the floor its invoice was stored with,
\* under which the watcher drops a transaction, whatever forks follow.
FloorBelowPayments ==
  \A i \in Invoices :
    paid[i] # 0 /\ FamilyOf[Client(i)] = "solana" => rows[i].floor < paid[i]
=============================================================================
