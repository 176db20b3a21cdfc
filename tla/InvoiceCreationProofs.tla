------------------------- MODULE InvoiceCreationProofs -------------------------
(***************************************************************************)
(* The promises of InvoiceCreation for every number of merchants,          *)
(* requests, clients and tokens.  The invariant they follow from tells, of *)
(* each request, what the statements it has passed have established, and   *)
(* of the indices handed out in one namespace of one merchant that they    *)
(* are below next_index and held by one invoice each.                      *)
(***************************************************************************)
EXTENDS InvoiceCreation, TLAPS

-----------------------------------------------------------------------------
(* The invariant *)

AllPhrases == {PhraseOf[m] : m \in Merchants} \cup {TestPhrase, NoPhrase}
AllMints == {MintOf[t] : t \in Tokens} \cup {NoMint}

AddressSet == [family : Families, phrase : AllPhrases, index : Nat, mint : AllMints]
RowSet == [merchant : Merchants \cup {NoMerchant}, token : Tokens \cup {NoToken},
           client : Clients \cup {NoClient}, address : AddressSet,
           mint : AllMints, floor : Nat]
RequestSet == [pc : InFlight \cup {"none", "answered", "failed"}, phrase : AllPhrases,
               mint : AllMints, index : Nat, floor : Nat]

TypeInv ==
  /\ merchants \in SUBSET Merchants
  /\ wallets \in SUBSET (merchants \X {"evm", "solana"})
  /\ indices \in [Merchants -> [Namespaces -> Nat]]
  /\ rows \in [Invoices -> RowSet]
  /\ requests \in [Invoices -> RequestSet]
  /\ backfill \in [Clients -> SUBSET merchants]
  /\ tip \in [Clients -> Nat]
  /\ root \in [Clients -> Nat]
  /\ paid \in [Invoices -> Nat]

\* Signup writes the EVM wallet with the merchant; only clients with a main
\* wallet backfill.
WalletInv ==
  /\ \A m \in merchants : <<m, "evm">> \in wallets
  /\ \A c \in Clients : backfill[c] # {} => FamilyOf[c] \in {"evm", "solana"}

ChainInv ==
  \A c \in Clients : 1 <= root[c] /\ root[c] <= tip[c] /\ tip[c] <= MaxTip

\* What the statements request i has passed have established.
Progress(i) ==
  /\ requests[i].pc # "none" => rows[i].merchant \in merchants /\ rows[i].token \in Tokens
  /\ requests[i].pc = "none" => rows[i].merchant = NoMerchant
  /\ requests[i].pc \in {"token", "readback", "derive", "height", "publish"}
       /\ rows[i].token \notin TestMnemonic
       => requests[i].phrase = PhraseOf[rows[i].merchant]
  /\ requests[i].pc \in {"readback", "derive", "height", "publish"} /\ Family(i) = "solana"
       => rows[i].mint = MintOf[rows[i].token]
  /\ requests[i].pc \in {"derive", "height", "publish"} /\ Family(i) = "solana"
       => requests[i].mint = MintOf[rows[i].token]
  /\ requests[i].pc = "publish" /\ Family(i) = "solana"
       => requests[i].floor <= root[Client(i)]

\* What a row carries once it is published.
Stored(i) ==
  /\ rows[i].client # NoClient =>
       /\ requests[i].pc \in {"answer", "answered", "failed"}
       /\ rows[i].client = Client(i)
       /\ rows[i].address.family = Family(i)
       /\ rows[i].address.phrase = PhraseOf[rows[i].merchant]
       /\ rows[i].mint = MintOf[rows[i].token]
       /\ Family(i) = "solana" => /\ rows[i].address.mint = MintOf[rows[i].token]
                                  /\ rows[i].floor <= root[Client(i)]
  /\ requests[i].pc \in {"answer", "answered"} /\ rows[i].token \notin Nameless
       => rows[i].client # NoClient
  /\ paid[i] # 0 =>
       /\ requests[i].pc = "answered"
       /\ Family(i) = "solana" => rows[i].floor < paid[i]

InvoiceInv == \A i \in Invoices : Progress(i) /\ Stored(i)

\* Index k of its merchant and namespace is invoice i's.
Taken(i, k) ==
  \/ requests[i].pc \in {"height", "publish"} /\ k = requests[i].index
  \/ rows[i].client # NoClient /\ k = rows[i].address.index

HandedOut(i) == indices[rows[i].merchant][Namespace(Client(i))]

IndexBelow(i, k) ==
  IF Family(i) = "esplora" THEN k + 1 <= HandedOut(i) ELSE 1 <= k /\ k <= HandedOut(i)

IndexInv ==
  /\ \A i \in Invoices : \A k \in Nat : Taken(i, k) => IndexBelow(i, k)
  /\ \A i, j \in Invoices : \A k \in Nat :
       /\ i # j /\ Taken(i, k) /\ Taken(j, k)
       /\ rows[i].merchant = rows[j].merchant
       => Namespace(Client(i)) # Namespace(Client(j))

CInv == TypeInv /\ WalletInv /\ ChainInv /\ InvoiceInv /\ IndexInv

-----------------------------------------------------------------------------
(* Frames *)

\* Clients that share a namespace are of one family.
LEMMA NamespaceFamily ==
  ASSUME NEW c \in Clients, NEW d \in Clients, Namespace(c) = Namespace(d)
  PROVE  FamilyOf[c] = FamilyOf[d]
BY InvoiceCreationAssumption DEF Namespace

LEMMA ClientTyped ==
  ASSUME NEW i \in Invoices, rows[i].token \in Tokens
  PROVE  /\ Client(i) \in Clients /\ Family(i) \in Families
         /\ Namespace(Client(i)) \in Namespaces
         /\ MintOf[rows[i].token] \in AllMints
BY InvoiceCreationAssumption DEF Client, Family, Namespace, Namespaces, AllMints

\* An invoice whose row and task a step leaves alone keeps its facts.
LEMMA OtherInvoice ==
  ASSUME InvoiceInv, NEW j \in Invoices, rows'[j] = rows[j], requests'[j] = requests[j],
         paid' = paid, root' = root, merchants \subseteq merchants'
  PROVE  Progress(j)' /\ Stored(j)'
BY DEF InvoiceInv, Progress, Stored, Family, Client

\* Only TakeIndex hands out an index.
LEMMA IndexKept ==
  ASSUME IndexInv, indices' = indices,
         \A i \in Invoices : \A k \in Nat : Taken(i, k)' =>
           /\ Taken(i, k)
           /\ rows'[i].merchant = rows[i].merchant /\ rows'[i].token = rows[i].token
  PROVE  IndexInv'
<1>1. \A i \in Invoices : \A k \in Nat : Taken(i, k)' => IndexBelow(i, k)'
  BY DEF IndexInv, IndexBelow, HandedOut, Family, Client
<1>2. ASSUME NEW i \in Invoices, NEW j \in Invoices, NEW k \in Nat, i # j,
             Taken(i, k)', Taken(j, k)', rows'[i].merchant = rows'[j].merchant
      PROVE  Namespace(Client(i))' # Namespace(Client(j))'
  <2>1. Namespace(Client(i)) # Namespace(Client(j))  BY <1>2 DEF IndexInv
  <2> QED  BY <2>1, <1>2 DEF Client, Namespace
<1> QED  BY <1>1, <1>2 DEF IndexInv

\* A step of the other actors leaves rows and tasks alone.
LEMMA RowsKept ==
  ASSUME IndexInv, UNCHANGED <<indices, rows, requests>>
  PROVE  IndexInv'
BY IndexKept DEF Taken

-----------------------------------------------------------------------------
(* Each action *)

LEMMA InitCInv == Init => CInv
<1> SUFFICES ASSUME Init PROVE CInv  OBVIOUS
<1>1. NoAddress \in AddressSet
  BY DEF NoAddress, Derive, AddressSet, Families, AllPhrases, AllMints
<1>2. Skeleton \in RowSet
  BY <1>1 DEF Skeleton, RowSet, AllMints
<1>3. NewRequest \in RequestSet
  BY DEF NewRequest, RequestSet, AllMints, AllPhrases
<1>4. TypeInv
  BY <1>2, <1>3 DEF Init, TypeInv
<1>5. WalletInv /\ ChainInv
  BY InvoiceCreationAssumption DEF Init, WalletInv, ChainInv
<1>6. InvoiceInv
  BY DEF Init, InvoiceInv, Progress, Stored, Skeleton, NewRequest
<1>7. \A i \in Invoices : \A k \in Nat : ~Taken(i, k)
  BY DEF Init, Taken, Skeleton, NewRequest
<1>8. IndexInv
  BY <1>7 DEF IndexInv
<1> QED  BY <1>4, <1>5, <1>6, <1>8 DEF CInv

LEMMA SignUpCInv ==
  ASSUME CInv, NEW m \in Merchants, SignUp(m)
  PROVE  CInv'
<1> USE DEF CInv, SignUp, chainVars
<1>1. TypeInv'  BY DEF TypeInv
<1>2. WalletInv'  BY DEF WalletInv
<1>3. ChainInv'  BY DEF ChainInv
<1>4. InvoiceInv'  BY OtherInvoice DEF InvoiceInv
<1>5. IndexInv'  BY RowsKept
<1> QED  BY <1>1, <1>2, <1>3, <1>4, <1>5

LEMMA SpinUpCInv ==
  ASSUME CInv, NEW c \in Clients, SpinUp(c)
  PROVE  CInv'
<1> USE DEF CInv, SpinUp, chainVars
<1>1. TypeInv'  BY DEF TypeInv
<1>2. WalletInv'
  <2>1. FamilyOf[c] \in {"evm", "solana"}
    BY InvoiceCreationAssumption DEF Families
  <2> QED  BY <2>1 DEF WalletInv, TypeInv
<1>3. ChainInv'  BY DEF ChainInv
<1>4. InvoiceInv'  BY OtherInvoice DEF InvoiceInv
<1>5. IndexInv'  BY RowsKept
<1> QED  BY <1>1, <1>2, <1>3, <1>4, <1>5

LEMMA BackfillCInv ==
  ASSUME CInv, NEW c \in Clients, NEW m \in Merchants, Backfill(c, m)
  PROVE  CInv'
<1> USE DEF CInv, Backfill, chainVars
<1>1. <<m, FamilyOf[c]>> \in merchants \X {"evm", "solana"}
  BY DEF TypeInv, WalletInv
<1>2. TypeInv'  BY <1>1 DEF TypeInv
<1>3. WalletInv'  BY DEF WalletInv, TypeInv
<1>4. ChainInv'  BY DEF ChainInv
<1>5. InvoiceInv'  BY OtherInvoice DEF InvoiceInv
<1>6. IndexInv'  BY RowsKept
<1> QED  BY <1>2, <1>3, <1>4, <1>5, <1>6

LEMMA BackfillFailsCInv ==
  ASSUME CInv, NEW c \in Clients, BackfillFails(c)
  PROVE  CInv'
<1> USE DEF CInv, BackfillFails, chainVars
<1>1. TypeInv'  BY DEF TypeInv
<1>2. WalletInv'  BY DEF WalletInv, TypeInv
<1>3. ChainInv'  BY DEF ChainInv
<1>4. InvoiceInv'  BY OtherInvoice DEF InvoiceInv
<1>5. IndexInv'  BY RowsKept
<1> QED  BY <1>1, <1>2, <1>3, <1>4, <1>5

LEMMA InsertInvoiceCInv ==
  ASSUME CInv, NEW i \in Invoices, NEW m \in Merchants, NEW t \in Tokens, InsertInvoice(i, m, t)
  PROVE  CInv'
<1> USE DEF CInv, InsertInvoice, chainVars
<1>r. requests[i] \in RequestSet /\ rows[i] \in RowSet
  BY DEF TypeInv
<1>1. TypeInv'
  <2>1. NoAddress \in AddressSet
    BY DEF NoAddress, Derive, AddressSet, Families, AllPhrases, AllMints
  <2>2. [Skeleton EXCEPT !.merchant = m, !.token = t] \in RowSet
    BY <2>1 DEF Skeleton, RowSet, AllMints, TypeInv
  <2>3. [requests[i] EXCEPT !.pc = "handler"] \in RequestSet
    BY <1>r DEF RequestSet, InFlight
  <2> QED  BY <2>2, <2>3 DEF TypeInv, Goto
<1>2. WalletInv' /\ ChainInv'
  BY DEF WalletInv, ChainInv
<1>3. InvoiceInv'
  <2>1. \A j \in Invoices \ {i} : rows'[j] = rows[j] /\ requests'[j] = requests[j]
    BY DEF TypeInv, Goto
  <2>2. \A j \in Invoices \ {i} : Progress(j)' /\ Stored(j)'
    BY <2>1, OtherInvoice
  <2>3. Progress(i)' /\ Stored(i)'
    BY <1>r DEF InvoiceInv, Progress, Stored, TypeInv, RequestSet, RowSet, Goto, Client, Family, Skeleton
  <2> QED  BY <2>2, <2>3 DEF InvoiceInv
<1>4. IndexInv'
  <2>1. \A k \in Nat : ~Taken(i, k)'
    BY DEF Taken, TypeInv, Goto, RequestSet, Skeleton
  <2>2. \A j \in Invoices \ {i} : rows'[j] = rows[j] /\ requests'[j] = requests[j]
    BY DEF TypeInv, Goto
  <2> QED  BY <2>1, <2>2, IndexKept DEF Taken
<1> QED  BY <1>1, <1>2, <1>3, <1>4

LEMMA GetHandlerCInv ==
  ASSUME CInv, NEW i \in Invoices, GetHandler(i)
  PROVE  CInv'
<1> USE DEF CInv, GetHandler, chainVars
<1>r. requests[i] \in RequestSet /\ rows[i] \in RowSet
  BY DEF TypeInv
<1>1. TypeInv'
  <2>1. requests'[i] \in RequestSet
    BY <1>r DEF RequestSet, InFlight, End, NewRequest, AllPhrases, AllMints, TypeInv
  <2> QED  BY <2>1 DEF TypeInv
<1>2. WalletInv' /\ ChainInv'
  BY DEF WalletInv, ChainInv
<1>3. InvoiceInv'
  <2>1. \A j \in Invoices \ {i} : rows'[j] = rows[j] /\ requests'[j] = requests[j]
    BY DEF TypeInv, Goto
  <2>2. \A j \in Invoices \ {i} : Progress(j)' /\ Stored(j)'
    BY <2>1, OtherInvoice
  <2>3. Progress(i)' /\ Stored(i)'
    <3>1. CASE rows[i].token \notin Registered
      BY <1>r, <3>1 DEF InvoiceInv, Progress, Stored, TypeInv, Client, Family, End, NewRequest
    <3>2. CASE rows[i].token \in TestMnemonic
      <4>1. Family(i) = "evm"
        BY <3>2, InvoiceCreationAssumption DEF Family, Client
      <4> QED
        BY <1>r, <3>2, <4>1, InvoiceCreationAssumption
        DEF InvoiceInv, Progress, Stored, TypeInv, RequestSet, Client, Family
    <3>3. CASE rows[i].token \in Registered /\ rows[i].token \notin TestMnemonic
      BY <1>r, <3>3 DEF InvoiceInv, Progress, Stored, TypeInv, RequestSet, Client, Family
    <3> QED  BY <3>1, <3>2, <3>3
  <2> QED  BY <2>2, <2>3 DEF InvoiceInv
<1>4. IndexInv'
  <2>1. requests'[i].pc \notin {"height", "publish"}
    BY <1>r DEF TypeInv, RequestSet, End, NewRequest
  <2>2. \A j \in Invoices \ {i} : requests'[j] = requests[j]
    BY DEF TypeInv
  <2> QED  BY <2>1, <2>2, IndexKept DEF Taken
<1> QED  BY <1>1, <1>2, <1>3, <1>4

LEMMA FetchKeysCInv ==
  ASSUME CInv, NEW i \in Invoices, FetchKeys(i)
  PROVE  CInv'
<1> USE DEF CInv, FetchKeys, chainVars
<1>r. requests[i] \in RequestSet /\ rows[i] \in RowSet
  BY DEF TypeInv
<1>1. TypeInv'
  <2>1. requests'[i] \in RequestSet
    BY <1>r DEF RequestSet, InFlight, TypeInv, Goto, AllPhrases, AllMints, RowSet
  <2> QED  BY <2>1 DEF TypeInv, Goto
<1>2. WalletInv' /\ ChainInv'
  BY DEF WalletInv, ChainInv
<1>3. InvoiceInv'
  <2>1. \A j \in Invoices \ {i} : rows'[j] = rows[j] /\ requests'[j] = requests[j]
    BY DEF TypeInv, Goto
  <2>2. \A j \in Invoices \ {i} : Progress(j)' /\ Stored(j)'
    BY <2>1, OtherInvoice
  <2>3. Progress(i)' /\ Stored(i)'
    BY <1>r DEF InvoiceInv, Progress, Stored, TypeInv, RequestSet, RowSet, Goto, Client, Family
  <2> QED  BY <2>2, <2>3 DEF InvoiceInv
<1>4. IndexInv'
  <2>1. requests'[i].pc \notin {"height", "publish"}
    BY <1>r DEF TypeInv, RequestSet, Goto, End, NewRequest
  <2>2. \A j \in Invoices \ {i} : requests'[j] = requests[j]
    BY DEF TypeInv, Goto
  <2> QED  BY <2>1, <2>2, IndexKept DEF Taken
<1> QED  BY <1>1, <1>2, <1>3, <1>4

LEMMA SetTokenCInv ==
  ASSUME CInv, NEW i \in Invoices, SetToken(i)
  PROVE  CInv'
<1> USE DEF CInv, SetToken, chainVars
<1>r. requests[i] \in RequestSet /\ rows[i] \in RowSet
  BY DEF TypeInv
<1>1. TypeInv'
  <2>1. MintOf[rows[i].token] \in AllMints
    BY <1>r, ClientTyped DEF InvoiceInv, Progress
  <2>2. [rows[i] EXCEPT !.mint = MintOf[rows[i].token]] \in RowSet
    BY <1>r, <2>1 DEF RowSet
  <2>3. [requests[i] EXCEPT !.pc = "readback"] \in RequestSet
    BY <1>r DEF RequestSet, InFlight
  <2> QED  BY <2>2, <2>3 DEF TypeInv, Goto
<1>2. WalletInv' /\ ChainInv'
  BY DEF WalletInv, ChainInv
<1>3. InvoiceInv'
  <2>1. \A j \in Invoices \ {i} : rows'[j] = rows[j] /\ requests'[j] = requests[j]
    BY DEF TypeInv, Goto
  <2>2. \A j \in Invoices \ {i} : Progress(j)' /\ Stored(j)'
    BY <2>1, OtherInvoice
  <2>3. Progress(i)' /\ Stored(i)'
    BY <1>r DEF InvoiceInv, Progress, Stored, TypeInv, RequestSet, RowSet, Goto, Client, Family
  <2> QED  BY <2>2, <2>3 DEF InvoiceInv
<1>4. IndexInv'
  <2>1. requests'[i].pc \notin {"height", "publish"} /\ rows'[i].client = NoClient
    BY <1>r DEF TypeInv, RequestSet, RowSet, Goto, InvoiceInv, Stored
  <2>2. \A j \in Invoices \ {i} : rows'[j] = rows[j] /\ requests'[j] = requests[j]
    BY DEF TypeInv, Goto
  <2> QED  BY <2>1, <2>2, IndexKept DEF Taken
<1> QED  BY <1>1, <1>2, <1>3, <1>4

LEMMA ReadTokenCInv ==
  ASSUME CInv, NEW i \in Invoices, ReadToken(i)
  PROVE  CInv'
<1> USE DEF CInv, ReadToken, chainVars
<1>r. requests[i] \in RequestSet /\ rows[i] \in RowSet
  BY DEF TypeInv
<1>1. TypeInv'
  <2>1. requests'[i] \in RequestSet
    BY <1>r DEF RequestSet, InFlight, TypeInv, Goto, AllPhrases, AllMints, RowSet
  <2> QED  BY <2>1 DEF TypeInv, Goto
<1>2. WalletInv' /\ ChainInv'
  BY DEF WalletInv, ChainInv
<1>3. InvoiceInv'
  <2>1. \A j \in Invoices \ {i} : rows'[j] = rows[j] /\ requests'[j] = requests[j]
    BY DEF TypeInv, Goto
  <2>2. \A j \in Invoices \ {i} : Progress(j)' /\ Stored(j)'
    BY <2>1, OtherInvoice
  <2>3. Progress(i)' /\ Stored(i)'
    BY <1>r DEF InvoiceInv, Progress, Stored, TypeInv, RequestSet, RowSet, Goto, Client, Family
  <2> QED  BY <2>2, <2>3 DEF InvoiceInv
<1>4. IndexInv'
  <2>1. requests'[i].pc \notin {"height", "publish"}
    BY <1>r DEF TypeInv, RequestSet, Goto, End, NewRequest
  <2>2. \A j \in Invoices \ {i} : requests'[j] = requests[j]
    BY DEF TypeInv, Goto
  <2> QED  BY <2>1, <2>2, IndexKept DEF Taken
<1> QED  BY <1>1, <1>2, <1>3, <1>4

LEMMA ReadHeightCInv ==
  ASSUME CInv, NEW i \in Invoices, ReadHeight(i)
  PROVE  CInv'
<1> USE DEF CInv, ReadHeight, chainVars
<1>r. requests[i] \in RequestSet /\ rows[i] \in RowSet
  BY DEF TypeInv
<1>1. TypeInv'
  <2>1. Height(Client(i)) \in Nat
    BY <1>r, ClientTyped DEF InvoiceInv, Progress, Height, TypeInv
  <2>2. requests'[i] \in RequestSet
    BY <1>r, <2>1 DEF RequestSet, InFlight, TypeInv
  <2> QED  BY <2>2 DEF TypeInv
<1>2. WalletInv' /\ ChainInv'
  BY DEF WalletInv, ChainInv
<1>3. InvoiceInv'
  <2>1. \A j \in Invoices \ {i} : rows'[j] = rows[j] /\ requests'[j] = requests[j]
    BY DEF TypeInv, Goto
  <2>2. \A j \in Invoices \ {i} : Progress(j)' /\ Stored(j)'
    BY <2>1, OtherInvoice
  <2>3. Progress(i)' /\ Stored(i)'
    <3>1. Client(i) \in Clients /\ Client(i)' = Client(i)
      BY ClientTyped DEF InvoiceInv, Progress, Client
    <3>2. FamilyOf[Client(i)] = "solana" => Height(Client(i)) <= root[Client(i)]
      BY <3>1 DEF Height, TypeInv
    <3> QED
      BY <1>r, <3>1, <3>2 DEF InvoiceInv, Progress, Stored, TypeInv, RequestSet, Family, Client
  <2> QED  BY <2>2, <2>3 DEF InvoiceInv
<1>4. IndexInv'
  BY IndexKept DEF Taken, TypeInv, Goto, RequestSet, End
<1> QED  BY <1>1, <1>2, <1>3, <1>4

LEMMA AnswerCInv ==
  ASSUME CInv, NEW i \in Invoices, Answer(i)
  PROVE  CInv'
<1> USE DEF CInv, Answer, chainVars
<1>r. requests[i] \in RequestSet /\ rows[i] \in RowSet
  BY DEF TypeInv
<1>1. TypeInv'
  <2>1. End("answered") \in RequestSet
    BY DEF End, NewRequest, RequestSet, AllPhrases, AllMints, InFlight
  <2> QED  BY <2>1 DEF TypeInv
<1>2. WalletInv' /\ ChainInv'
  BY DEF WalletInv, ChainInv
<1>3. InvoiceInv'
  <2>1. \A j \in Invoices \ {i} : rows'[j] = rows[j] /\ requests'[j] = requests[j]
    BY DEF TypeInv, Goto
  <2>2. \A j \in Invoices \ {i} : Progress(j)' /\ Stored(j)'
    BY <2>1, OtherInvoice
  <2>3. Progress(i)' /\ Stored(i)'
    BY <1>r DEF InvoiceInv, Progress, Stored, TypeInv, RequestSet, RowSet, Goto, Client, Family, End, NewRequest
  <2> QED  BY <2>2, <2>3 DEF InvoiceInv
<1>4. IndexInv'
  <2>1. requests'[i].pc \notin {"height", "publish"}
    BY <1>r DEF TypeInv, RequestSet, Goto, End, NewRequest
  <2>2. \A j \in Invoices \ {i} : requests'[j] = requests[j]
    BY DEF TypeInv, Goto
  <2> QED  BY <2>1, <2>2, IndexKept DEF Taken
<1> QED  BY <1>1, <1>2, <1>3, <1>4

LEMMA FailCInv ==
  ASSUME CInv, NEW i \in Invoices, Fail(i)
  PROVE  CInv'
<1> USE DEF CInv, Fail, chainVars
<1>r. requests[i] \in RequestSet /\ rows[i] \in RowSet
  BY DEF TypeInv
<1>1. TypeInv'
  <2>1. End("failed") \in RequestSet
    BY DEF End, NewRequest, RequestSet, AllPhrases, AllMints, InFlight
  <2> QED  BY <2>1 DEF TypeInv
<1>2. WalletInv' /\ ChainInv'
  BY DEF WalletInv, ChainInv
<1>3. InvoiceInv'
  <2>1. \A j \in Invoices \ {i} : rows'[j] = rows[j] /\ requests'[j] = requests[j]
    BY DEF TypeInv, Goto
  <2>2. \A j \in Invoices \ {i} : Progress(j)' /\ Stored(j)'
    BY <2>1, OtherInvoice
  <2>3. Progress(i)' /\ Stored(i)'
    BY <1>r DEF InvoiceInv, Progress, Stored, TypeInv, RequestSet, RowSet, Client,
                Family, End, NewRequest, InFlight
  <2> QED  BY <2>2, <2>3 DEF InvoiceInv
<1>4. IndexInv'
  <2>1. requests'[i].pc \notin {"height", "publish"}
    BY <1>r DEF TypeInv, RequestSet, Goto, End, NewRequest
  <2>2. \A j \in Invoices \ {i} : requests'[j] = requests[j]
    BY DEF TypeInv, Goto
  <2> QED  BY <2>1, <2>2, IndexKept DEF Taken
<1> QED  BY <1>1, <1>2, <1>3, <1>4

LEMMA TakeIndexCInv ==
  ASSUME CInv, NEW i \in Invoices, TakeIndex(i)
  PROVE  CInv'
<1> USE DEF CInv, TakeIndex, chainVars
<1>r. requests[i] \in RequestSet /\ rows[i] \in RowSet
  BY DEF TypeInv
<1>1. TypeInv'
  <2>1. rows[i].merchant \in Merchants /\ Namespace(Client(i)) \in Namespaces
    BY <1>r, ClientTyped DEF InvoiceInv, Progress, TypeInv
  <2>2. indices[rows[i].merchant][Namespace(Client(i))] \in Nat
    BY <2>1 DEF TypeInv
  <2>3. indices' \in [Merchants -> [Namespaces -> Nat]]
    BY <2>1, <2>2 DEF TypeInv
  <2>4. IndexFrom(Family(i), indices[rows[i].merchant][Namespace(Client(i))] + 1) \in Nat
    BY <2>2 DEF IndexFrom
  <2>5. requests'[i] \in RequestSet
    BY <1>r, <2>4 DEF TypeInv, RequestSet, InFlight
  <2>6. requests' \in [Invoices -> RequestSet]
    BY <2>5 DEF TypeInv
  <2> QED  BY <2>3, <2>6 DEF TypeInv
<1>2. WalletInv' /\ ChainInv'
  BY DEF WalletInv, ChainInv
<1>3. InvoiceInv'
  <2>1. \A j \in Invoices \ {i} : rows'[j] = rows[j] /\ requests'[j] = requests[j]
    BY DEF TypeInv, Goto
  <2>2. \A j \in Invoices \ {i} : Progress(j)' /\ Stored(j)'
    BY <2>1, OtherInvoice
  <2>3. Progress(i)' /\ Stored(i)'
    <3>1. Family(i) = "solana" => ReadsHeight(i)
      BY InvoiceCreationAssumption DEF ReadsHeight, Family, Client
    <3>2. /\ requests'[i].phrase = requests[i].phrase /\ requests'[i].mint = requests[i].mint
          /\ requests'[i].pc = IF ReadsHeight(i) THEN "height" ELSE "publish"
      BY <1>r DEF TypeInv, RequestSet
    <3> QED
      BY <3>1, <3>2 DEF InvoiceInv, Progress, Stored, Client, Family
  <2> QED  BY <2>2, <2>3 DEF InvoiceInv
<1>4. IndexInv'
  <2>1. /\ rows[i].merchant \in Merchants /\ Namespace(Client(i)) \in Namespaces
        /\ Client(i) \in Clients /\ Family(i) \in Families
    BY <1>r, ClientTyped DEF InvoiceInv, Progress, TypeInv
  <2>m. PICK m \in Merchants : m = rows[i].merchant  BY <2>1
  <2>n. PICK n \in Namespaces : n = Namespace(Client(i))  BY <2>1
  <2>o. PICK old \in Nat : old = indices[m][n]  BY DEF TypeInv
  <2>k. PICK new \in Nat : new = IndexFrom(Family(i), old + 1)  BY DEF IndexFrom
  <2>3. /\ indices'[m][n] = old + 1
        /\ \A a \in Merchants, b \in Namespaces :
             /\ indices[a][b] \in Nat /\ indices'[a][b] \in Nat
             /\ indices[a][b] <= indices'[a][b]
    BY <2>m, <2>n, <2>o DEF TypeInv
  <2>4. /\ requests'[i].index = new /\ rows' = rows
        /\ rows[i].client = NoClient
        /\ \A j \in Invoices \ {i} : requests'[j] = requests[j]
    BY <1>r, <2>m, <2>n, <2>o, <2>k DEF TypeInv, RequestSet, InvoiceInv, Stored
  <2>5. \A k \in Nat : Taken(i, k)' => k = new
    BY <2>4 DEF Taken
  <2>6. \A j \in Invoices \ {i} : \A k \in Nat : Taken(j, k)' <=> Taken(j, k)
    BY <2>4 DEF Taken
  <2>7. ASSUME NEW j \in Invoices, NEW k \in Nat, Taken(j, k)
        PROVE  /\ rows[j].merchant \in Merchants
               /\ Client(j) \in Clients /\ Namespace(Client(j)) \in Namespaces
    <3>1. requests[j].pc # "none"
      BY <2>7 DEF Taken, InvoiceInv, Stored
    <3> QED  BY <3>1, ClientTyped DEF InvoiceInv, Progress, TypeInv
  <2>11. \A j \in Invoices : /\ Client(j)' = Client(j) /\ Family(j)' = Family(j)
                             /\ Namespace(Client(j))' = Namespace(Client(j))
    BY <2>4 DEF Client, Family, Namespace
  <2>8. IndexBelow(i, new)'
    <3>1. HandedOut(i)' = old + 1
      BY <2>3, <2>4, <2>11, <2>m, <2>n DEF HandedOut
    <3> QED  BY <3>1, <2>11, <2>k DEF IndexBelow, IndexFrom
  <2>9. \A j \in Invoices \ {i} : \A k \in Nat : Taken(j, k) => IndexBelow(j, k)'
    <3> SUFFICES ASSUME NEW j \in Invoices \ {i}, NEW k \in Nat, Taken(j, k)
                 PROVE  IndexBelow(j, k)'
      OBVIOUS
    <3>1. IndexBelow(j, k)
      BY DEF IndexInv
    <3>2. HandedOut(j)' = indices'[rows[j].merchant][Namespace(Client(j))]
      BY <2>4, <2>11 DEF HandedOut
    <3>3. HandedOut(j) \in Nat /\ HandedOut(j)' \in Nat /\ HandedOut(j) <= HandedOut(j)'
      BY <2>3, <2>7, <3>2 DEF HandedOut
    <3> QED  BY <3>1, <3>3, <2>11 DEF IndexBelow
  <2>10. ASSUME NEW j \in Invoices \ {i}, Taken(j, new), rows[j].merchant = m
        PROVE  Namespace(Client(j)) # n
    <3> SUFFICES ASSUME Namespace(Client(j)) = n  PROVE FALSE
      OBVIOUS
    <3>1. Family(j) = Family(i)
      BY <2>1, <2>n, <2>7, <2>10, NamespaceFamily DEF Family
    <3>2. IndexBelow(j, new) /\ HandedOut(j) = old
      BY <2>10, <2>o DEF IndexInv, HandedOut
    <3> QED  BY <3>1, <3>2, <2>k DEF IndexBelow, IndexFrom
  <2>12. \A j \in Invoices : \A k \in Nat : Taken(j, k)' => IndexBelow(j, k)'
    BY <2>5, <2>6, <2>8, <2>9
  <2>13. ASSUME NEW a \in Invoices, NEW b \in Invoices, NEW k \in Nat, a # b,
                Taken(a, k)', Taken(b, k)', rows'[a].merchant = rows'[b].merchant
         PROVE  Namespace(Client(a))' # Namespace(Client(b))'
    <3>1. CASE a # i /\ b # i
      BY <3>1, <2>13, <2>4, <2>6, <2>11 DEF IndexInv
    <3>2. CASE a = i
      <4>1. k = new /\ Taken(b, new) /\ rows[b].merchant = m
        BY <3>2, <2>13, <2>4, <2>5, <2>6, <2>m
      <4> QED  BY <4>1, <3>2, <2>13, <2>10, <2>11, <2>n
    <3>3. CASE b = i
      <4>1. k = new /\ Taken(a, new) /\ rows[a].merchant = m
        BY <3>3, <2>13, <2>4, <2>5, <2>6, <2>m
      <4> QED  BY <4>1, <3>3, <2>13, <2>10, <2>11, <2>n
    <3> QED  BY <3>1, <3>2, <3>3
  <2> QED  BY <2>12, <2>13 DEF IndexInv
<1> QED  BY <1>1, <1>2, <1>3, <1>4

\* What the UPDATE of a handler that names no network leaves of a row.
LEMMA NamedRow ==
  ASSUME NEW row \in RowSet, NEW a, NEW m
  PROVE  [row EXCEPT !.address = a, !.mint = m] =
           [merchant |-> row.merchant, token |-> row.token, client |-> row.client,
            address |-> a, mint |-> m, floor |-> row.floor]
<1> DEFINE addressed == [row EXCEPT !.address = a]
<1>1. addressed = [merchant |-> row.merchant, token |-> row.token, client |-> row.client,
                   address |-> a, mint |-> row.mint, floor |-> row.floor]
  BY DEF RowSet
<1>2. [row EXCEPT !.address = a, !.mint = m] = [addressed EXCEPT !.mint = m]
  OBVIOUS
<1> HIDE DEF addressed
<1>3. [addressed EXCEPT !.mint = m] =
        [merchant |-> row.merchant, token |-> row.token, client |-> row.client,
         address |-> a, mint |-> m, floor |-> row.floor]
  BY <1>1
<1> QED  BY <1>2, <1>3

LEMMA PublishedFields ==
  ASSUME NEW i \in Invoices, rows[i] \in RowSet
  PROVE  /\ Published(i).merchant = rows[i].merchant /\ Published(i).token = rows[i].token
         /\ Published(i).address = Derived(i)
         /\ rows[i].token \in Nameless => Published(i).client = rows[i].client
         /\ rows[i].token \notin Nameless =>
              /\ Published(i).client = Client(i) /\ Published(i).floor = requests[i].floor
              /\ Published(i).mint = IF Family(i) = "solana" THEN rows[i].mint
                                     ELSE MintOf[rows[i].token]
<1> DEFINE mint == IF Family(i) = "solana" \/ rows[i].token \in TestMnemonic
                   THEN rows[i].mint ELSE MintOf[rows[i].token]
           named == [rows[i] EXCEPT !.address = Derived(i), !.mint = mint]
<1>m. rows[i].token \notin Nameless =>
        mint = IF Family(i) = "solana" THEN rows[i].mint ELSE MintOf[rows[i].token]
  BY InvoiceCreationAssumption
<1>p. Published(i) = IF rows[i].token \in Nameless THEN named
                     ELSE [named EXCEPT !.client = Client(i), !.floor = requests[i].floor]
  BY DEF Published
<1> HIDE DEF mint
<1>1. named = [merchant |-> rows[i].merchant, token |-> rows[i].token,
               client |-> rows[i].client, address |-> Derived(i),
               mint |-> mint, floor |-> rows[i].floor]
  BY NamedRow
<1> HIDE DEF named
<1>2. CASE rows[i].token \in Nameless
  BY <1>2, <1>p, <1>1
<1>3. CASE rows[i].token \notin Nameless
  <2>1. Published(i) = [named EXCEPT !.client = Client(i), !.floor = requests[i].floor]
    BY <1>3, <1>p
  <2>2. Published(i) = [merchant |-> rows[i].merchant, token |-> rows[i].token,
                        client |-> Client(i), address |-> Derived(i),
                        mint |-> mint, floor |-> requests[i].floor]
    BY <2>1, <1>1
  <2> QED  BY <2>2, <1>3, <1>m
<1> QED  BY <1>2, <1>3

LEMMA PublishCInv ==
  ASSUME CInv, NEW i \in Invoices, Publish(i)
  PROVE  CInv'
<1> USE DEF CInv, Publish, chainVars
<1>r. requests[i] \in RequestSet /\ rows[i] \in RowSet
  BY DEF TypeInv
<1>1. TypeInv'
  <2>1. /\ Client(i) \in Clients /\ Family(i) \in Families
        /\ MintOf[rows[i].token] \in AllMints
    BY <1>r, ClientTyped DEF InvoiceInv, Progress
  <2>2. Derived(i) \in AddressSet
    BY <1>r, <2>1 DEF Derived, Derive, AddressSet, RequestSet
  <2>3. Published(i) \in RowSet
    BY <1>r, <2>1, <2>2 DEF Published, RowSet, RequestSet
  <2>4. [requests[i] EXCEPT !.pc = "answer"] \in RequestSet
    BY <1>r DEF RequestSet, InFlight
  <2> QED  BY <2>3, <2>4 DEF TypeInv, Goto
<1>2. WalletInv' /\ ChainInv'
  BY DEF WalletInv, ChainInv
<1>3. InvoiceInv'
  <2>1. \A j \in Invoices \ {i} : rows'[j] = rows[j] /\ requests'[j] = requests[j]
    BY DEF TypeInv, Goto
  <2>2. \A j \in Invoices \ {i} : Progress(j)' /\ Stored(j)'
    BY <2>1, OtherInvoice
  <2>3. Progress(i)' /\ Stored(i)'
    <3>1. /\ rows'[i] = Published(i)
          /\ requests'[i] = [requests[i] EXCEPT !.pc = "answer"]
      BY DEF TypeInv, Goto
    <3>2. /\ rows'[i].merchant = rows[i].merchant /\ rows'[i].token = rows[i].token
          /\ rows'[i].address = Derived(i)
      BY <3>1, <1>r, PublishedFields
    <3>3. /\ rows[i].token \in Nameless => rows'[i].client = rows[i].client
          /\ rows[i].token \notin Nameless =>
               /\ rows'[i].client = Client(i) /\ rows'[i].floor = requests[i].floor
               /\ rows'[i].mint = IF Family(i) = "solana" THEN rows[i].mint
                                  ELSE MintOf[rows[i].token]
      BY <3>1, <1>r, PublishedFields
    <3>4. rows[i].client = NoClient /\ paid[i] = 0
      BY DEF InvoiceInv, Stored
    <3>5. Client(i) \in Clients /\ Client(i) # NoClient
      BY ClientTyped, InvoiceCreationAssumption DEF InvoiceInv, Progress
    <3>6. Client(i)' = Client(i) /\ Family(i)' = Family(i)
      BY <3>2 DEF Client, Family
    <3>7. requests'[i].pc = "answer" /\ paid' = paid /\ root' = root
      BY <3>1, <1>r DEF RequestSet
    <3>8. Progress(i)'
      BY <3>2, <3>7 DEF InvoiceInv, Progress
    <3> HIDE DEF Publish
    <3>9. CASE rows[i].token \in Nameless
      BY <3>8, <3>9, <3>2, <3>3, <3>4, <3>7 DEF Stored
    <3>10. CASE rows[i].token \notin Nameless
      <4>1. /\ requests[i].phrase = PhraseOf[rows[i].merchant]
            /\ Family(i) = "solana" => /\ rows[i].mint = MintOf[rows[i].token]
                                       /\ requests[i].mint = MintOf[rows[i].token]
                                       /\ requests[i].floor <= root[Client(i)]
        BY <3>10, InvoiceCreationAssumption DEF Publish, InvoiceInv, Progress
      <4> QED
        <5>1. /\ rows'[i].address.family = Family(i)
              /\ rows'[i].address.phrase = requests[i].phrase
              /\ rows'[i].address.mint = requests[i].mint
          BY <3>2 DEF Derived, Derive
        <5>2. rows'[i].mint = MintOf[rows[i].token]
          BY <4>1, <3>3, <3>10
        <5> QED  BY <4>1, <5>1, <5>2, <3>8, <3>10, <3>2, <3>3, <3>4, <3>5, <3>6, <3>7 DEF Stored
    <3> QED  BY <3>8, <3>9, <3>10
  <2> QED  BY <2>2, <2>3 DEF InvoiceInv
<1>4. IndexInv'
  <2>1. /\ rows'[i].merchant = rows[i].merchant /\ rows'[i].token = rows[i].token
        /\ rows'[i].address.index = requests[i].index
        /\ requests'[i].pc = "answer"
    <3>1. /\ rows'[i] = Published(i)
          /\ requests'[i] = [requests[i] EXCEPT !.pc = "answer"]
      BY DEF TypeInv, Goto
    <3> HIDE DEF Publish
    <3>2. /\ rows'[i].merchant = rows[i].merchant /\ rows'[i].token = rows[i].token
          /\ rows'[i].address = Derived(i)
      BY <3>1, <1>r, PublishedFields
    <3>3. Derived(i).index = requests[i].index
      BY DEF Derived, Derive
    <3>4. requests'[i].pc = "answer"
      BY <3>1, <1>r DEF RequestSet
    <3> QED  BY <3>2, <3>3, <3>4
  <2>2. \A j \in Invoices \ {i} : rows'[j] = rows[j] /\ requests'[j] = requests[j]
    BY DEF TypeInv, Goto
  <2> QED  BY <2>1, <2>2, IndexKept DEF Taken
<1> QED  BY <1>1, <1>2, <1>3, <1>4

LEMMA CrashCInv ==
  ASSUME CInv, Crash
  PROVE  CInv'
<1> USE DEF CInv, Crash
<1>1. TypeInv'
  <2>1. End("failed") \in RequestSet
    BY DEF End, NewRequest, RequestSet, AllPhrases, AllMints, InFlight
  <2> QED  BY <2>1 DEF TypeInv, chainVars
<1>2. WalletInv' /\ ChainInv'
  BY DEF WalletInv, ChainInv, chainVars
<1>3. ASSUME NEW j \in Invoices PROVE Progress(j)' /\ Stored(j)'
  <2>1. CASE requests[j].pc \notin InFlight
    <3>1. requests'[j] = requests[j]
      BY <2>1 DEF TypeInv
    <3> QED  BY <3>1, OtherInvoice DEF chainVars
  <2>2. CASE requests[j].pc \in InFlight
    <3>1. requests'[j] = End("failed") /\ requests[j].pc # "none" /\ requests[j].pc # "answered"
      BY <2>2 DEF InFlight
    <3> QED
      BY <3>1 DEF chainVars, InvoiceInv, Progress, Stored, End, NewRequest, Client, Family
  <2> QED  BY <2>1, <2>2
<1>4. InvoiceInv'  BY <1>3 DEF InvoiceInv
<1>5. IndexInv'
  <2>1. \A j \in Invoices : requests'[j] = requests[j] \/ requests'[j].pc = "failed"
    BY DEF End, NewRequest
  <2> QED  BY <2>1, IndexKept DEF Taken
<1> QED  BY <1>1, <1>2, <1>4, <1>5

LEMMA GrowCInv ==
  ASSUME CInv, NEW c \in Chains, NEW payers \in SUBSET Invoices, Grow(c, payers)
  PROVE  CInv'
<1> USE DEF CInv, Grow, serviceVars
<1>0. c \in Clients  BY InvoiceCreationAssumption
<1>1. TypeInv'  BY <1>0 DEF TypeInv
<1>2. WalletInv'  BY DEF WalletInv
<1>3. ChainInv'  BY <1>0, InvoiceCreationAssumption DEF ChainInv, TypeInv
<1>4. ASSUME NEW j \in Invoices PROVE Progress(j)' /\ Stored(j)'
  <2>1. Progress(j)'
    BY DEF InvoiceInv, Progress, Client, Family
  <2>2. CASE j \notin payers
    <3>1. paid'[j] = paid[j]
      BY <2>2 DEF TypeInv
    <3> QED  BY <2>1, <3>1 DEF InvoiceInv, Stored, Client, Family
  <2>3. CASE j \in payers
    <3>1. /\ requests[j].pc = "answered" /\ Client(j) = c
          /\ paid'[j] = tip[c] + 1
      BY <2>3
    <3>2. Family(j) = "solana" => rows[j].token \notin Nameless
      BY InvoiceCreationAssumption DEF Family, Client
    <3>3. Family(j) = "solana" => rows[j].floor <= root[c]
      BY <3>1, <3>2 DEF InvoiceInv, Stored
    <3>4. rows[j].floor \in Nat /\ root[c] <= tip[c] /\ root[c] \in Nat /\ tip[c] \in Nat
      BY <1>0 DEF TypeInv, RowSet, ChainInv
    <3>5. Family(j) = "solana" => rows[j].floor < paid'[j]
      BY <3>1, <3>3, <3>4
    <3> QED
      BY <2>1, <3>1, <3>5 DEF InvoiceInv, Stored, Client, Family
  <2> QED  BY <2>1, <2>2, <2>3
<1>5. InvoiceInv'  BY <1>4 DEF InvoiceInv
<1>6. IndexInv'  BY RowsKept
<1> QED  BY <1>1, <1>2, <1>3, <1>5, <1>6

LEMMA FinalizeCInv ==
  ASSUME CInv, NEW c \in Chains, Finalize(c)
  PROVE  CInv'
<1> USE DEF CInv, Finalize, serviceVars
<1>0. c \in Clients  BY InvoiceCreationAssumption
<1>1. TypeInv'  BY <1>0 DEF TypeInv
<1>2. WalletInv'  BY DEF WalletInv
<1>3. ChainInv'  BY <1>0 DEF ChainInv, TypeInv
<1>4. \A d \in Clients : root[d] \in Nat /\ root'[d] \in Nat /\ root[d] <= root'[d]
  BY <1>0 DEF TypeInv
<1>5. ASSUME NEW j \in Invoices PROVE Progress(j)' /\ Stored(j)'
  <2>1. requests[j].pc # "none" => Client(j) \in Clients
    BY ClientTyped DEF InvoiceInv, Progress
  <2>2. requests[j].floor \in Nat /\ rows[j].floor \in Nat
    BY DEF TypeInv, RowSet, RequestSet
  <2>3. Client(j)' = Client(j) /\ Family(j)' = Family(j)
    BY DEF Client, Family
  <2>4. Progress(j)'
    BY <1>4, <2>1, <2>2, <2>3 DEF InvoiceInv, Progress
  <2>5. rows[j].client # NoClient => requests[j].pc # "none"
    BY DEF InvoiceInv, Stored
  <2>6. rows[j].client # NoClient /\ Family(j) = "solana" => rows[j].floor <= root'[Client(j)]
    BY <1>4, <2>1, <2>2, <2>5 DEF InvoiceInv, Stored
  <2>7. Stored(j)'
    BY <2>3, <2>6 DEF InvoiceInv, Stored
  <2> QED  BY <2>4, <2>7
<1>6. InvoiceInv'  BY <1>5 DEF InvoiceInv
<1>7. IndexInv'  BY RowsKept
<1> QED  BY <1>1, <1>2, <1>3, <1>6, <1>7

LEMMA ForkCInv ==
  ASSUME CInv, NEW c \in Chains, NEW h \in 1..MaxTip, Fork(c, h)
  PROVE  CInv'
<1> USE DEF CInv, Fork, serviceVars
<1>0. c \in Clients /\ h \in Nat  BY InvoiceCreationAssumption
<1>1. TypeInv'  BY <1>0 DEF TypeInv
<1>2. WalletInv'  BY DEF WalletInv
<1>3. ChainInv'
  BY <1>0, InvoiceCreationAssumption DEF ChainInv, TypeInv
<1>4. ASSUME NEW j \in Invoices PROVE Progress(j)' /\ Stored(j)'
  <2>1. paid'[j] \in {0, paid[j]}
    OBVIOUS
  <2> QED  BY <2>1 DEF InvoiceInv, Progress, Stored, Client, Family
<1>5. InvoiceInv'  BY <1>4 DEF InvoiceInv
<1>6. IndexInv'  BY RowsKept
<1> QED  BY <1>1, <1>2, <1>3, <1>5, <1>6

LEMMA StutterCInv ==
  ASSUME CInv, UNCHANGED vars
  PROVE  CInv'
<1> USE DEF CInv, vars, serviceVars, chainVars
<1>1. TypeInv' /\ WalletInv' /\ ChainInv'
  BY DEF TypeInv, WalletInv, ChainInv
<1>2. InvoiceInv'  BY OtherInvoice DEF InvoiceInv
<1>3. IndexInv'  BY RowsKept
<1> QED  BY <1>1, <1>2, <1>3

LEMMA NextCInv ==
  ASSUME CInv, [Next]_vars
  PROVE  CInv'
<1>1. ASSUME NEW i \in Invoices, RequestStep(i) PROVE CInv'
  BY <1>1, InsertInvoiceCInv, GetHandlerCInv, FetchKeysCInv, SetTokenCInv, ReadTokenCInv,
     TakeIndexCInv, ReadHeightCInv, PublishCInv, AnswerCInv, FailCInv DEF RequestStep
<1>2. ASSUME NEW c \in Clients, ClientStep(c) PROVE CInv'
  BY <1>2, SpinUpCInv, BackfillFailsCInv, BackfillCInv DEF ClientStep
<1>3. ASSUME NEW c \in Chains, ChainStep(c) PROVE CInv'
  BY <1>3, GrowCInv, FinalizeCInv, ForkCInv DEF ChainStep
<1> QED
  BY <1>1, <1>2, <1>3, SignUpCInv, CrashCInv, StutterCInv DEF Next

LEMMA CreationInvariant == Spec => []CInv
BY InitCInv, NextCInv, PTL DEF Spec

-----------------------------------------------------------------------------
(* The theorems *)

\* Two invoices of one chain never share an address feed, unless they belong to
\* two merchants with one phrase, and none has any merchant's main wallet,
\* however requests interleave, fail and restart: the upsert of
\* get_derive_address hands every index out once.
THEOREM AddressesStayApart == Spec => []AddressesApart
<1>1. ASSUME CInv, NEW i \in Invoices, rows[i].client # NoClient
      PROVE  /\ rows[i].address \in AddressSet
             /\ Client(i) \in Clients /\ Family(i) \in Families
             /\ rows[i].merchant \in Merchants
             /\ rows[i].client = Client(i)
             /\ rows[i].address.family = Family(i)
             /\ rows[i].address.phrase = PhraseOf[rows[i].merchant]
             /\ Taken(i, rows[i].address.index)
             /\ IndexBelow(i, rows[i].address.index)
             /\ HandedOut(i) \in Nat
  <2>1. rows[i] \in RowSet /\ requests[i].pc # "none"
    BY <1>1 DEF CInv, TypeInv, InvoiceInv, Stored
  <2>2. /\ rows[i].merchant \in Merchants /\ Client(i) \in Clients
        /\ Family(i) \in Families /\ Namespace(Client(i)) \in Namespaces
    BY <1>1, <2>1, ClientTyped DEF CInv, InvoiceInv, Progress, TypeInv
  <2>3. rows[i].address \in AddressSet /\ rows[i].address.index \in Nat
    BY <2>1 DEF RowSet, AddressSet
  <2>4. Taken(i, rows[i].address.index)
    BY <1>1 DEF Taken
  <2>5. HandedOut(i) \in Nat
    BY <1>1, <2>2 DEF CInv, TypeInv, HandedOut
  <2> QED  BY <1>1, <2>2, <2>3, <2>4, <2>5 DEF CInv, InvoiceInv, Stored, IndexInv
<1>2. ASSUME CInv, NEW i \in Invoices, rows[i].client # NoClient,
             NEW a \in WatchedAddresses(i)
      PROVE  /\ a.family = Family(i) /\ a.phrase = PhraseOf[rows[i].merchant]
             /\ a.index = rows[i].address.index
  BY <1>1, <1>2 DEF WatchedAddresses, AddressSet
<1>3. ASSUME CInv, NEW i \in Invoices, NEW j \in Invoices, i # j,
             rows[i].client # NoClient, rows[i].client = rows[j].client,
             SeedsApart(rows[i].merchant, rows[j].merchant)
      PROVE  WatchedAddresses(i) \cap WatchedAddresses(j) = {}
  <2> SUFFICES ASSUME NEW a \in WatchedAddresses(i), a \in WatchedAddresses(j)
               PROVE  FALSE
    OBVIOUS
  <2>0. rows[j].client # NoClient
    BY <1>3
  <2>1. /\ PhraseOf[rows[i].merchant] = PhraseOf[rows[j].merchant]
        /\ rows[i].address.index = rows[j].address.index
    BY <1>2, <1>3, <2>0
  <2>2. rows[i].merchant = rows[j].merchant
    BY <1>3, <2>1 DEF SeedsApart
  <2>3. /\ Taken(i, rows[i].address.index) /\ Taken(j, rows[i].address.index)
        /\ rows[i].address.index \in Nat /\ Client(i) = Client(j)
    BY <1>1, <1>3, <2>0, <2>1 DEF AddressSet
  <2> QED  BY <1>3, <2>2, <2>3 DEF CInv, IndexInv
<1>4. ASSUME CInv, NEW i \in Invoices, NEW w \in wallets, rows[i].client # NoClient
      PROVE  MainAddress(w[1], w[2]) \notin WatchedAddresses(i)
  <2> SUFFICES ASSUME MainAddress(w[1], w[2]) \in WatchedAddresses(i)
               PROVE  FALSE
    OBVIOUS
  <2>1. w[2] \in {"evm", "solana"}
    BY <1>4 DEF CInv, TypeInv
  <2>2. Family(i) = w[2] /\ rows[i].address.index = 0
    BY <1>2, <1>4 DEF MainAddress, Derive
  <2>3. IndexBelow(i, 0)
    BY <1>1, <1>4, <2>2
  <2> QED  BY <2>1, <2>2, <2>3 DEF IndexBelow
<1>5. CInv => AddressesApart
  BY <1>3, <1>4 DEF AddressesApart
<1> QED  BY <1>5, CreationInvariant, PTL

\* Every row a watcher can load is derived from its own merchant's phrase and
\* under its own mint: the columns a Solana derivation reads back are written
\* by its own request.
THEOREM PaysTheRightMerchant == Spec => []PaysItsMerchant
<1>1. CInv => PaysItsMerchant
  BY DEF CInv, InvoiceInv, Stored, PaysItsMerchant
<1> QED  BY <1>1, CreationInvariant, PTL

\* An invoice whose URL went out is in a watch set of its chain: signup wrote
\* the wallet the EVM query joins, and the row was published before.
THEOREM AnsweredStaysWatched == Spec => []AnsweredIsWatched
<1>1. ASSUME CInv, NEW i \in Invoices, requests[i].pc = "answered",
             rows[i].token \notin Nameless
      PROVE  Watches(Client(i), i)
  <2>1. /\ rows[i].client # NoClient /\ rows[i].client = Client(i)
        /\ rows[i].address.family = Family(i) /\ rows[i].merchant \in merchants
    BY <1>1 DEF CInv, InvoiceInv, Progress, Stored
  <2>2. Client(i) \in Clients /\ Family(i) \in Families
    BY <1>1, ClientTyped DEF CInv, InvoiceInv, Progress
  <2>3. rows[i].address.index \in Nat /\ Taken(i, rows[i].address.index)
    BY <1>1, <2>1 DEF CInv, TypeInv, RowSet, AddressSet, Taken
  <2>4. IndexBelow(i, rows[i].address.index)
    BY <1>1, <2>3 DEF CInv, IndexInv
  <2>5. rows[i].address # NoAddress
    BY <2>1, <2>4 DEF NoAddress, Derive, IndexBelow
  <2> QED  BY <1>1, <2>1, <2>5 DEF Watches, CInv, WalletInv
<1>2. CInv => AnsweredIsWatched
  BY <1>1 DEF AnsweredIsWatched
<1> QED  BY <1>2, CreationInvariant, PTL

\* No Solana payment is below its invoice's floor: the floor was rooted when
\* it was read, and what is rooted cannot fork away.
THEOREM FloorStaysBelow == Spec => []FloorBelowPayments
<1>1. CInv => FloorBelowPayments
  BY DEF CInv, InvoiceInv, Stored, FloorBelowPayments, Family
<1> QED  BY <1>1, CreationInvariant, PTL

\* CreationTypeOK is an invariant: no index is in use that was not handed out.
THEOREM CreationTyped == Spec => []CreationTypeOK
<1>1. ASSUME CInv, NEW i \in Invoices, rows[i].client # NoClient
      PROVE  rows[i].address.index <= indices[rows[i].merchant][Namespace(Client(i))]
  <2>1. rows[i].address.index \in Nat /\ Taken(i, rows[i].address.index)
    BY <1>1 DEF CInv, TypeInv, RowSet, AddressSet, Taken
  <2>2. requests[i].pc # "none"
    BY <1>1 DEF CInv, InvoiceInv, Stored
  <2>3. HandedOut(i) \in Nat
    BY <1>1, <2>2, ClientTyped DEF CInv, TypeInv, InvoiceInv, Progress, HandedOut
  <2> QED  BY <1>1, <2>1, <2>3 DEF CInv, IndexInv, IndexBelow, HandedOut
<1>2. ASSUME CInv, NEW i \in Invoices
      PROVE  /\ rows[i].merchant \in merchants \cup {NoMerchant}
             /\ rows[i].client \in Clients \cup {NoClient}
             /\ requests[i].index \in Nat
             /\ requests[i].pc \in InFlight \cup {"none", "answered", "failed"}
  BY <1>2 DEF CInv, TypeInv, RowSet, RequestSet, InvoiceInv, Progress
<1>3. CInv => CreationTypeOK
  BY <1>1, <1>2 DEF CreationTypeOK, CInv, TypeInv, ChainInv
<1> QED  BY <1>3, CreationInvariant, PTL
=============================================================================
