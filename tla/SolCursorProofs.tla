---------------------------- MODULE SolCursorProofs ----------------------------
(***************************************************************************)
(* The promise of the cursors of network_address_cursors, for every value  *)
(* of the constants of SolWatcher: a cursor never passes money that is not *)
(* on record.                                                              *)
(***************************************************************************)
EXTENDS SolProofs

(***************************************************************************)
(* Two things are needed of the invoices.  Their addresses are their own:  *)
(* AddressesApart of InvoiceCreation.  And a transaction that pays one     *)
(* invoice beyond dispute pays no other: SkipBooked drops a signature that *)
(* is on record for any watched invoice, so of one that pays two of them   *)
(* the second may be missed (Known).                                       *)
(***************************************************************************)
Payees(t) == Direct[t] \cup UNION Claims[t]
OwnAddresses ==
  \A i, j \in Invoices : i # j => WatchAddresses[i] \cap WatchAddresses[j] = {}
SinglePayee ==
  \A t \in Txs : \A i \in Attributed(t, Invoices), j \in Payees(t) : i = j

(***************************************************************************)
(* The inductive invariant.  A cursor is at a finalized transaction; what  *)
(* the tick has listed at or below the root it read cannot move any more;  *)
(* a complete listing has everything there that the cursor has not passed; *)
(* what is marked as applied is on record, unless it failed; and a row is  *)
(* only orphaned for a transaction that no cursor has passed.              *)
(***************************************************************************)
Fixed(t) == landed[t] # Nowhere /\ landed[t] <= tick.root
Passed(t, a) == Succeeded(t) /\ Behind(t, a)
NothingScanned == tick.scans = [a \in Addresses |-> NoScan] /\ tick.applied = {}

CursorsInv ==
  \A a \in Addresses :
    /\ cursors[a].slot <= root
    /\ cursors[a].tx = NoTx => cursors[a].slot = Nowhere
    /\ cursors[a].tx # NoTx => /\ landed[cursors[a].tx] = cursors[a].slot
                               /\ cursors[a].slot # Nowhere

PayeesInv == \A p \in Payments : Recorded(p) => p[1] \in Payees(p[2])

Listed(a) ==
  /\ tick.scans[a] # NoScan => a \in AddressesOf(tick.watched)
  /\ \A s \in tick.scans[a].sigs :
       s.slot <= tick.root => s = Sighting(s.tx) /\ s.slot # Nowhere
  /\ (tick.pc # "park" \/ a \in tick.feeds) /\ tick.scans[a].complete =>
       \A t \in Txs : a \in Names[t] /\ Fixed(t)
                        => Behind(t, a) \/ Sighting(t) \in tick.scans[a].sigs

ScanInv ==
  /\ tick.pc \notin {"feeds", "fetch", "totals", "park"} => NothingScanned
  /\ tick.pc = "feeds" => tick.feeds \subseteq AddressesOf(tick.watched)
  /\ tick.pc = "park" => \A a \in tick.feeds : tick.scans[a].complete
  /\ \A a \in Addresses : Listed(a)

AppliedInv ==
  \A t \in tick.applied : \A i \in Attributed(t, Invoices) \cap tick.watched :
    Fixed(t) /\ ~failed[t] => Booked(<<i, t>>)

AnswersInv ==
  /\ tick.pc # "old" => tick.answers = {}
  /\ \A v \in tick.answers :
       v.says \in {"dropped", "failed"} => \A a \in Addresses : ~Passed(v.pay[2], a)

CursorInv ==
  /\ SafetyInv /\ CursorsInv /\ PayeesInv /\ ScanInv /\ AppliedInv /\ AnswersInv
  /\ CursorSafe
-----------------------------------------------------------------------------
(***************************************************************************)
(* What is at or below the root stays where it is, and nothing else gets   *)
(* there.                                                                  *)
(***************************************************************************)
Frozen ==
  /\ root <= root'
  /\ \A t \in Txs :
       \/ landed[t] # Nowhere /\ landed[t] <= root
       \/ landed'[t] # Nowhere /\ landed'[t] <= root
       => landed'[t] = landed[t] /\ failed'[t] = failed[t]

LEMMA LandFreezes ==
  ASSUME TypeInv, NEW place, DOMAIN place \subseteq Txs,
         \A t \in DOMAIN place : /\ landed[t] = Nowhere \/ landed[t] > root
                                 /\ place[t] \in Nat
                                 /\ place[t] = Nowhere \/ place[t] > root,
         Land(place), root' = root
  PROVE  Frozen
<1>1. PICK failing \in SUBSET (MayFail \cap DOMAIN place) :
        failed' = [t \in Txs |-> IF t \in DOMAIN place THEN t \in failing ELSE failed[t]]
  BY DEF Land
<1>2. root \in Nat /\ \A t \in Txs : landed[t] \in Nat
  BY ClusterTypes
<1>3. ASSUME NEW t \in Txs,
             \/ landed[t] # Nowhere /\ landed[t] <= root
             \/ landed'[t] # Nowhere /\ landed'[t] <= root
      PROVE  landed'[t] = landed[t] /\ failed'[t] = failed[t]
  <2>1. t \notin DOMAIN place
    <3>1. t \in DOMAIN place => landed'[t] = place[t]
      BY DEF Land
    <3>2. QED BY <1>2, <1>3, <3>1
  <2>2. QED BY <1>1, <2>1 DEF Land
<1>4. QED BY <1>2, <1>3 DEF Frozen

LEMMA ClusterFreezes ==
  ASSUME TypeInv, GrowChain \/ RootSlot \/ ForkChain \/ UNCHANGED chainVars
  PROVE  Frozen
<1>1. CASE GrowChain
  <2>1. PICK included \in SUBSET {t \in PayableTxs : landed[t] = Nowhere} :
          Land([t \in included |-> head + 1])
    BY <1>1 DEF GrowChain, NextSlot
  <2> DEFINE place == [t \in included |-> head + 1]
  <2>2. /\ DOMAIN place \subseteq Txs /\ Land(place)
        /\ \A t \in DOMAIN place : landed[t] = Nowhere /\ place[t] = head + 1
    BY <2>1 DEF PayableTxs
  <2>3. head + 1 \in Nat /\ head + 1 > root /\ root' = root
    BY <1>1, ClusterTypes DEF GrowChain, NextSlot
  <2> HIDE DEF place
  <2>4. QED BY <2>2, <2>3, LandFreezes
<1>2. CASE ForkChain
  <2>1. PICK place \in [{t \in PayableTxs : landed[t] = Nowhere \/ landed[t] > root}
                          -> {Nowhere} \cup (root + 1 .. head)] : Land(place)
    BY <1>2 DEF ForkChain, SwitchFork
  <2>2. root' = root /\ DOMAIN place \subseteq Txs
    BY <1>2, <2>1 DEF ForkChain, SwitchFork, PayableTxs
  <2>3. \A t \in DOMAIN place : /\ landed[t] = Nowhere \/ landed[t] > root
                                /\ place[t] \in Nat
                                /\ place[t] = Nowhere \/ place[t] > root
    BY <2>1, ClusterTypes, SlotFacts
  <2>4. QED BY <2>1, <2>2, <2>3, LandFreezes
<1>3. CASE RootSlot
  BY <1>3, ClusterTypes DEF RootSlot, Finalize, Frozen
<1>4. CASE UNCHANGED chainVars
  BY <1>4, ClusterTypes DEF chainVars, Frozen
<1>5. QED BY <1>1, <1>2, <1>3, <1>4

\* What a step of the cluster leaves to the cursors and to the tick.
LEMMA FrozenKeeps ==
  ASSUME CursorInv, SafetyInv', Frozen, UNCHANGED <<payments, cursors, tick>>
  PROVE  CursorInv'
<1>1. /\ root \in Nat /\ root' \in Nat /\ root <= root' /\ tick.root \in Nat /\ tick.root <= root
      /\ \A t \in Txs : landed[t] \in Nat /\ landed'[t] \in Nat
      /\ \A a \in Addresses : cursors[a].slot \in Nat /\ cursors[a].tx \in Txs \cup {NoTx}
      /\ Nowhere = 0
  <2>1. root \in Nat /\ \A t \in Txs : landed[t] \in Nat
    BY ClusterTypes DEF CursorInv, SafetyInv
  <2>2. root' \in Nat /\ \A t \in Txs : landed'[t] \in Nat
    BY DEF SafetyInv, TypeInv, SolTypeOK, ChainTypeOK
  <2>3. tick.root \in Nat /\ tick.root <= root
    BY TickFacts, SlotFacts DEF CursorInv, SafetyInv, TickInv, TickLocals
  <2>4. \A a \in Addresses : cursors[a].slot \in Nat /\ cursors[a].tx \in Txs \cup {NoTx}
    BY TickFacts, SlotFacts DEF CursorInv, SafetyInv, CursorRows
  <2>5. QED BY <2>1, <2>2, <2>3, <2>4, SlotFacts DEF Frozen
<1>2. \A t \in Txs : Fixed(t)' => /\ Fixed(t) /\ landed'[t] = landed[t]
                                  /\ failed'[t] = failed[t] /\ Sighting(t)' = Sighting(t)
                                  /\ \A a \in Addresses : Behind(t, a)' = Behind(t, a)
  BY <1>1 DEF Frozen, Fixed, Sighting, Behind
<1>3. ASSUME NEW t \in Txs, NEW a \in Addresses, Passed(t, a)'
      PROVE  Passed(t, a)
  <2>1. landed'[t] # Nowhere /\ ~failed'[t] /\ Behind(t, a)'
    BY <1>3 DEF Passed, Succeeded
  <2>2. landed'[t] <= cursors[a].slot /\ cursors[a].slot <= root
    <3>1. cursors[a].tx = t => landed'[t] = cursors[a].slot
      <4>1. ASSUME cursors[a].tx = t PROVE landed[t] = cursors[a].slot /\ landed[t] # Nowhere
        BY <4>1, SolWatcherAssumption DEF CursorInv, CursorsInv
      <4>2. landed[t] = cursors[a].slot /\ landed[t] # Nowhere => landed'[t] = landed[t]
        BY <1>1 DEF CursorInv, CursorsInv, Frozen
      <4>3. QED BY <4>1, <4>2
    <3>2. QED BY <1>1, <2>1, <3>1 DEF Behind, CursorInv, CursorsInv
  <2>3. landed'[t] = landed[t] /\ failed'[t] = failed[t]
    BY <1>1, <2>1, <2>2 DEF Frozen
  <2>4. QED BY <2>1, <2>3 DEF Passed, Succeeded, Behind
<1>4. CursorsInv'
  <2>1. ASSUME NEW a \in Addresses
        PROVE  /\ cursors[a].slot <= root'
               /\ cursors[a].tx # NoTx => landed'[cursors[a].tx] = cursors[a].slot
    <3>1. /\ cursors[a].slot <= root
          /\ cursors[a].tx # NoTx => /\ cursors[a].tx \in Txs
                                     /\ landed[cursors[a].tx] = cursors[a].slot
                                     /\ cursors[a].slot # Nowhere
      BY <1>1 DEF CursorInv, CursorsInv
    <3>2. QED BY <1>1, <3>1 DEF Frozen
  <2>2. QED BY <2>1 DEF CursorInv, CursorsInv
<1>5. PayeesInv'
  BY DEF CursorInv, PayeesInv, Recorded
<1>6. ScanInv'
  <2>1. ASSUME NEW a \in Addresses PROVE Listed(a)'
    <3>1. Listed(a) /\ tick.scans[a].sigs \subseteq Sightings
      BY TickFacts DEF CursorInv, ScanInv, SafetyInv, TickLocals
    <3>2. ASSUME NEW s \in tick.scans[a].sigs, s.slot <= tick.root
          PROVE  s = Sighting(s.tx)' /\ s.slot # Nowhere
      <4>1. s.tx \in Txs /\ s.slot \in Nat
        BY <3>1, SlotFacts DEF Sightings
      <4>2. s = Sighting(s.tx) /\ s.slot # Nowhere /\ s.slot = landed[s.tx]
        <5>1. s = Sighting(s.tx) /\ s.slot # Nowhere
          BY <3>1, <3>2 DEF Listed
        <5>2. Sighting(s.tx).slot = landed[s.tx]
          BY DEF Sighting
        <5>3. QED BY <5>1, <5>2
      <4>3. landed'[s.tx] = landed[s.tx] /\ failed'[s.tx] = failed[s.tx]
        BY <1>1, <3>2, <4>1, <4>2 DEF Frozen
      <4>4. QED BY <4>2, <4>3 DEF Sighting
    <3>3. ASSUME tick.pc # "park" \/ a \in tick.feeds, tick.scans[a].complete,
                 NEW t \in Txs, a \in Names[t], Fixed(t)'
          PROVE  Behind(t, a)' \/ Sighting(t)' \in tick.scans[a].sigs
      <4>1. Fixed(t) /\ Behind(t, a)' = Behind(t, a) /\ Sighting(t)' = Sighting(t)
        BY <1>2, <3>3
      <4>2. QED BY <3>1, <3>3, <4>1 DEF Listed
    <3>4. QED BY <3>1, <3>2, <3>3 DEF Listed
  <2>2. QED BY <2>1 DEF CursorInv, ScanInv, NothingScanned
<1>7. AppliedInv'
  <2>1. tick.applied \subseteq Txs
    BY TickFacts DEF CursorInv, SafetyInv, TickLocals
  <2>2. QED BY <1>2, <2>1 DEF CursorInv, AppliedInv, Booked
<1>8. AnswersInv'
  <2>1. \A v \in tick.answers : v.pay[2] \in Txs
    BY TickFacts DEF CursorInv, SafetyInv, TickLocals, Answers, Payments
  <2>2. QED BY <1>3, <2>1 DEF CursorInv, AnswersInv
<1>9. CursorSafe'
  <2>1. \A t \in Txs : \A i \in Attributed(t, Invoices) : WatchAddresses[i] \subseteq Addresses
    BY SolWatcherAssumption, AttributedType
  <2>2. QED BY <1>3, <2>1 DEF CursorInv, CursorSafe, Passed, Booked
<1>10. QED BY <1>4, <1>5, <1>6, <1>7, <1>8, <1>9 DEF CursorInv
-----------------------------------------------------------------------------
(***************************************************************************)
(* The steps of a tick, with the cluster at rest.                          *)
(***************************************************************************)
LEMMA PassedRests ==
  ASSUME UNCHANGED <<chainVars, cursors>>
  PROVE  /\ \A t, a : Passed(t, a)' = Passed(t, a)
         /\ \A t, a : Behind(t, a)' = Behind(t, a)
         /\ \A t : Succeeded(t)' = Succeeded(t)
         /\ CursorsInv' = CursorsInv
  BY DEF Passed, Succeeded, Behind, CursorsInv, chainVars

\* What a step has to show that leaves the cursors alone, and takes no row of
\* a transaction that a cursor has passed off the books.
LEMMA CursorMoves ==
  ASSUME CursorInv, SafetyInv', UNCHANGED <<chainVars, cursors>>,
         PayeesInv', ScanInv', AppliedInv', AnswersInv',
         \A p \in Payments : Booked(p) => Booked(p)' \/ \A a \in Addresses : ~Passed(p[2], a)
  PROVE  CursorInv'
<1>1. CursorsInv'
  BY PassedRests DEF CursorInv
<1>2. CursorSafe'
  <2>1. ASSUME NEW t \in Txs, NEW i \in Attributed(t, Invoices),
               NEW a \in WatchAddresses[i] \cap Names[t], Succeeded(t)', Behind(t, a)'
        PROVE  Booked(<<i, t>>)'
    <3>1. i \in Invoices /\ a \in Addresses /\ <<i, t>> \in Payments
      BY AttributedType, SolWatcherAssumption DEF Payments
    <3>2. Succeeded(t) /\ Behind(t, a) /\ Passed(t, a)
      BY <2>1, PassedRests DEF Passed
    <3>3. Booked(<<i, t>>)
      BY <3>2 DEF CursorInv, CursorSafe
    <3>4. QED BY <3>1, <3>2, <3>3
  <2>2. QED BY <2>1 DEF CursorSafe
<1>3. QED BY <1>1, <1>2 DEF CursorInv

\* A step after which the tick holds no listings.
LEMMA NothingLeft ==
  ASSUME tick'.scans = [a \in Addresses |-> NoScan], tick'.applied = {}, tick'.pc # "park",
         tick'.pc = "feeds" => tick'.feeds \subseteq AddressesOf(tick'.watched)
  PROVE  ScanInv' /\ AppliedInv'
<1>1. ASSUME NEW a \in Addresses PROVE Listed(a)'
  BY DEF Listed, NoScan
<1>2. ScanInv'
  BY <1>1 DEF ScanInv, NothingScanned
<1>3. AppliedInv'
  BY DEF AppliedInv
<1>4. QED BY <1>2, <1>3

\* A step that leaves the listings as they are.
LEMMA ListingsRest ==
  ASSUME CursorInv, UNCHANGED <<chainVars, cursors, payments>>,
         tick'.root = tick.root, tick'.scans = tick.scans, tick'.applied = tick.applied,
         tick'.watched = tick.watched,
         tick'.pc \notin {"feeds", "fetch", "totals", "park"}
           => tick.pc \notin {"feeds", "fetch", "totals", "park"},
         tick'.pc = "feeds" => tick'.feeds \subseteq AddressesOf(tick.watched),
         tick'.pc = "park" => \A a \in tick'.feeds : tick.scans[a].complete,
         tick.pc = "park" => tick'.pc = "park" /\ tick'.feeds \subseteq tick.feeds
  PROVE  ScanInv' /\ AppliedInv'
<1>1. /\ \A t : Fixed(t)' = Fixed(t) /\ Sighting(t)' = Sighting(t)
      /\ \A t, a : Behind(t, a)' = Behind(t, a)
      /\ \A p : Booked(p)' = Booked(p)
  BY PassedRests DEF Fixed, Sighting, Booked, chainVars
<1>2. ASSUME NEW a \in Addresses PROVE Listed(a)'
  <2>1. Listed(a)
    BY DEF CursorInv, ScanInv
  <2>2. tick'.pc # "park" \/ a \in tick'.feeds => tick.pc # "park" \/ a \in tick.feeds
    OBVIOUS
  <2>3. QED BY <1>1, <2>1, <2>2 DEF Listed
<1>3. ScanInv'
  BY <1>2 DEF CursorInv, ScanInv, NothingScanned
<1>4. AppliedInv'
  BY <1>1 DEF CursorInv, AppliedInv, chainVars
<1>5. QED BY <1>3, <1>4

\* No new answers.
LEMMA AnswersRest ==
  ASSUME CursorInv, UNCHANGED <<chainVars, cursors>>, tick'.answers \subseteq tick.answers,
         tick'.pc # "old" => tick.pc # "old" \/ tick'.answers = {}
  PROVE  AnswersInv'
  BY PassedRests DEF CursorInv, AnswersInv

LEMMA RowsUntouched ==
  ASSUME CursorInv, UNCHANGED payments
  PROVE  PayeesInv' /\ \A p : Booked(p)' = Booked(p)
  BY DEF CursorInv, PayeesInv, Recorded, Booked

\* The steps before and after the listings, up to the answers.
LEMMA UnlistedSteps ==
  ASSUME CursorInv, SafetyInv',
         \/ ExpireInvoices \/ AnnounceExpired \/ LoadWatched \/ ReadRoot
         \/ SelectInFlight \/ AbortTick
  PROVE  CursorInv'
<1>1. tick \in TickLocals
  BY TickFacts DEF CursorInv, SafetyInv
<1>2. UNCHANGED <<chainVars, cursors, payments>>
  BY DEF ExpireInvoices, MarkExpired, AnnounceExpired, LoadWatched, ReadRoot, SelectInFlight,
         AbortTick, ledgerVars
<1>3. ASSUME tick' = Idle
      PROVE  /\ tick'.scans = [a \in Addresses |-> NoScan] /\ tick'.applied = {}
             /\ tick'.pc = "idle" /\ tick'.answers = {}
  BY <1>3 DEF Idle
<1>4. tick.pc \in {"idle", "expired", "root"} => NothingScanned
  BY DEF CursorInv, ScanInv
<1>5. /\ tick'.scans = [a \in Addresses |-> NoScan] /\ tick'.applied = {}
      /\ tick'.pc # "park"
      /\ tick'.pc = "feeds" => tick'.feeds \subseteq AddressesOf(tick'.watched)
      /\ tick'.answers \subseteq tick.answers
      /\ tick'.pc # "old" => tick.pc # "old" \/ tick'.answers = {}
  <2>1. CASE ExpireInvoices
    BY <1>1, <1>4, <2>1 DEF ExpireInvoices, At, TickLocals, NothingScanned
  <2>2. CASE AnnounceExpired
    BY <1>1, <1>4, <2>2 DEF AnnounceExpired, At, TickLocals, NothingScanned
  <2>3. CASE LoadWatched
    <3>1. CASE tick' = Idle
      BY <1>3, <3>1
    <3>2. CASE tick' = [tick EXCEPT !.pc = "root", !.watched = WatchedInvoices]
      BY <1>1, <1>4, <2>3, <3>2 DEF LoadWatched, At, TickLocals, NothingScanned
    <3>3. QED BY <2>3, <3>1, <3>2 DEF LoadWatched
  <2>4. CASE ReadRoot
    BY <1>1, <1>4, <2>4 DEF ReadRoot, At, TickLocals, NothingScanned
  <2>5. CASE SelectInFlight
    BY <1>1, <2>5 DEF SelectInFlight, At, TickLocals
  <2>6. CASE AbortTick
    BY <1>3, <2>6 DEF AbortTick
  <2>7. QED BY <2>1, <2>2, <2>3, <2>4, <2>5, <2>6
<1>6. ScanInv' /\ AppliedInv'
  BY <1>5, NothingLeft
<1>7. AnswersInv' /\ PayeesInv' /\ \A p : Booked(p)' = Booked(p)
  BY <1>2, <1>5, AnswersRest, RowsUntouched
<1>8. QED BY <1>2, <1>6, <1>7, CursorMoves

LEMMA ListedSteps ==
  ASSUME CursorInv, SafetyInv',
         ScanFails \/ FetchedAll \/ Recompute \/ Notify \/ PickFeeds
  PROVE  CursorInv'
<1>1. tick \in TickLocals
  BY TickFacts DEF CursorInv, SafetyInv
<1>2. UNCHANGED <<chainVars, cursors, payments>>
  BY DEF ScanFails, FetchedAll, Recompute, WriteTotal, Notify, PickFeeds, ledgerVars
<1>3. /\ tick'.root = tick.root /\ tick'.scans = tick.scans /\ tick'.applied = tick.applied
      /\ tick'.watched = tick.watched /\ tick'.answers = tick.answers
      /\ \/ tick'.pc = tick.pc /\ tick'.feeds \subseteq tick.feeds
         \/ tick.pc = "fetch" /\ tick'.pc = "totals"
         \/ /\ tick.pc = "totals" /\ tick'.pc = "park"
            /\ tick'.feeds = {a \in Addresses : Parkable(a)}
  <2>1. CASE ScanFails
    BY <1>1, <2>1 DEF ScanFails, TickLocals
  <2>2. CASE FetchedAll
    BY <1>1, <2>2 DEF FetchedAll, At, TickLocals
  <2>3. CASE Recompute
    BY <1>1, <2>3 DEF Recompute, TickLocals
  <2>4. CASE Notify
    BY <1>1, <2>4 DEF Notify, TickLocals
  <2>5. CASE PickFeeds
    BY <1>1, <2>5 DEF PickFeeds, At, TickLocals
  <2>6. QED BY <2>1, <2>2, <2>3, <2>4, <2>5
<1>4. ScanInv' /\ AppliedInv'
  <2>1. /\ tick'.pc \notin {"feeds", "fetch", "totals", "park"}
             => tick.pc \notin {"feeds", "fetch", "totals", "park"}
        /\ tick.pc = "park" => tick'.pc = "park" /\ tick'.feeds \subseteq tick.feeds
    BY <1>3
  <2>2. tick'.pc = "feeds" => tick'.feeds \subseteq AddressesOf(tick.watched)
    BY <1>3 DEF CursorInv, ScanInv
  <2>3. tick'.pc = "park" => \A a \in tick'.feeds : tick.scans[a].complete
    BY <1>3 DEF CursorInv, ScanInv, Parkable
  <2>4. QED BY <1>2, <1>3, <2>1, <2>2, <2>3, ListingsRest
<1>5. AnswersInv' /\ PayeesInv' /\ \A p : Booked(p)' = Booked(p)
  <2>1. tick'.pc # "old" => tick.pc # "old" \/ tick'.answers = {}
    BY <1>3
  <2>2. QED BY <1>2, <1>3, <2>1, AnswersRest, RowsUntouched
<1>6. QED BY <1>2, <1>4, <1>5, CursorMoves
-----------------------------------------------------------------------------
(***************************************************************************)
(* The listings.                                                           *)
(***************************************************************************)

\* A listing that the page cap did not cut off is the whole feed.
LEMMA WholeFeed ==
  ASSUME NEW a, Scan(a).complete
  PROVE  Newest(Feed(a)) = Feed(a)
<1>1. Feed(a) \subseteq Txs /\ IsFiniteSet(Feed(a)) /\ Cardinality(Feed(a)) < MAX_SIGS
  BY ChainAssumption, FS_Subset DEF Scan, Feed
<1>2. ASSUME NEW t \in Feed(a)
      PROVE  Cardinality({u \in Feed(a) : Before(t, u)}) < MAX_SIGS
  <2> DEFINE later == {u \in Feed(a) : Before(t, u)}
  <2>1. later \subseteq Feed(a)
    OBVIOUS
  <2> HIDE DEF later
  <2>2. /\ Cardinality(later) <= Cardinality(Feed(a))
        /\ Cardinality(later) \in Nat /\ Cardinality(Feed(a)) \in Nat /\ MAX_SIGS \in Nat
    BY <1>1, <2>1, FS_Subset, FS_CardinalityType, SolWatcherAssumption
  <2>3. Cardinality(later) < MAX_SIGS
    BY <1>1, <2>2
  <2>4. QED BY <2>3 DEF later
<1>3. QED BY <1>2 DEF Newest

\* What names the address and is not in its feed, the cursor has passed.
LEMMA OutsideFeed ==
  ASSUME CursorInv, NEW a \in Addresses, NEW t \in Txs, a \in Names[t],
         landed[t] # Nowhere, t \notin Feed(a)
  PROVE  Behind(t, a)
<1>1. /\ landed[t] \in Nat /\ cursors[a].slot \in Nat /\ Nowhere = 0
      /\ cursors[a].tx \in Txs \cup {NoTx}
  BY ClusterTypes, TickFacts, SlotFacts DEF CursorInv, SafetyInv, CursorRows
<1>2. CASE landed[t] < cursors[a].slot
  BY <1>2 DEF Behind
<1>3. CASE landed[t] >= cursors[a].slot /\ cursors[a].tx # NoTx /\ ~Before(cursors[a].tx, t)
  <2>1. landed[cursors[a].tx] = cursors[a].slot /\ cursors[a].tx \in Txs
    BY <1>1, <1>3 DEF CursorInv, CursorsInv
  <2>2. landed[t] = cursors[a].slot /\ ~(Rank[cursors[a].tx] < Rank[t])
    BY <1>1, <1>3, <2>1 DEF Before
  <2>3. Rank[t] \in Nat /\ Rank[cursors[a].tx] \in Nat
    BY <2>1, SolWatcherAssumption
  <2>4. Rank[t] < Rank[cursors[a].tx] \/ Rank[t] = Rank[cursors[a].tx]
    BY <2>2, <2>3
  <2>5. Rank[t] = Rank[cursors[a].tx] => t = cursors[a].tx
    BY <2>1, SolWatcherAssumption
  <2>6. QED BY <1>3, <2>2, <2>4, <2>5 DEF Behind
<1>4. QED BY <1>1, <1>2, <1>3 DEF Feed

LEMMA DiscoverSignaturesListed ==
  ASSUME CursorInv, SafetyInv', DiscoverSignatures
  PROVE  CursorInv'
<1>1. tick \in TickLocals
  BY TickFacts DEF CursorInv, SafetyInv
<1>2. UNCHANGED <<chainVars, cursors, payments>>
  BY DEF DiscoverSignatures, ledgerVars
<1>3. PICK b \in tick.feeds :
        tick' = [tick EXCEPT !.feeds = @ \ {b}, !.scans[b] = Scan(b),
                  !.sigs = @ \cup {s \in Scan(b).sigs : \A r \in @ : r.tx # s.tx}]
  BY DEF DiscoverSignatures
<1>4. /\ tick'.root = tick.root /\ tick'.applied = tick.applied /\ tick'.pc = tick.pc
      /\ tick'.watched = tick.watched /\ tick'.answers = tick.answers
      /\ tick'.feeds = tick.feeds \ {b} /\ tick'.scans = [tick.scans EXCEPT ![b] = Scan(b)]
  BY <1>1, <1>3 DEF TickLocals
<1>5. /\ b \in Addresses /\ tick.pc = "feeds" /\ b \in AddressesOf(tick.watched)
      /\ tick.scans \in [Addresses -> [sigs : SUBSET Sightings, complete : BOOLEAN]]
  BY <1>1 DEF DiscoverSignatures, At, TickLocals, CursorInv, ScanInv
<1>6. /\ \A t : Fixed(t)' = Fixed(t) /\ Sighting(t)' = Sighting(t)
      /\ \A t, a : Behind(t, a)' = Behind(t, a)
      /\ \A p : Booked(p)' = Booked(p)
  BY <1>2, <1>4, PassedRests DEF Fixed, Sighting, Booked, chainVars
<1>7. ASSUME NEW a \in Addresses PROVE Listed(a)'
  <2>1. CASE a # b
    <3>1. tick'.scans[a] = tick.scans[a] /\ Listed(a)
      BY <1>4, <1>5, <2>1 DEF CursorInv, ScanInv
    <3>2. QED BY <1>4, <1>5, <1>6, <3>1 DEF Listed
  <2>2. CASE a = b
    <3>1. tick'.scans[a] = Scan(a)
      BY <1>4, <1>5, <2>2
    <3>2. ASSUME NEW s \in Scan(a).sigs PROVE s = Sighting(s.tx) /\ s.slot # Nowhere
      <4>1. PICK t \in Feed(a) : s = Sighting(t)
        BY DEF Scan, Newest
      <4>2. s.tx = t /\ s.slot = landed[t] /\ landed[t] # Nowhere
        BY <4>1 DEF Sighting, Feed
      <4>3. QED BY <4>1, <4>2
    <3>3. ASSUME Scan(a).complete, NEW t \in Txs, a \in Names[t], Fixed(t), ~Behind(t, a)
          PROVE  Sighting(t) \in Scan(a).sigs
      <4>1. t \in Feed(a)
        BY <3>3, OutsideFeed DEF Fixed
      <4>2. t \in Newest(Feed(a))
        BY <3>3, <4>1, WholeFeed
      <4>3. QED BY <4>2 DEF Scan
    <3>4. a \in AddressesOf(tick'.watched)
      BY <1>4, <1>5, <2>2
    <3>5. QED BY <1>4, <1>6, <3>1, <3>2, <3>3, <3>4 DEF Listed
  <2>3. QED BY <2>1, <2>2
<1>8. ScanInv'
  BY <1>4, <1>5, <1>7 DEF CursorInv, ScanInv
<1>9. AppliedInv'
  BY <1>2, <1>4, <1>6 DEF CursorInv, AppliedInv, chainVars
<1>10. AnswersInv' /\ PayeesInv' /\ \A p : Booked(p)' = Booked(p)
  BY <1>2, <1>4, AnswersRest, RowsUntouched
<1>11. QED BY <1>2, <1>8, <1>9, <1>10, CursorMoves

\* A step at "fetch", or to it, that leaves the listings alone.
LEMMA FetchingRests ==
  ASSUME CursorInv, UNCHANGED <<chainVars, cursors>>,
         tick'.root = tick.root, tick'.scans = tick.scans, tick'.watched = tick.watched,
         tick.pc \in {"feeds", "fetch"}, tick'.pc = "fetch"
  PROVE  ScanInv'
<1>1. /\ \A t : Fixed(t)' = Fixed(t) /\ Sighting(t)' = Sighting(t)
      /\ \A t, a : Behind(t, a)' = Behind(t, a)
  BY PassedRests DEF Fixed, Sighting, chainVars
<1>2. ASSUME NEW a \in Addresses PROVE Listed(a)'
  <2>1. Listed(a)
    BY DEF CursorInv, ScanInv
  <2>2. QED BY <1>1, <2>1 DEF Listed
<1>3. QED BY <1>2 DEF ScanInv
-----------------------------------------------------------------------------
(***************************************************************************)
(* What is marked as applied.                                              *)
(***************************************************************************)
LEMMA SkipBookedApplies ==
  ASSUME SinglePayee, CursorInv, SafetyInv', SkipBooked
  PROVE  CursorInv'
<1>1. tick \in TickLocals
  BY TickFacts DEF CursorInv, SafetyInv
<1>2. UNCHANGED <<chainVars, cursors, payments>>
  BY DEF SkipBooked, ledgerVars
<1> DEFINE known == {s \in tick.sigs : Known(s.tx)}
<1>3. /\ tick'.root = tick.root /\ tick'.scans = tick.scans /\ tick'.watched = tick.watched
      /\ tick.pc = "feeds" /\ tick'.pc = "fetch" /\ tick'.applied = {s.tx : s \in known}
      /\ tick'.answers = tick.answers
  BY <1>1 DEF SkipBooked, At, TickLocals
<1>4. AppliedInv'
  <2>1. ASSUME NEW t \in tick'.applied, NEW i \in Attributed(t, Invoices) \cap tick.watched
        PROVE  Booked(<<i, t>>)
    <3>1. t \in Txs /\ Known(t)
      BY <1>1, <1>3 DEF TickLocals, Sightings
    <3>2. PICK j \in tick.watched : Booked(<<j, t>>)
      BY <3>1 DEF Known
    <3>3. <<j, t>> \in Payments /\ Recorded(<<j, t>>)
      BY <1>1, <3>1, <3>2 DEF TickLocals, Payments, Booked, Recorded
    <3>4. j \in Payees(t)
      BY <3>3 DEF CursorInv, PayeesInv
    <3>5. i = j
      BY <3>1, <3>4 DEF SinglePayee
    <3>6. QED BY <3>2, <3>5
  <2>2. QED BY <1>2, <1>3, <2>1 DEF AppliedInv, Booked
<1>5. ScanInv'
  BY <1>2, <1>3, FetchingRests
<1>6. AnswersInv' /\ PayeesInv' /\ \A p : Booked(p)' = Booked(p)
  BY <1>2, <1>3, AnswersRest, RowsUntouched
<1>7. QED BY <1>2, <1>4, <1>5, <1>6, CursorMoves

\* A body that failed in its slot is done with; at or below the root, for good.
LEMMA FetchBatchApplies ==
  ASSUME CursorInv, SafetyInv', FetchBatch
  PROVE  CursorInv'
<1>1. tick \in TickLocals
  BY TickFacts DEF CursorInv, SafetyInv
<1>2. UNCHANGED <<chainVars, cursors, payments>>
  BY DEF FetchBatch, ledgerVars
<1>3. /\ tick'.root = tick.root /\ tick'.scans = tick.scans /\ tick'.watched = tick.watched
      /\ tick.pc = "fetch" /\ tick'.pc = "fetch" /\ tick'.answers = tick.answers
  BY <1>1 DEF FetchBatch, At, TickLocals
<1>4. \A t \in tick'.applied : t \in tick.applied \/ failed[t]
  <2>1. PICK chunk \in SUBSET tick.sigs :
          \E lost \in SUBSET {s \in chunk : landed[s.tx] # Nowhere} :
            LET got == {s \in chunk \ lost : landed[s.tx] # Nowhere}
            IN  tick' = [tick EXCEPT !.sigs = @ \ chunk,
                     !.bodies = {[tx |-> s.tx, listed |-> s.slot, slot |-> landed[s.tx]] :
                                   s \in {g \in got : ~failed[g.tx]}},
                     !.applied = @ \cup {s.tx : s \in {g \in got : failed[g.tx]}}]
    BY DEF FetchBatch
  <2>2. PICK lost \in SUBSET {s \in chunk : landed[s.tx] # Nowhere} :
            LET got == {s \in chunk \ lost : landed[s.tx] # Nowhere}
            IN  tick' = [tick EXCEPT !.sigs = @ \ chunk,
                     !.bodies = {[tx |-> s.tx, listed |-> s.slot, slot |-> landed[s.tx]] :
                                   s \in {g \in got : ~failed[g.tx]}},
                     !.applied = @ \cup {s.tx : s \in {g \in got : failed[g.tx]}}]
    BY <2>1
  <2> DEFINE got == {s \in chunk \ lost : landed[s.tx] # Nowhere}
             bodies == {[tx |-> s.tx, listed |-> s.slot, slot |-> landed[s.tx]] :
                          s \in {g \in got : ~failed[g.tx]}}
             done == {s.tx : s \in {g \in got : failed[g.tx]}}
  <2>3. tick' = [tick EXCEPT !.sigs = @ \ chunk, !.bodies = bodies, !.applied = @ \cup done]
    BY <2>2
  <2>4. \A t \in done : failed[t]
    OBVIOUS
  <2> HIDE DEF bodies, done
  <2>5. tick'.applied = tick.applied \cup done
    BY <1>1, <2>3 DEF TickLocals
  <2>6. QED BY <2>4, <2>5
<1>5. AppliedInv'
  <2>1. \A t : Fixed(t)' = Fixed(t)
    BY <1>2, <1>3 DEF Fixed, chainVars
  <2>2. QED BY <1>2, <1>3, <1>4, <2>1 DEF CursorInv, AppliedInv, Booked, chainVars
<1>6. ScanInv'
  BY <1>2, <1>3, FetchingRests
<1>7. AnswersInv' /\ PayeesInv' /\ \A p : Booked(p)' = Booked(p)
  BY <1>2, <1>3, AnswersRest, RowsUntouched
<1>8. QED BY <1>2, <1>5, <1>6, <1>7, CursorMoves

\* Fewer invoices watched, fewer disputes: what goes to i beyond dispute goes
\* to i whoever else is watched.
LEMMA AttributedAnyway ==
  ASSUME SinglePayee, NEW t \in Txs, NEW watched \in SUBSET Invoices,
         NEW i \in Attributed(t, Invoices), i \in watched
  PROVE  i \in Attributed(t, watched)
<1>1. i \in Invoices /\ Payees(t) \subseteq {i}
  BY AttributedType DEF SinglePayee
<1>2. CASE i \in Direct[t]
  BY <1>2 DEF Attributed
<1>3. CASE i \notin Direct[t]
  <2>1. Direct[t] = {}
    BY <1>1, <1>3 DEF Payees
  <2>2. PICK g \in Claims[t] : i \in g
    BY <1>3 DEF Attributed
  <2>3. (g \cap watched) \ (Direct[t] \cap watched) = {i}
    BY <1>1, <2>1, <2>2 DEF Payees
  <2>4. Cardinality({i}) = 1
    BY FS_Singleton
  <2>5. {i} \in {c \in {(h \cap watched) \ (Direct[t] \cap watched) : h \in Claims[t]} :
                    Cardinality(c) = 1}
    BY <2>3, <2>4
  <2>6. QED BY <2>5 DEF Attributed
<1>4. QED BY <1>2, <1>3

LEMMA ApplyTransactionApplies ==
  ASSUME SinglePayee, CursorInv, SafetyInv', ApplyTransaction
  PROVE  CursorInv'
<1>1. tick \in TickLocals /\ LedgerTypeOK
  BY TickFacts DEF CursorInv, SafetyInv
<1>2. UNCHANGED <<chainVars, cursors>>
  BY DEF ApplyTransaction
<1>3. PICK b \in tick.bodies :
        /\ RecordCredits(b.tx, Attributed(b.tx, tick.watched), b.slot)
        /\ tick' = [tick EXCEPT !.bodies = @ \ {b}, !.applied = @ \cup {b.tx},
                      !.todo = @ \cup Attributed(b.tx, tick.watched)]
  BY DEF ApplyTransaction
<1>4. /\ tick'.root = tick.root /\ tick'.scans = tick.scans /\ tick'.watched = tick.watched
      /\ tick.pc = "fetch" /\ tick'.pc = "fetch" /\ tick'.answers = tick.answers
      /\ tick'.applied = tick.applied \cup {b.tx}
  BY <1>1, <1>3 DEF ApplyTransaction, At, TickLocals
<1>5. b.tx \in Txs /\ tick.watched \in SUBSET Invoices /\ tick.applied \subseteq Txs
  BY <1>1 DEF TickLocals, Bodies
<1>6. \A p \in Payments :
        /\ \/ payments'[p] = payments[p]
           \/ p[2] = b.tx /\ p[1] \in Attributed(b.tx, tick.watched)
        /\ p[2] = b.tx /\ p[1] \in Attributed(b.tx, tick.watched) => Booked(p)'
        /\ Booked(p) => Booked(p)'
  BY <1>3 DEF RecordCredits, Booked
<1>7. AppliedInv'
  <2>1. ASSUME NEW t \in tick'.applied, NEW i \in Attributed(t, Invoices) \cap tick.watched,
               Fixed(t)', ~failed'[t]
        PROVE  Booked(<<i, t>>)'
    <3>1. t \in Txs /\ <<i, t>> \in Payments
      BY <1>4, <1>5 DEF Payments
    <3>2. CASE t = b.tx
      BY <1>5, <1>6, <3>1, <3>2, AttributedAnyway
    <3>3. CASE t \in tick.applied
      <4>1. Fixed(t) /\ ~failed[t]
        BY <1>2, <1>4, <2>1 DEF Fixed, chainVars
      <4>2. QED BY <1>6, <3>1, <3>3, <4>1 DEF CursorInv, AppliedInv
    <3>4. QED BY <1>4, <3>2, <3>3
  <2>2. QED BY <1>4, <2>1 DEF AppliedInv
<1>8. PayeesInv'
  <2>1. Attributed(b.tx, tick.watched) \subseteq Payees(b.tx)
    BY DEF Attributed, Payees
  <2>2. QED BY <1>6, <2>1 DEF CursorInv, PayeesInv, Recorded
<1>9. ScanInv' /\ AnswersInv'
  BY <1>2, <1>4, FetchingRests, AnswersRest
<1>10. QED BY <1>2, <1>6, <1>7, <1>8, <1>9, CursorMoves
-----------------------------------------------------------------------------
(***************************************************************************)
(* The cursor moves: what it passes was passed before, or was listed and   *)
(* is applied.                                                             *)
(***************************************************************************)
LEMMA SaveCursorSafe ==
  ASSUME OwnAddresses, CursorInv, SafetyInv', SaveCursor
  PROVE  CursorInv'
<1>1. /\ tick \in TickLocals /\ tick.root \in Nat /\ root \in Nat /\ tick.root <= root
      /\ \A t \in Txs : landed[t] \in Nat /\ Rank[t] \in Nat
      /\ cursors \in CursorRows /\ Nowhere = 0
  <2>1. tick \in TickLocals /\ cursors \in CursorRows
    BY TickFacts DEF CursorInv, SafetyInv
  <2>2. root \in Nat /\ tick.root <= root /\ \A t \in Txs : landed[t] \in Nat
    BY ClusterTypes DEF CursorInv, SafetyInv, TickInv
  <2>3. QED BY <2>1, <2>2, SlotFacts, SolWatcherAssumption DEF TickLocals
<1>2. PICK b \in tick.feeds :
       /\ \E s \in Passable(b) :
            cursors' = IF cursors[b].slot <= s.slot
                       THEN [cursors EXCEPT ![b] = [tx |-> s.tx, slot |-> s.slot]]
                       ELSE cursors
       /\ tick' = [tick EXCEPT !.feeds = @ \ {b}]
  BY DEF SaveCursor
<1>3. PICK s \in Passable(b) :
        cursors' = IF cursors[b].slot <= s.slot
                   THEN [cursors EXCEPT ![b] = [tx |-> s.tx, slot |-> s.slot]]
                   ELSE cursors
  BY <1>2
<1>4. /\ tick'.root = tick.root /\ tick'.scans = tick.scans /\ tick'.applied = tick.applied
      /\ tick'.watched = tick.watched /\ tick'.answers = tick.answers
      /\ tick'.feeds = tick.feeds \ {b} /\ tick.pc = "park" /\ tick'.pc = "park"
  BY <1>1, <1>2 DEF SaveCursor, At, TickLocals
<1>5. UNCHANGED <<chainVars, payments>>
  BY DEF SaveCursor, ledgerVars
<1>6. /\ b \in Addresses /\ tick.scans[b].complete /\ Listed(b)
      /\ tick.scans[b].sigs \subseteq Sightings /\ s \in tick.scans[b].sigs
  BY <1>1, <1>4 DEF CursorInv, ScanInv, TickLocals, Passable
<1>7. b \in AddressesOf(tick.watched)
  <2>1. tick.scans[b] # NoScan
    BY <1>6 DEF NoScan
  <2>2. QED BY <1>6, <2>1 DEF Listed
<1>8. /\ s.tx \in Txs /\ s.slot \in Nat /\ s.slot <= tick.root /\ s.slot # Nowhere
      /\ landed[s.tx] = s.slot /\ s = Sighting(s.tx)
  <2>1. Satisfied(s)
    BY <1>6 DEF Passable
  <2>2. s.tx \in Txs /\ s.slot \in Nat /\ s.slot <= tick.root
    BY <1>6, <2>1, SlotFacts DEF Sightings, Satisfied
  <2>3. s = Sighting(s.tx) /\ s.slot # Nowhere
    BY <1>6, <2>2 DEF Listed
  <2>4. Sighting(s.tx).slot = landed[s.tx]
    BY DEF Sighting
  <2>5. QED BY <2>2, <2>3, <2>4
<1>9. ASSUME NEW a \in Addresses
      PROVE  \/ cursors'[a] = cursors[a]
             \/ a = b /\ cursors'[a].tx = s.tx /\ cursors'[a].slot = s.slot
  BY <1>1, <1>3, <1>6 DEF CursorRows
<1>10. ASSUME NEW t \in Txs, NEW i \in Attributed(t, Invoices), b \in WatchAddresses[i],
              b \in Names[t], Succeeded(t),
              \/ t = s.tx
              \/ landed[t] < s.slot
              \/ landed[t] = s.slot /\ Rank[t] < Rank[s.tx]
       PROVE  Booked(<<i, t>>)
  <2>1. landed[t] # Nowhere /\ ~failed[t]
    BY <1>10 DEF Succeeded
  <2>2. landed[t] \in Nat /\ landed[t] <= s.slot
    BY <1>1, <1>8, <1>10
  <2>3. Fixed(t)
    BY <1>1, <1>8, <2>1, <2>2 DEF Fixed
  <2>4. CASE Behind(t, b)
    BY <1>10, <2>4 DEF CursorInv, CursorSafe
  <2>5. CASE Sighting(t) \in tick.scans[b].sigs
    <3> DEFINE r == Sighting(t)
    <3>1. r.tx = t /\ r.slot = landed[t] /\ r.failed = failed[t]
      BY DEF Sighting
    <3>2. Satisfied(r) \/ (r # s /\ Earlier(s, r))
      BY <1>6, <2>5 DEF Passable
    <3> HIDE DEF r
    <3>3. ~(r # s /\ Earlier(s, r))
      <4>1. t = s.tx => r = s
        BY <1>8 DEF r
      <4>2. Rank[t] \in Nat /\ Rank[s.tx] \in Nat
        BY <1>1, <1>8
      <4>3. QED BY <1>8, <1>10, <2>2, <3>1, <4>1, <4>2 DEF Earlier
    <3>4. t \in tick.applied
      BY <2>1, <3>1, <3>2, <3>3 DEF Satisfied
    <3>5. i \in tick.watched
      <4>1. PICK j \in tick.watched : b \in WatchAddresses[j]
        BY <1>7 DEF AddressesOf
      <4>2. i \in Invoices /\ j \in Invoices
        BY <1>1, AttributedType DEF TickLocals
      <4>3. i = j
        BY <1>10, <4>1, <4>2 DEF OwnAddresses
      <4>4. QED BY <4>1, <4>3
    <3>6. QED BY <2>1, <2>3, <3>4, <3>5 DEF CursorInv, AppliedInv
  <2>6. Behind(t, b) \/ Sighting(t) \in tick.scans[b].sigs
    BY <1>4, <1>6, <1>10, <2>3 DEF Listed
  <2>7. QED BY <2>4, <2>5, <2>6
<1>11. CursorsInv'
  <2>1. ASSUME NEW a \in Addresses
        PROVE  /\ cursors'[a].slot <= root
               /\ cursors'[a].tx = NoTx => cursors'[a].slot = Nowhere
               /\ cursors'[a].tx # NoTx => /\ landed[cursors'[a].tx] = cursors'[a].slot
                                          /\ cursors'[a].slot # Nowhere
    <3>1. CASE cursors'[a] = cursors[a]
      BY <3>1 DEF CursorInv, CursorsInv
    <3>2. CASE cursors'[a].tx = s.tx /\ cursors'[a].slot = s.slot
      <4>1. s.slot <= root /\ s.tx # NoTx
        BY <1>1, <1>8, SolWatcherAssumption
      <4>2. QED BY <1>8, <3>2, <4>1
    <3>3. QED BY <1>9, <3>1, <3>2
  <2>2. QED BY <1>5, <2>1 DEF CursorsInv, chainVars
<1>12. CursorSafe'
  <2>1. ASSUME NEW t \in Txs, NEW i \in Attributed(t, Invoices),
               NEW a \in WatchAddresses[i] \cap Names[t], Succeeded(t)', Behind(t, a)'
        PROVE  Booked(<<i, t>>)'
    <3>1. a \in Addresses
      BY AttributedType, SolWatcherAssumption
    <3>2. Succeeded(t) /\ (Booked(<<i, t>>)' <=> Booked(<<i, t>>))
      BY <1>5, <2>1 DEF Succeeded, Booked, chainVars
    <3>3. CASE cursors'[a] = cursors[a]
      <4>1. Behind(t, a)
        BY <1>5, <2>1, <3>3 DEF Behind, chainVars
      <4>2. QED BY <3>2, <4>1 DEF CursorInv, CursorSafe
    <3>4. CASE a = b /\ cursors'[a].tx = s.tx /\ cursors'[a].slot = s.slot
      <4>1. \/ t = s.tx
            \/ landed[t] < s.slot
            \/ landed[t] = s.slot /\ Rank[t] < Rank[s.tx]
        BY <1>5, <2>1, <3>4 DEF Behind, chainVars
      <4>2. QED BY <1>10, <2>1, <3>2, <3>4, <4>1
    <3>5. QED BY <1>9, <3>1, <3>3, <3>4
  <2>2. QED BY <2>1 DEF CursorSafe
<1>13. ScanInv'
  <2>1. \A t : Fixed(t)' = Fixed(t) /\ Sighting(t)' = Sighting(t)
    BY <1>4, <1>5 DEF Fixed, Sighting, chainVars
  <2>2. ASSUME NEW a \in Addresses PROVE Listed(a)'
    <3>1. Listed(a)
      BY DEF CursorInv, ScanInv
    <3>2. ASSUME a \in tick'.feeds, NEW t PROVE a \in tick.feeds /\ Behind(t, a)' = Behind(t, a)
      <4>1. a \in tick.feeds /\ a # b
        BY <1>4, <3>2
      <4>2. cursors'[a] = cursors[a]
        BY <1>9, <4>1
      <4>3. QED BY <1>5, <4>1, <4>2 DEF Behind, chainVars
    <3>3. QED BY <1>4, <2>1, <3>1, <3>2 DEF Listed
  <2>3. QED BY <1>4, <2>2 DEF CursorInv, ScanInv
<1>14. AppliedInv'
  <2>1. \A t : Fixed(t)' = Fixed(t)
    BY <1>4, <1>5 DEF Fixed, chainVars
  <2>2. QED BY <1>4, <1>5, <2>1 DEF CursorInv, AppliedInv, Booked, chainVars
<1>15. PayeesInv'
  BY <1>5, RowsUntouched
<1>16. AnswersInv'
  BY <1>4 DEF CursorInv, AnswersInv
<1>17. QED BY <1>11, <1>12, <1>13, <1>14, <1>15, <1>16 DEF CursorInv

\* A cursor that is deleted has passed nothing.
LEMMA PruneCursorsSafe ==
  ASSUME CursorInv, SafetyInv', PruneCursors
  PROVE  CursorInv'
<1>1. UNCHANGED <<chainVars, payments>> /\ tick' = Idle
  BY DEF PruneCursors, ledgerVars
<1>2. ASSUME NEW a \in Addresses PROVE cursors'[a] \in {cursors[a], NoCursor}
  BY DEF PruneCursors
<1>3. /\ tick'.scans = [a \in Addresses |-> NoScan] /\ tick'.applied = {}
      /\ tick'.pc = "idle" /\ tick'.answers = {}
  BY <1>1 DEF Idle
<1>4. ScanInv' /\ AppliedInv' /\ AnswersInv' /\ PayeesInv'
  BY <1>1, <1>3, NothingLeft, RowsUntouched DEF AnswersInv
<1>5. NoCursor.tx = NoTx /\ NoCursor.slot = Nowhere /\ Nowhere = 0
  BY DEF NoCursor, Nowhere
<1>6. CursorsInv'
  <2>1. root \in Nat
    BY ClusterTypes DEF CursorInv, SafetyInv
  <2>2. QED BY <1>1, <1>2, <1>5, <2>1 DEF CursorInv, CursorsInv, chainVars
<1>7. CursorSafe'
  <2>1. ASSUME NEW t \in Txs, NEW i \in Attributed(t, Invoices),
               NEW a \in WatchAddresses[i] \cap Names[t], Succeeded(t)', Behind(t, a)'
        PROVE  Booked(<<i, t>>)'
    <3>1. a \in Addresses /\ landed[t] \in Nat /\ t # NoTx
      BY AttributedType, SolWatcherAssumption, ClusterTypes DEF CursorInv, SafetyInv
    <3>2. Succeeded(t) /\ (Booked(<<i, t>>)' <=> Booked(<<i, t>>))
      BY <1>1, <2>1 DEF Succeeded, Booked, chainVars
    <3>3. cursors'[a] = cursors[a]
      BY <1>1, <1>2, <1>5, <2>1, <3>1, <3>2 DEF Behind, Succeeded, chainVars
    <3>4. Behind(t, a)
      BY <1>1, <2>1, <3>3 DEF Behind, chainVars
    <3>5. QED BY <3>2, <3>4 DEF CursorInv, CursorSafe
  <2>2. QED BY <2>1 DEF CursorSafe
<1>8. QED BY <1>4, <1>6, <1>7 DEF CursorInv
-----------------------------------------------------------------------------
(***************************************************************************)
(* The answers of the cluster, and what the tick does on them.             *)
(***************************************************************************)

\* A payment that is given up is in no slot, or failed in it: nothing a cursor
\* could have passed.
LEMMA VerdictsUnpassed ==
  ASSUME NEW ps \in SUBSET Payments, NEW history \in BOOLEAN,
         NEW v \in Verdicts(ps, history), v.says \in {"dropped", "failed"}
  PROVE  ~Succeeded(v.pay[2])
<1>1. CASE v \in {[pay |-> p, says |-> "dropped"] : p \in {q \in ps : Dropped(q, history)}}
  BY <1>1 DEF Dropped, Succeeded
<1>2. CASE v \in {[pay |-> p, says |-> Says(p[2])] :
                    p \in {q \in ps : /\ landed[q[2]] # Nowhere
                                      /\ Says(q[2]) # "confirmed" \/ DueConfirm(q, "confirmed")}}
  <2>1. PICK p \in ps : v = [pay |-> p, says |-> Says(p[2])]
    BY <1>2
  <2>2. failed[p[2]]
    BY <2>1 DEF Says
  <2>3. QED BY <2>1, <2>2 DEF Succeeded
<1>3. QED BY <1>1, <1>2 DEF Verdicts

LEMMA AskSteps ==
  ASSUME CursorInv, SafetyInv', AskRecent \/ AskOld
  PROVE  CursorInv'
<1>1. tick \in TickLocals
  BY TickFacts DEF CursorInv, SafetyInv
<1>2. UNCHANGED <<chainVars, cursors, payments>>
  BY DEF AskRecent, AskOld, ledgerVars
<1>3. PICK ps \in SUBSET Payments, history \in BOOLEAN :
        tick' = [tick EXCEPT !.pc = "old", !.rows = tick'.rows, !.answers = Verdicts(ps, history)]
  <2>1. CASE AskRecent
    <3>1. tick' = [tick EXCEPT !.pc = "old", !.rows = tick'.rows,
                     !.answers = Verdicts({p \in tick.rows : Recent(p)}, FALSE)]
      BY <1>1, <2>1 DEF AskRecent, TickLocals
    <3>2. {p \in tick.rows : Recent(p)} \in SUBSET Payments
      BY <1>1 DEF TickLocals
    <3>3. QED BY <3>1, <3>2
  <2>2. CASE AskOld
    <3>1. tick' = [tick EXCEPT !.pc = "old", !.rows = tick'.rows,
                     !.answers = Verdicts(tick.rows, TRUE)]
      BY <1>1, <2>2 DEF AskOld, At, TickLocals
    <3>2. tick.rows \in SUBSET Payments
      BY <1>1 DEF TickLocals
    <3>3. QED BY <3>1, <3>2
  <2>3. QED BY <2>1, <2>2
<1>4. /\ tick'.pc = "old" /\ tick'.scans = tick.scans /\ tick'.applied = tick.applied
      /\ tick'.answers = Verdicts(ps, history)
  BY <1>1, <1>3 DEF TickLocals
<1>5. tick.pc \in {"recent", "old"}
  BY DEF AskRecent, AskOld, At
<1>6. ScanInv' /\ AppliedInv'
  BY <1>4, <1>5, NothingLeft DEF CursorInv, ScanInv, NothingScanned
<1>7. AnswersInv'
  <2>1. ASSUME NEW v \in tick'.answers, v.says \in {"dropped", "failed"}, NEW a \in Addresses
        PROVE  ~Passed(v.pay[2], a)'
    <3>1. ~Succeeded(v.pay[2])
      BY <1>4, <2>1, VerdictsUnpassed
    <3>2. QED BY <1>2, <3>1, PassedRests DEF Passed
  <2>2. QED BY <1>4, <2>1 DEF AnswersInv
<1>8. PayeesInv' /\ \A p : Booked(p)' = Booked(p)
  BY <1>2, RowsUntouched
<1>9. QED BY <1>2, <1>6, <1>7, <1>8, CursorMoves

LEMMA AnswerSteps ==
  ASSUME CursorInv, SafetyInv', Orphan \/ Confirm \/ FinalisePayment
  PROVE  CursorInv'
<1>1. tick \in TickLocals /\ TypeInv
  BY TickFacts DEF CursorInv, SafetyInv
<1>2. UNCHANGED <<chainVars, cursors>>
  BY DEF Orphan, Confirm, FinalisePayment
<1>3. /\ tick.pc = "old" /\ tick'.pc = "old" /\ tick'.scans = tick.scans
      /\ tick'.applied = tick.applied /\ tick'.answers \subseteq tick.answers
  <2>1. CASE Orphan
    BY <1>1, <2>1 DEF Orphan, At, TickLocals
  <2>2. CASE Confirm
    BY <1>1, <2>2 DEF Confirm, At, TickLocals
  <2>3. CASE FinalisePayment
    BY <1>1, <2>3 DEF FinalisePayment, At, TickLocals
  <2>4. QED BY <2>1, <2>2, <2>3
<1>4. PICK v \in tick.answers, status \in PaymentStatuses \ {"absent"} :
        /\ v.pay \in Payments
        /\ \A p \in Payments :
             payments'[p].status = IF p = v.pay THEN status ELSE payments[p].status
        /\ status = "orphaned" => v.says \in {"dropped", "failed"}
  BY <1>1, AnswerActs
<1>5. ScanInv' /\ AppliedInv'
  BY <1>3, NothingLeft DEF CursorInv, ScanInv, NothingScanned
<1>6. AnswersInv'
  BY <1>2, <1>3, AnswersRest
<1>7. PayeesInv'
  <2>1. Recorded(v.pay)
    BY DEF CursorInv, SafetyInv, TickInv
  <2>2. \A p \in Payments : Recorded(p)' => Recorded(p)
    BY <1>4, <2>1 DEF Recorded
  <2>3. QED BY <2>2 DEF CursorInv, PayeesInv
<1>8. ASSUME NEW p \in Payments, Booked(p), ~Booked(p)'
      PROVE  \A a \in Addresses : ~Passed(p[2], a)
  <2>1. p = v.pay /\ status = "orphaned"
    BY <1>4, <1>8 DEF Booked
  <2>2. QED BY <1>4, <2>1 DEF CursorInv, AnswersInv
<1>9. QED BY <1>2, <1>5, <1>6, <1>7, <1>8, CursorMoves
-----------------------------------------------------------------------------
LEMMA InitCursor == Init => CursorInv
<1> SUFFICES ASSUME Init PROVE CursorInv
  OBVIOUS
<1>1. SafetyInv /\ TypeInv
  BY InitSafe DEF SafetyInv
<1>2. /\ tick.pc = "idle" /\ tick.answers = {} /\ tick.applied = {}
      /\ tick.scans = [a \in Addresses |-> NoScan]
  BY DEF Init, Idle
<1>3. \A a \in Addresses : cursors[a].tx = NoTx /\ cursors[a].slot = Nowhere
  BY DEF Init, NoCursor
<1>4. root \in Nat /\ Nowhere = 0 /\ \A t \in Txs : landed[t] \in Nat
  BY <1>1, ClusterTypes, SlotFacts
<1>5. CursorsInv
  BY <1>3, <1>4 DEF CursorsInv
<1>6. PayeesInv
  BY DEF Init, LedgerInit, PayeesInv, Recorded
<1>7. ScanInv
  <2>1. ASSUME NEW a \in Addresses PROVE Listed(a)
    BY <1>2 DEF Listed, NoScan
  <2>2. QED BY <1>2, <2>1 DEF ScanInv, NothingScanned
<1>8. AppliedInv /\ AnswersInv
  BY <1>2 DEF AppliedInv, AnswersInv
<1>9. CursorSafe
  <2>1. ASSUME NEW t \in Txs, NEW a \in Addresses, Succeeded(t) PROVE ~Behind(t, a)
    BY <1>3, <1>4, <2>1, SolWatcherAssumption DEF Behind, Succeeded
  <2>2. \A t \in Txs : \A i \in Attributed(t, Invoices) : WatchAddresses[i] \subseteq Addresses
    BY SolWatcherAssumption, AttributedType
  <2>3. QED BY <2>1, <2>2 DEF CursorSafe
<1>10. QED BY <1>1, <1>5, <1>6, <1>7, <1>8, <1>9 DEF CursorInv

LEMMA NextCursor ==
  ASSUME OwnAddresses, SinglePayee, CursorInv, [Next]_vars
  PROVE  CursorInv'
<1>1. SafetyInv' /\ TypeInv
  BY NextSafe DEF CursorInv, SafetyInv
<1>2. CASE \/ ExpireInvoices \/ AnnounceExpired \/ LoadWatched \/ ReadRoot
           \/ SelectInFlight \/ AbortTick
  BY <1>1, <1>2, UnlistedSteps
<1>3. CASE ScanFails \/ FetchedAll \/ Recompute \/ Notify \/ PickFeeds
  BY <1>1, <1>3, ListedSteps
<1>4. CASE DiscoverSignatures \/ SkipBooked \/ FetchBatch \/ ApplyTransaction
  BY <1>1, <1>4, DiscoverSignaturesListed, SkipBookedApplies, FetchBatchApplies,
     ApplyTransactionApplies
<1>5. CASE SaveCursor \/ PruneCursors
  BY <1>1, <1>5, SaveCursorSafe, PruneCursorsSafe
<1>6. CASE AskRecent \/ AskOld
  BY <1>1, <1>6, AskSteps
<1>7. CASE Orphan \/ Confirm \/ FinalisePayment
  BY <1>1, <1>7, AnswerSteps
<1>8. CASE \/ GrowChain \/ RootSlot \/ ForkChain \/ CreateInvoice \/ ExpireInvoice
           \/ UNCHANGED vars
  <2>1. UNCHANGED <<payments, cursors, tick>>
    BY <1>8 DEF GrowChain, RootSlot, ForkChain, CreateInvoice, RegisterInvoice, ExpireInvoice,
               PassExpiry, vars, ledgerVars
  <2>2. GrowChain \/ RootSlot \/ ForkChain \/ UNCHANGED chainVars
    BY <1>8 DEF CreateInvoice, ExpireInvoice, vars
  <2>3. Frozen
    BY <1>1, <2>2, ClusterFreezes
  <2>4. QED BY <1>1, <2>1, <2>3, FrozenKeeps
<1>9. QED BY <1>2, <1>3, <1>4, <1>5, <1>6, <1>7, <1>8 DEF Next, TickStep

\* A cursor never passes money: forks, holes, cut listings, failed calls and
\* aborted ticks included, a transaction that pays one invoice beyond dispute is
\* on record and counted before the cursor of any address it names is at it or
\* beyond it.
THEOREM CursorCorrect ==
  ASSUME OwnAddresses, SinglePayee
  PROVE  Spec => []CursorSafe
<1>1. CursorInv /\ [Next]_vars => CursorInv'
  BY NextCursor
<1>2. CursorInv => CursorSafe
  BY DEF CursorInv
<1>3. QED BY <1>1, <1>2, InitCursor, PTL DEF Spec
=============================================================================
