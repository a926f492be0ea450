------------------------------ MODULE CoinsCache ------------------------------
(***************************************************************************)
(* The stack of coin views of the validation code: the coin database        *)
(* (CCoinsViewDB), the cache pcoinsTip over it, and the short-lived cache   *)
(* "view" that ConnectTip and DisconnectTip put over pcoinsTip.  Both       *)
(* caches are CCoinsViewCache objects, whose entries carry the flags DIRTY  *)
(* (may differ from the view below) and FRESH (the view below has no        *)
(* unspent coin).  The point of interest is that erasing FRESH entries and  *)
(* skipping clean ones never changes what the stack says an outpoint holds. *)
(*                                                                          *)
(* The cached memory-usage counters and the unspendable-script early return *)
(* of AddCoin are left out: they do not affect which coin is returned.      *)
(***************************************************************************)
CONSTANTS OutPoint, Coin, Spent,
          BlockHash,   \* hashes a view can be at
          NullHash,    \* BlockHash().IsNull(): "not read from the base yet"
          NoEntry      \* cacheCoins.find(outpoint) == cacheCoins.end()

VARIABLES db,        \* the coin database
          dbBest,    \* its DB_BEST_BLOCK record
          tip,       \* pcoinsTip->cacheCoins
          tipBest,   \* pcoinsTip->hashBlock
          view,      \* view.cacheCoins
          viewBest   \* view.hashBlock

vars == <<db, dbBest, tip, tipBest, view, viewBest>>

DIRTY == "DIRTY"
FRESH == "FRESH"

CCoinsCacheEntry == [coin: Coin \cup {Spent}, flags: SUBSET {DIRTY, FRESH}]

ASSUME CoinsAssumption == /\ Spent \notin Coin
                          /\ NullHash \notin BlockHash
                          /\ NoEntry \notin CCoinsCacheEntry

\* The combinations of coin and flags that entries have: a spent entry is kept
\* only to be communicated to the base, and FRESH only ever joins DIRTY.
CacheEntry == [coin: Coin, flags: {{}, {DIRTY}, {DIRTY, FRESH}}]
                \cup [coin: {Spent}, flags: {{DIRTY}}]

\* Type invariant, with the entry states of CacheEntry: no fetch, spend,
\* addition, merge or eviction leaves any other combination behind.
TypeOK == /\ db \in [OutPoint -> Coin \cup {Spent}]
          /\ dbBest \in BlockHash \cup {NullHash}
          /\ tip \in [OutPoint -> CacheEntry \cup {NoEntry}]
          /\ tipBest \in BlockHash \cup {NullHash}
          /\ view \in [OutPoint -> CacheEntry \cup {NoEntry}]
          /\ viewBest \in BlockHash \cup {NullHash}

EmptyCache == [o \in OutPoint |-> NoEntry]

-----------------------------------------------------------------------------
(* Reading: GetCoin, HaveCoin and AccessCoin all go through FetchCoin.      *)

\* The coin a cache answers with when its entry is e and its base answers c.
CoinOver(e, c) == IF e = NoEntry THEN c ELSE e.coin

TipCoin(o) == CoinOver(tip[o], db[o])

ViewCoin(o) == CoinOver(view[o], TipCoin(o))

\* The entry FetchCoin leaves in a cache that holds e for an outpoint whose
\* coin in the base is c.  GetCoin of every base returns false for a spent
\* coin, so nothing is cached for it.
Fetched(e, c) == IF e # NoEntry \/ c = Spent
                 THEN e
                 ELSE [coin |-> c, flags |-> {}]

\* Fetching through the view fills pcoinsTip as well when the view misses.
TipAfterViewFetch(o) ==
  IF view[o] # NoEntry THEN tip
  ELSE [tip EXCEPT ![o] = Fetched(@, db[o])]

ViewFetch(o) == Fetched(view[o], TipCoin(o))

\* A read of the view: the interpreter, CheckTxInputs, the BIP30 check.
View_GetCoin(o) ==
  /\ tip' = TipAfterViewFetch(o)
  /\ view' = [view EXCEPT ![o] = ViewFetch(o)]
  /\ UNCHANGED <<db, dbBest, tipBest, viewBest>>

\* A read of pcoinsTip itself: mempool acceptance, RPC.
Tip_GetCoin(o) ==
  /\ tip' = [tip EXCEPT ![o] = Fetched(@, db[o])]
  /\ UNCHANGED <<db, dbBest, tipBest, view, viewBest>>

\* GetBestBlock asks the base once and remembers the answer.
BestOfTip == IF tipBest = NullHash THEN dbBest ELSE tipBest

View_GetBestBlock ==
  /\ viewBest' = IF viewBest = NullHash THEN BestOfTip ELSE viewBest
  /\ tipBest' = IF viewBest = NullHash THEN BestOfTip ELSE tipBest
  /\ UNCHANGED <<db, dbBest, tip, view>>

-----------------------------------------------------------------------------
(* Modifying the view.                                                      *)

\* The flags of an entry; a missing one is emplaced without flags.
FlagsOf(e) == IF e = NoEntry THEN {} ELSE e.flags

\* Variant of Added: FRESH although the spent entry is DIRTY, that is, although
\* the base still has a coin.
Mut_AddedFreshOverDirty(e, c, possible_overwrite) ==
  [coin |-> c,
   flags |-> FlagsOf(e) \cup {DIRTY} \cup IF possible_overwrite THEN {} ELSE {FRESH}]

\* The entry AddCoin writes over e.  A missing entry is emplaced empty, that
\* is spent and without flags.
Added(e, c, possible_overwrite) ==
  LET fresh == ~possible_overwrite /\ DIRTY \notin FlagsOf(e)
  IN  [coin |-> c,
       flags |-> FlagsOf(e) \cup {DIRTY} \cup IF fresh THEN {FRESH} ELSE {}]

\* AddCoin.  Without possible_overwrite the caller guarantees that the outpoint
\* holds no coin it did not put in this view itself: ConnectBlock by the BIP30
\* check, ApplyBlockUndo by passing !fClean.
View_AddCoin(o, c, possible_overwrite) ==
  /\ ~possible_overwrite => ViewCoin(o) = Spent
  /\ view' = [view EXCEPT ![o] = Added(@, c, possible_overwrite)]
  /\ UNCHANGED <<db, dbBest, tip, tipBest, viewBest>>

\* AddCoin finds an unspent entry and throws std::logic_error (a duplicate
\* transaction in the block): ConnectBlock rejects the block and the view is
\* destroyed.
View_AddCoinThrows(o) ==
  /\ view[o] # NoEntry
  /\ view[o].coin # Spent
  /\ view' = EmptyCache
  /\ viewBest' = NullHash
  /\ UNCHANGED <<db, dbBest, tip, tipBest>>

\* The entry SpendCoin leaves of the fetched entry e.
AfterSpend(e) == IF e = NoEntry \/ FRESH \in FlagsOf(e)
                 THEN NoEntry
                 ELSE [coin |-> Spent, flags |-> e.flags \cup {DIRTY}]

View_SpendCoin(o) ==
  /\ tip' = TipAfterViewFetch(o)
  /\ view' = [view EXCEPT ![o] = AfterSpend(ViewFetch(o))]
  /\ UNCHANGED <<db, dbBest, tipBest, viewBest>>

View_SetBestBlock(h) ==
  /\ viewBest' = h
  /\ UNCHANGED <<db, dbBest, tip, tipBest, view>>

\* A rejected block: the view is destroyed without Flush.
View_Discard ==
  /\ view' = EmptyCache
  /\ viewBest' = NullHash
  /\ UNCHANGED <<db, dbBest, tip, tipBest>>

-----------------------------------------------------------------------------
(* Flush of the view into pcoinsTip: CCoinsViewCache::BatchWrite.           *)

\* Variant of Merged: the child's FRESH flag is copied to the parent.
Mut_MergedCopiesFresh(us, e) ==
  CASE DIRTY \notin FlagsOf(e) -> us
    [] us = NoEntry            -> e
    [] FRESH \in us.flags /\ e.coin = Spent -> NoEntry
    [] OTHER -> [coin |-> e.coin, flags |-> us.flags \cup e.flags]

\* The parent's entry after the child's entry e met the parent's entry us.
Merged(us, e) ==
  CASE DIRTY \notin FlagsOf(e) -> us
    [] us = NoEntry /\ DIRTY \in FlagsOf(e) ->
         IF FRESH \in e.flags /\ e.coin = Spent THEN NoEntry ELSE e
    [] us # NoEntry /\ DIRTY \in FlagsOf(e) ->
         IF FRESH \in us.flags /\ e.coin = Spent
         THEN NoEntry
         ELSE [coin |-> e.coin, flags |-> us.flags \cup {DIRTY}]

\* BatchWrite throws "FRESH flag misapplied" for this pair of entries.
FreshMisapplied(us, e) ==
  /\ us # NoEntry
  /\ {DIRTY, FRESH} \subseteq FlagsOf(e)
  /\ us.coin # Spent

View_Flush ==
  /\ viewBest # NullHash
  /\ \A o \in OutPoint : ~FreshMisapplied(tip[o], view[o])
  /\ tip' = [o \in OutPoint |-> Merged(tip[o], view[o])]
  /\ tipBest' = viewBest
  /\ view' = EmptyCache
  /\ UNCHANGED <<db, dbBest, viewBest>>

-----------------------------------------------------------------------------
(* pcoinsTip alone.                                                         *)

\* Variant of Tip_Uncache: the flags are not looked at.
Mut_UncacheDirty(o) ==
  /\ tip[o] # NoEntry
  /\ tip' = [tip EXCEPT ![o] = NoEntry]
  /\ UNCHANGED <<db, dbBest, tipBest, view, viewBest>>

Tip_Uncache(o) ==
  /\ tip[o] # NoEntry
  /\ tip[o].flags = {}
  /\ tip' = [tip EXCEPT ![o] = NoEntry]
  /\ UNCHANGED <<db, dbBest, tipBest, view, viewBest>>

\* Flush of pcoinsTip into the database, not interrupted (CoinsFlush models
\* its partial batches and crashes).  FlushStateToDisk asks for the best block
\* first and does nothing without one; CCoinsViewDB::BatchWrite then writes or
\* erases the dirty entries.
Tip_Flush ==
  /\ BestOfTip # NullHash
  /\ db' = [o \in OutPoint |-> IF DIRTY \in FlagsOf(tip[o])
                               THEN tip[o].coin ELSE db[o]]
  /\ dbBest' = BestOfTip
  /\ tipBest' = BestOfTip
  /\ tip' = EmptyCache
  /\ UNCHANGED <<view, viewBest>>

-----------------------------------------------------------------------------
\* A new database (no best block, no coin) or one of an earlier run.
Init == /\ db \in [OutPoint -> Coin \cup {Spent}]
        /\ dbBest \in BlockHash \cup {NullHash}
        /\ dbBest = NullHash => \A o \in OutPoint : db[o] = Spent
        /\ tip = EmptyCache /\ tipBest = NullHash
        /\ view = EmptyCache /\ viewBest = NullHash

Next == \/ \E o \in OutPoint :
             \/ View_GetCoin(o)
             \/ Tip_GetCoin(o)
             \/ \E c \in Coin, ow \in BOOLEAN : View_AddCoin(o, c, ow)
             \/ View_AddCoinThrows(o)
             \/ View_SpendCoin(o)
             \/ Tip_Uncache(o)
        \/ View_GetBestBlock
        \/ \E h \in BlockHash : View_SetBestBlock(h)
        \/ View_Discard
        \/ View_Flush
        \/ Tip_Flush

Spec == Init /\ [][Next]_vars

-----------------------------------------------------------------------------
(* Properties.                                                              *)

\* What the flags of an entry say about the coin c of the view below it: a
\* clean entry equals it (so Flush may skip the entry and Uncache may drop it)
\* and a FRESH one has nothing below it (so SpendCoin may erase the entry).
FlagsSound(e, c) ==
  e # NoEntry => /\ DIRTY \notin e.flags => e.coin = c
                 /\ FRESH \in e.flags => c = Spent

\* The DIRTY and FRESH flags of both caches tell the truth about the view
\* below, through every sequence of fetches, spends, additions, flushes and
\* evictions.
CacheCoherent ==
  \A o \in OutPoint : /\ FlagsSound(tip[o], db[o])
                      /\ FlagsSound(view[o], TipCoin(o))

\* BatchWrite never meets the pair of entries for which it throws "FRESH flag
\* misapplied to cache entry for base transaction with spendable outputs".
NeverMisapplied ==
  \A o \in OutPoint : ~FreshMisapplied(tip[o], view[o])

\* The coins pcoinsTip answers with, and those the view answers with.
Abs == INSTANCE CoinsView WITH
         committed <- [o \in OutPoint |-> TipCoin(o)],
         working   <- [o \in OutPoint |-> ViewCoin(o)]

\* The stack of caches implements two plain maps: a flush, an eviction or a
\* read changes nothing that a caller can see.
ImplementsCoinsView == Abs!AbsSpec
=============================================================================
