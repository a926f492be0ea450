-------------------------- MODULE CoinsCacheProofs --------------------------
(***************************************************************************)
(* Proofs about CoinsCache, for every set of outpoints, coins and hashes.   *)
(* The lemmas treat one outpoint: an entry of a cache and the coin of the   *)
(* view below it.  The theorems lift them to the whole stack.               *)
(***************************************************************************)
EXTENDS CoinsCache, TLAPS

MaybeCoin == Coin \cup {Spent}
MaybeEntry == CacheEntry \cup {NoEntry}

\* FetchCoin caches the coin of the base as a clean entry: the flags stay sound
\* and the answer of the cache does not change.
LEMMA FetchedSound ==
  ASSUME NEW e \in MaybeEntry, NEW c \in MaybeCoin, FlagsSound(e, c)
  PROVE  /\ Fetched(e, c) \in MaybeEntry
         /\ FlagsSound(Fetched(e, c), c)
         /\ CoinOver(Fetched(e, c), c) = CoinOver(e, c)
         /\ Fetched(e, c) = NoEntry => c = Spent
  BY CoinsAssumption
     DEF MaybeEntry, MaybeCoin, CacheEntry, CCoinsCacheEntry, DIRTY, FRESH, FlagsOf,
         FlagsSound, Fetched,
         CoinOver

\* AddCoin writes a dirty entry that is FRESH only when the base has no coin,
\* given that the caller passes possible_overwrite whenever there is a coin.
LEMMA AddedSound ==
  ASSUME NEW e \in MaybeEntry, NEW c \in MaybeCoin, FlagsSound(e, c),
         NEW d \in Coin, NEW ow \in BOOLEAN,
         ~ow => CoinOver(e, c) = Spent
  PROVE  /\ Added(e, d, ow) \in MaybeEntry
         /\ FlagsSound(Added(e, d, ow), c)
         /\ CoinOver(Added(e, d, ow), c) = d
  BY CoinsAssumption
     DEF MaybeEntry, MaybeCoin, CacheEntry, CCoinsCacheEntry, DIRTY, FRESH, FlagsOf,
         FlagsSound, Added,
         CoinOver

\* SpendCoin may erase a FRESH entry: the base has no coin to shine through.
LEMMA AfterSpendSound ==
  ASSUME NEW e \in MaybeEntry, NEW c \in MaybeCoin, FlagsSound(e, c),
         e = NoEntry => c = Spent
  PROVE  /\ AfterSpend(e) \in MaybeEntry
         /\ FlagsSound(AfterSpend(e), c)
         /\ CoinOver(AfterSpend(e), c) = Spent
  BY CoinsAssumption
     DEF MaybeEntry, MaybeCoin, CacheEntry, CCoinsCacheEntry, DIRTY, FRESH, FlagsOf,
         FlagsSound, AfterSpend,
         CoinOver

\* BatchWrite of a child entry over a parent entry: the parent's flags are sound
\* for the grandparent, and the parent answers what the child answered.
LEMMA MergedSound ==
  ASSUME NEW us \in MaybeEntry, NEW e \in MaybeEntry, NEW c \in MaybeCoin,
         FlagsSound(us, c), FlagsSound(e, CoinOver(us, c))
  PROVE  /\ Merged(us, e) \in MaybeEntry
         /\ FlagsSound(Merged(us, e), c)
         /\ CoinOver(Merged(us, e), c) = CoinOver(e, CoinOver(us, c))
  BY CoinsAssumption
     DEF MaybeEntry, MaybeCoin, CacheEntry, CCoinsCacheEntry, DIRTY, FRESH, FlagsOf,
         FlagsSound, Merged,
         CoinOver

-----------------------------------------------------------------------------
(* The inductive invariant: types and coherence of both caches.             *)

Inv == TypeOK /\ CacheCoherent

LEMMA Types ==
  ASSUME TypeOK, NEW o \in OutPoint
  PROVE  /\ db[o] \in MaybeCoin
         /\ tip[o] \in MaybeEntry
         /\ view[o] \in MaybeEntry
         /\ TipCoin(o) \in MaybeCoin
         /\ ViewCoin(o) \in MaybeCoin
  BY CoinsAssumption
     DEF TypeOK, MaybeCoin, MaybeEntry, TipCoin, ViewCoin, CoinOver, CacheEntry

\* A read through the view leaves both caches coherent and both answers as they
\* were, whether or not it fills pcoinsTip.
LEMMA ViewFetchSound ==
  ASSUME Inv, NEW o \in OutPoint
  PROVE  /\ TipAfterViewFetch(o) \in [OutPoint -> MaybeEntry]
         /\ \A p \in OutPoint : /\ FlagsSound(TipAfterViewFetch(o)[p], db[p])
                                /\ CoinOver(TipAfterViewFetch(o)[p], db[p]) = TipCoin(p)
         /\ ViewFetch(o) \in MaybeEntry
         /\ FlagsSound(ViewFetch(o), TipCoin(o))
         /\ CoinOver(ViewFetch(o), TipCoin(o)) = ViewCoin(o)
         /\ ViewFetch(o) = NoEntry => TipCoin(o) = Spent
  <1>1. /\ db[o] \in MaybeCoin /\ tip[o] \in MaybeEntry /\ view[o] \in MaybeEntry
        /\ TipCoin(o) \in MaybeCoin
    BY Types DEF Inv
  <1>2. FlagsSound(tip[o], db[o]) /\ FlagsSound(view[o], TipCoin(o))
    BY DEF Inv, CacheCoherent
  <1>3. /\ Fetched(tip[o], db[o]) \in MaybeEntry
        /\ FlagsSound(Fetched(tip[o], db[o]), db[o])
        /\ CoinOver(Fetched(tip[o], db[o]), db[o]) = TipCoin(o)
    BY <1>1, <1>2, FetchedSound DEF TipCoin
  <1>4. /\ ViewFetch(o) \in MaybeEntry
        /\ FlagsSound(ViewFetch(o), TipCoin(o))
        /\ CoinOver(ViewFetch(o), TipCoin(o)) = ViewCoin(o)
        /\ ViewFetch(o) = NoEntry => TipCoin(o) = Spent
    BY <1>1, <1>2, FetchedSound DEF ViewFetch, ViewCoin
  <1>6. tip \in [OutPoint -> MaybeEntry]
    BY DEF Inv, TypeOK, MaybeEntry
  <1>7. \A p \in OutPoint : /\ FlagsSound(tip[p], db[p])
                            /\ CoinOver(tip[p], db[p]) = TipCoin(p)
    BY DEF Inv, CacheCoherent, TipCoin
  <1>8. TipAfterViewFetch(o) \in [OutPoint -> MaybeEntry]
    BY <1>3, <1>6 DEF TipAfterViewFetch
  <1>9. \A p \in OutPoint : /\ FlagsSound(TipAfterViewFetch(o)[p], db[p])
                            /\ CoinOver(TipAfterViewFetch(o)[p], db[p]) = TipCoin(p)
    BY <1>3, <1>6, <1>7 DEF TipAfterViewFetch
  <1> QED BY <1>4, <1>8, <1>9

\* The step of the two plain maps that a step of the stack stands for.
AbsStep == Abs!AbsNext \/ UNCHANGED Abs!absVars

LEMMA InitInv == Init => Inv /\ Abs!AbsInit
  <1> SUFFICES ASSUME Init PROVE Inv /\ Abs!AbsInit
    OBVIOUS
  <1>1. TypeOK
    BY DEF Init, TypeOK, EmptyCache
  <1>2. CacheCoherent
    BY DEF Init, CacheCoherent, FlagsSound, EmptyCache
  <1>3. Abs!AbsInit
    BY DEF Init, EmptyCache, TipCoin, ViewCoin, CoinOver, Abs!AbsInit, Abs!Map
  <1> QED BY <1>1, <1>2, <1>3 DEF Inv

\* Every step preserves the invariant and implements a step of the maps.
LEMMA Step == Inv /\ [Next]_vars => Inv' /\ AbsStep
  <1> SUFFICES ASSUME Inv, [Next]_vars PROVE Inv' /\ AbsStep
    OBVIOUS
  <1>t. /\ db \in [OutPoint -> MaybeCoin]
        /\ tip \in [OutPoint -> MaybeEntry]
        /\ view \in [OutPoint -> MaybeEntry]
    BY DEF Inv, TypeOK, MaybeEntry, MaybeCoin
  <1>f. \A p \in OutPoint : FlagsSound(tip[p], db[p]) /\ FlagsSound(view[p], TipCoin(p))
    BY DEF Inv, CacheCoherent
  <1>1. ASSUME NEW o \in OutPoint, View_GetCoin(o) PROVE Inv' /\ AbsStep
    <2>1. TypeOK'
      BY <1>1, <1>t, ViewFetchSound DEF View_GetCoin, Inv, TypeOK, MaybeEntry
    <2>2. \A p \in OutPoint : TipCoin(p)' = TipCoin(p) /\ FlagsSound(tip[p], db[p])'
      BY <1>1, ViewFetchSound DEF View_GetCoin, TipCoin
    <2>3. \A p \in OutPoint : /\ ViewCoin(p)' = ViewCoin(p)
                              /\ FlagsSound(view'[p], TipCoin(p))
      BY <1>1, <1>t, <1>f, <2>2, ViewFetchSound DEF View_GetCoin, ViewCoin
    <2>4. CacheCoherent'
      BY <2>2, <2>3 DEF CacheCoherent
    <2> QED BY <2>1, <2>2, <2>3, <2>4 DEF Inv, AbsStep, Abs!absVars
  <1>2. ASSUME NEW o \in OutPoint, Tip_GetCoin(o) PROVE Inv' /\ AbsStep
    <2>1. /\ Fetched(tip[o], db[o]) \in MaybeEntry
          /\ FlagsSound(Fetched(tip[o], db[o]), db[o])
          /\ CoinOver(Fetched(tip[o], db[o]), db[o]) = TipCoin(o)
      BY <1>t, <1>f, FetchedSound DEF TipCoin
    <2>2. TypeOK'
      BY <1>2, <1>t, <2>1 DEF Tip_GetCoin, Inv, TypeOK, MaybeEntry
    <2>3. \A p \in OutPoint : /\ TipCoin(p)' = TipCoin(p)
                              /\ FlagsSound(tip[p], db[p])'
      BY <1>2, <1>t, <1>f, <2>1 DEF Tip_GetCoin, TipCoin
    <2>4. \A p \in OutPoint : /\ ViewCoin(p)' = ViewCoin(p)
                              /\ FlagsSound(view'[p], TipCoin(p))
      BY <1>2, <1>f, <2>3 DEF Tip_GetCoin, ViewCoin
    <2>5. CacheCoherent'
      BY <2>3, <2>4 DEF CacheCoherent
    <2> QED BY <2>2, <2>3, <2>4, <2>5 DEF Inv, AbsStep, Abs!absVars
  <1>3. ASSUME NEW o \in OutPoint, NEW c \in Coin, NEW ow \in BOOLEAN,
               View_AddCoin(o, c, ow)
        PROVE  Inv' /\ AbsStep
    <2>1. /\ Added(view[o], c, ow) \in MaybeEntry
          /\ FlagsSound(Added(view[o], c, ow), TipCoin(o))
          /\ CoinOver(Added(view[o], c, ow), TipCoin(o)) = c
      BY <1>3, <1>t, <1>f, Types, AddedSound DEF View_AddCoin, ViewCoin, Inv
    <2>2. TypeOK'
      BY <1>3, <1>t, <2>1 DEF View_AddCoin, Inv, TypeOK, MaybeEntry
    <2>3. \A p \in OutPoint : TipCoin(p)' = TipCoin(p)
      BY <1>3 DEF View_AddCoin, TipCoin
    <2>4. \A p \in OutPoint : /\ ViewCoin(p)' = IF p = o THEN c ELSE ViewCoin(p)
                              /\ FlagsSound(view'[p], TipCoin(p))
      BY <1>3, <1>t, <1>f, <2>1, <2>3 DEF View_AddCoin, ViewCoin
    <2>5. CacheCoherent'
      BY <1>3, <1>f, <2>3, <2>4 DEF CacheCoherent, View_AddCoin
    <2>6. Abs!Add(o, c)
      BY <2>3, <2>4, Zenon DEF Abs!Add
    <2> QED BY <2>2, <2>5, <2>6 DEF Inv, AbsStep, Abs!AbsNext
  <1>4. ASSUME View_Discard \/ \E o \in OutPoint : View_AddCoinThrows(o)
        PROVE  Inv' /\ AbsStep
    <2>1. /\ view' = EmptyCache /\ viewBest' = NullHash
          /\ UNCHANGED <<db, dbBest, tip, tipBest>>
      BY <1>4 DEF View_Discard, View_AddCoinThrows
    <2>2. TypeOK'
      BY <2>1 DEF Inv, TypeOK, EmptyCache
    <2>3. \A p \in OutPoint : TipCoin(p)' = TipCoin(p) /\ ViewCoin(p)' = TipCoin(p)
      BY <2>1 DEF TipCoin, ViewCoin, CoinOver, EmptyCache
    <2>4. CacheCoherent'
      BY <2>1, <1>f DEF CacheCoherent, FlagsSound, EmptyCache
    <2>5. Abs!Discard
      BY <2>3 DEF Abs!Discard
    <2> QED BY <2>2, <2>4, <2>5 DEF Inv, AbsStep, Abs!AbsNext
  <1>5. ASSUME NEW o \in OutPoint, View_SpendCoin(o) PROVE Inv' /\ AbsStep
    <2>1. /\ AfterSpend(ViewFetch(o)) \in MaybeEntry
          /\ FlagsSound(AfterSpend(ViewFetch(o)), TipCoin(o))
          /\ CoinOver(AfterSpend(ViewFetch(o)), TipCoin(o)) = Spent
      BY ViewFetchSound, Types, AfterSpendSound DEF Inv
    <2>2. TypeOK'
      BY <1>5, <1>t, <2>1, ViewFetchSound DEF View_SpendCoin, Inv, TypeOK, MaybeEntry
    <2>3. \A p \in OutPoint : TipCoin(p)' = TipCoin(p) /\ FlagsSound(tip[p], db[p])'
      BY <1>5, ViewFetchSound DEF View_SpendCoin, TipCoin
    <2>4. \A p \in OutPoint : /\ ViewCoin(p)' = IF p = o THEN Spent ELSE ViewCoin(p)
                              /\ FlagsSound(view'[p], TipCoin(p))
      BY <1>5, <1>t, <1>f, <2>1, <2>3 DEF View_SpendCoin, ViewCoin
    <2>5. CacheCoherent'
      BY <2>3, <2>4 DEF CacheCoherent
    <2>6. Abs!Spend(o)
      BY <2>3, <2>4, Zenon DEF Abs!Spend
    <2> QED BY <2>2, <2>5, <2>6 DEF Inv, AbsStep, Abs!AbsNext
  <1>6. ASSUME NEW o \in OutPoint, Tip_Uncache(o) PROVE Inv' /\ AbsStep
    <2>1. TypeOK'
      BY <1>6, <1>t DEF Tip_Uncache, Inv, TypeOK, MaybeEntry
    <2>2. \A p \in OutPoint : TipCoin(p)' = TipCoin(p) /\ FlagsSound(tip[p], db[p])'
      BY <1>6, <1>t, <1>f DEF Tip_Uncache, TipCoin, CoinOver, FlagsSound
    <2>3. \A p \in OutPoint : ViewCoin(p)' = ViewCoin(p)
      BY <1>6, <2>2 DEF Tip_Uncache, ViewCoin
    <2>4. CacheCoherent'
      BY <1>6, <1>f, <2>2 DEF Tip_Uncache, CacheCoherent
    <2> QED BY <2>1, <2>2, <2>3, <2>4 DEF Inv, AbsStep, Abs!absVars
  <1>7. ASSUME View_GetBestBlock \/ \E h \in BlockHash : View_SetBestBlock(h)
        PROVE  Inv' /\ AbsStep
    <2>1. UNCHANGED <<db, tip, view>>
      BY <1>7 DEF View_GetBestBlock, View_SetBestBlock
    <2>2. TypeOK'
      BY <1>7 DEF View_GetBestBlock, View_SetBestBlock, BestOfTip, Inv, TypeOK
    <2>3. CacheCoherent' /\ UNCHANGED Abs!absVars
      BY <2>1 DEF Inv, CacheCoherent, TipCoin, ViewCoin, Abs!absVars
    <2> QED BY <2>2, <2>3 DEF Inv, AbsStep
  <1>8. ASSUME View_Flush PROVE Inv' /\ AbsStep
    <2>1. \A p \in OutPoint : /\ Merged(tip[p], view[p]) \in MaybeEntry
                              /\ FlagsSound(Merged(tip[p], view[p]), db[p])
                              /\ CoinOver(Merged(tip[p], view[p]), db[p]) = ViewCoin(p)
      BY <1>t, <1>f, MergedSound DEF ViewCoin, TipCoin
    <2>2. TypeOK'
      BY <1>8, <2>1 DEF View_Flush, Inv, TypeOK, MaybeEntry, EmptyCache
    <2>3. \A p \in OutPoint : /\ TipCoin(p)' = ViewCoin(p)
                              /\ ViewCoin(p)' = ViewCoin(p)
      BY <1>8, <2>1 DEF View_Flush, TipCoin, ViewCoin, CoinOver, EmptyCache
    <2>4. CacheCoherent'
      BY <1>8, <2>1 DEF View_Flush, CacheCoherent, FlagsSound, EmptyCache
    <2>5. Abs!Commit
      BY <2>3 DEF Abs!Commit
    <2> QED BY <2>2, <2>4, <2>5 DEF Inv, AbsStep, Abs!AbsNext
  <1>9. ASSUME Tip_Flush PROVE Inv' /\ AbsStep
    <2>1. \A p \in OutPoint : db'[p] = TipCoin(p)
      BY <1>9, <1>t, <1>f DEF Tip_Flush, TipCoin, CoinOver, FlagsSound, FlagsOf
    <2>2. \A p \in OutPoint : TipCoin(p)' = TipCoin(p) /\ ViewCoin(p)' = ViewCoin(p)
      BY <1>9, <2>1 DEF Tip_Flush, TipCoin, ViewCoin, CoinOver, EmptyCache
    <2>3. db' \in [OutPoint -> MaybeCoin]
      BY <1>9, <2>1, Types DEF Inv, Tip_Flush
    <2>4. TypeOK'
      BY <1>9, <2>3 DEF Tip_Flush, BestOfTip, Inv, TypeOK, MaybeCoin, EmptyCache
    <2>5. CacheCoherent'
      BY <1>9, <1>f, <2>2 DEF Tip_Flush, CacheCoherent, FlagsSound, EmptyCache
    <2> QED BY <2>2, <2>4, <2>5 DEF Inv, AbsStep, Abs!absVars
  <1>10. ASSUME UNCHANGED vars PROVE Inv' /\ AbsStep
    BY <1>10 DEF vars, Inv, TypeOK, CacheCoherent, TipCoin, ViewCoin, AbsStep, Abs!absVars
  <1> QED
    BY <1>1, <1>2, <1>3, <1>4, <1>5, <1>6, <1>7, <1>8, <1>9, <1>10 DEF Next

-----------------------------------------------------------------------------
\* Entries only ever have the coin and flag combinations of CacheEntry, whatever
\* the order of fetches, spends, additions, flushes and evictions.
THEOREM TypeCorrect == Spec => []TypeOK
  <1>1. Inv => TypeOK
    BY DEF Inv
  <1> QED BY <1>1, InitInv, Step, PTL DEF Spec

\* DIRTY and FRESH always tell the truth about the view below.
THEOREM Coherent == Spec => []CacheCoherent
  <1>1. Inv => CacheCoherent
    BY DEF Inv
  <1> QED BY <1>1, InitInv, Step, PTL DEF Spec

\* The "FRESH flag misapplied" exception of BatchWrite is unreachable.
THEOREM FreshNeverMisapplied == Spec => []NeverMisapplied
  <1>1. Inv => NeverMisapplied
    BY DEF Inv, CacheCoherent, NeverMisapplied, FreshMisapplied, FlagsSound, FlagsOf,
           TipCoin, CoinOver
  <1> QED BY <1>1, InitInv, Step, PTL DEF Spec

\* The stack of caches and the database implement two plain maps of coins.
THEOREM CacheImplementsView == Spec => ImplementsCoinsView
  <1>1. Init => Abs!AbsInit
    BY InitInv
  <1>2. Inv /\ [Next]_vars => [Abs!AbsNext]_(Abs!absVars)
    BY Step DEF AbsStep
  <1> QED BY <1>1, <1>2, InitInv, Step, PTL DEF Spec, ImplementsCoinsView, Abs!AbsSpec
=============================================================================
