-------------------------- MODULE CoinsFlushProofs --------------------------
(***************************************************************************)
(* The unspent-output set survives crashes: proofs about CoinsFlush, for    *)
(* every block tree and every assignment of outputs to blocks.              *)
(***************************************************************************)
EXTENDS CoinsFlush, TLAPS

-----------------------------------------------------------------------------
(* The block tree.                                                           *)

\* What the library's theorems say of numbers and of finite sets of blocks: every
\* set of naturals has a least element, and sets of blocks can be counted.  It is
\* a hypothesis of the lemmas that need it, proved below (CountingHolds) as late
\* as possible: the provers are slow in every step that has the library in its
\* context.
Counting ==
  /\ \A T \in SUBSET Nat : T # {} => \E n \in T : \A m \in T : n <= m
  /\ \A S \in SUBSET Block : /\ Cardinality(S) \in Nat
                             /\ \A x \in S : Cardinality(S \ {x}) = Cardinality(S) - 1

\* A set of blocks closed under pprev that contains a block contains the whole
\* chain below it.
LEMMA ChainInClosed ==
  ASSUME NEW S \in SUBSET Block, ClosedUnderParent(S), NEW b \in S
  PROVE  Ancestors[b] \subseteq S
  BY DEF Ancestors

LEMMA AncestorsInBlock ==
  ASSUME NEW b \in Block
  PROVE  Ancestors[b] \subseteq Block
  BY DEF Ancestors

\* Every block is on its own chain.
LEMMA SelfAncestor ==
  ASSUME NEW b \in Block
  PROVE  b \in Ancestors[b]
  BY DEF Ancestors

\* The chain of a block contains the parent of each of its members.
LEMMA AncestorsClosed ==
  ASSUME NEW b \in Block
  PROVE  ClosedUnderParent(Ancestors[b])
  <1> SUFFICES ASSUME NEW a \in Ancestors[b], a # Genesis
               PROVE  Parent[a] \in Ancestors[b]
    BY DEF ClosedUnderParent
  <1>1. a \in Block
    BY DEF Ancestors
  <1>2. Parent[a] \in Block
    BY <1>1, BlockTreeAssumption
  <1>3. ASSUME NEW S \in SUBSET Block, b \in S, ClosedUnderParent(S)
        PROVE  Parent[a] \in S
    <2>1. a \in S
      BY <1>3 DEF Ancestors
    <2> QED BY <1>3, <2>1 DEF ClosedUnderParent
  <1> QED BY <1>2, <1>3 DEF Ancestors

\* Genesis is on no chain but as its root: its own chain is itself.
LEMMA GenesisAncestors == Ancestors[Genesis] = {Genesis}
  <1>1. Genesis \in Block /\ {Genesis} \in SUBSET Block
    BY BlockTreeAssumption
  <1>2. ClosedUnderParent({Genesis})
    BY DEF ClosedUnderParent
  <1>3. Ancestors[Genesis] \subseteq {Genesis}
    BY <1>1, <1>2, ChainInClosed
  <1> QED BY <1>1, <1>3, SelfAncestor

\* Between a block and a proper ancestor there is a next block to go to.
LEMMA NextTowardsExists ==
  ASSUME NEW b \in Block, NEW a \in Ancestors[b], a # b
  PROVE  /\ NextTowards(a, b) \in Ancestors[b]
         /\ NextTowards(a, b) \in Block \ {Genesis}
         /\ Parent[NextTowards(a, b)] = a
  <1>1. Ancestors[b] \cap Children(a) # {}
    <2> SUFFICES ASSUME Ancestors[b] \cap Children(a) = {} PROVE FALSE
      OBVIOUS
    <2> DEFINE S == Ancestors[b] \ {a}
    <2>1. S \in SUBSET Block
      BY AncestorsInBlock
    <2>2. ClosedUnderParent(S)
      <3> SUFFICES ASSUME NEW x \in S, x # Genesis PROVE Parent[x] \in S
        BY DEF ClosedUnderParent
      <3>1. Parent[x] \in Ancestors[b]
        BY AncestorsClosed DEF ClosedUnderParent
      <3>2. x \in Block
        BY AncestorsInBlock
      <3>3. Parent[x] # a
        BY <3>2 DEF Children
      <3> QED BY <3>1, <3>3
    <2>3. b \in S
      BY SelfAncestor
    <2> HIDE DEF S
    <2>4. Ancestors[b] \subseteq S
      BY <2>1, <2>2, <2>3, ChainInClosed
    <2> QED BY <2>4 DEF S
  <1>2. NextTowards(a, b) \in Ancestors[b] \cap Children(a)
    BY <1>1 DEF NextTowards
  <1> QED BY <1>2 DEF Children

\* Genesis is on the chain of every block: a set that is closed under parents
\* contains the parent of its lowest block.
LEMMA GenesisOnChain ==
  ASSUME Counting, NEW S \in SUBSET Block, ClosedUnderParent(S), S # {}
  PROVE  Genesis \in S
  <1> DEFINE H == {Height[b] : b \in S}
  <1>1. H \in SUBSET Nat /\ H # {}
    BY BlockTreeAssumption
  <1>2. PICK n \in H : \A m \in H : n <= m
    BY <1>1, ZenonT(30) DEF Counting
  <1>3. PICK b \in S : Height[b] = n
    OBVIOUS
  <1>4. \A c \in S : Height[b] <= Height[c]
    BY <1>2, <1>3
  <1>5. b # Genesis => Height[Parent[b]] + 1 = Height[b] /\ Parent[b] \in S
                       /\ Height[Parent[b]] \in Nat
    BY BlockTreeAssumption DEF ClosedUnderParent
  <1>6. b = Genesis
    BY <1>4, <1>5
  <1> QED BY <1>6

LEMMA GenesisInAncestors ==
  ASSUME Counting, NEW b \in Block
  PROVE  Genesis \in Ancestors[b]
  BY GenesisOnChain, BlockTreeAssumption DEF Ancestors

-----------------------------------------------------------------------------
\* m holds, for every output, its value after block a or after block b.
Between(m, a, b) == \A o \in OutPoint : m[o] \in {Utxo[a][o], Utxo[b][o]}

\* What an index (in memory or on disk) guarantees: a block is known with its
\* chain, a connected block lies on connected blocks, undo data are those of
\* the block's parent state.
IndexSound(idx) ==
  /\ idx[Genesis] # "none"
  /\ \A b \in Block \ {Genesis} :
       /\ idx[b] # "none" => idx[Parent[b]] # "none"
       /\ idx[b] = "undo" => /\ Parent[b] = Genesis \/ idx[Parent[b]] = "undo"
                             /\ undo[b] = UndoData(b, Utxo[Parent[b]])

\* The block was connected when the index was written: its coins can be undone.
Connected(idx, b) == b = Genesis \/ idx[b] = "undo"

\* The marks of a coin database refer to blocks that the disk index has as
\* connected.
MarksConnected(d) ==
  /\ d.best # Null => Connected(diskIndex, d.best)
  /\ d.new # Null => Connected(diskIndex, d.new) /\ d.best = Null
  /\ d.old # Null => Connected(diskIndex, d.old)

\* The two indexes, and the marks of the two coin databases.
StorageInv ==
  /\ IndexSound(index)
  /\ IndexSound(diskIndex)
  /\ \A b \in Block : /\ diskIndex[b] = "undo" => index[b] = "undo"
                      /\ diskIndex[b] # "none" => index[b] # "none"
  /\ MarksConnected(db) /\ MarksConnected(dbSafe)

\* What each control point of the node knows.
ControlInv ==
  /\ pc # "down" => Connected(index, best)
  /\ pc \notin {"run", "down"} => Connected(diskIndex, best)
  /\ pc \in {"down", "rollback", "rollforward", "replayFlush"} => index = diskIndex
  /\ pc \in {"rollback", "rollforward"} =>
       Connected(index, pos) /\ Between(coins, pos, best)
  /\ pc = "rollforward" => pos \in Ancestors[best]
  /\ pc = "run" => db.new = Null
  /\ pc \in {"flush", "replayFlush", "rollback", "rollforward"} /\ db.new # Null
       => db.new = best

\* The inductive invariant.
IInv == /\ TypeOK
        /\ StorageInv
        /\ ControlInv
        /\ DatabaseDescribed
        /\ CoinsMatchTip
        /\ AlwaysRecoverable

-----------------------------------------------------------------------------
(* Lemmas about one block.                                                  *)

\* A step that leaves the indexes alone keeps them sound; what remains is the
\* marks of the coin databases it writes.
LEMMA StorageFrame ==
  ASSUME StorageInv, UNCHANGED <<index, diskIndex, undo>>,
         MarksConnected(db'), MarksConnected(dbSafe')
  PROVE  StorageInv'
  <1>1. IndexSound(index)' /\ IndexSound(diskIndex)'
    BY ZenonT(30) DEF StorageInv, IndexSound, Connected, UndoData
  <1>2. MarksConnected(db)' /\ MarksConnected(dbSafe)'
    BY ZenonT(30) DEF MarksConnected, Connected
  <1> QED BY <1>1, <1>2, ZenonT(30) DEF StorageInv

\* A step that also leaves the coin databases alone keeps the whole of it.
LEMMA StorageUnchanged ==
  ASSUME StorageInv, UNCHANGED <<index, diskIndex, undo, db, dbSafe>>
  PROVE  StorageInv'
  BY StorageFrame, ZenonT(30) DEF StorageInv

LEMMA ParentInBlock ==
  ASSUME NEW b \in Block \ {Genesis}
  PROVE  Parent[b] \in Block /\ Utxo[b] \in CoinMap /\ Utxo[Parent[b]] \in CoinMap
  BY BlockTreeAssumption, UtxoAssumption

\* Applying a block whose effects may be there already gives the state after it,
\* for every output that does not have its final value.
LEMMA ApplyBetween ==
  ASSUME NEW b \in Block \ {Genesis}, NEW c \in Block, NEW m \in CoinMap,
         Between(m, Parent[b], c)
  PROVE  Apply(b, m) \in CoinMap /\ Between(Apply(b, m), b, c)
  <1>1. Utxo[b] = Apply(b, Utxo[Parent[b]])
    BY UtxoAssumption
  <1>2. Height[b] \in Nat
    BY BlockTreeAssumption
  <1> QED BY <1>1, <1>2 DEF Apply, Between, CoinMap, Coin

\* Undoing a block whose effects may be there only in part gives the state
\* before it: writing and deleting a coin are idempotent.
LEMMA UndoBetween ==
  ASSUME NEW b \in Block \ {Genesis}, NEW c \in Block, NEW m \in CoinMap,
         undo \in [Block -> CoinMap], undo[b] = UndoData(b, Utxo[Parent[b]]),
         Between(m, b, c)
  PROVE  /\ ApplyBlockUndo(b, m) \in CoinMap
         /\ Between(ApplyBlockUndo(b, m), Parent[b], c)
  <1>1. /\ Utxo[b] = Apply(b, Utxo[Parent[b]])
        /\ \A o \in Creates[b] : Utxo[Parent[b]][o] = Spent
    BY UtxoAssumption
  <1>2. undo[b] \in CoinMap
    OBVIOUS
  <1> QED BY <1>1, <1>2 DEF ApplyBlockUndo, Restored, UndoData, Apply, Between, CoinMap, Coin

\* Undoing a block whose effects are all there is clean and exact.
LEMMA UndoExact ==
  ASSUME NEW b \in Block \ {Genesis}, undo[b] = UndoData(b, Utxo[Parent[b]])
  PROVE  /\ ApplyBlockUndo(b, Utxo[b]) = Utxo[Parent[b]]
         /\ DisconnectClean(b, Utxo[b])
  <1>1. /\ Utxo[b] = Apply(b, Utxo[Parent[b]])
        /\ Creates[b] \in SUBSET OutPoint /\ Spends[b] \in SUBSET OutPoint
        /\ \A o \in Creates[b] : Utxo[Parent[b]][o] = Spent
    BY UtxoAssumption
  <1>2. Utxo[Parent[b]] \in CoinMap
    BY ParentInBlock
  <1>3. \A o \in OutPoint : ApplyBlockUndo(b, Utxo[b])[o] = Utxo[Parent[b]][o]
    BY <1>1 DEF ApplyBlockUndo, Restored, UndoData, Apply
  <1>4. ApplyBlockUndo(b, Utxo[b]) = [o \in OutPoint |-> Utxo[Parent[b]][o]]
    BY <1>3 DEF ApplyBlockUndo
  <1>5. ApplyBlockUndo(b, Utxo[b]) = Utxo[Parent[b]]
    BY <1>2, <1>4 DEF CoinMap
  <1>6. DisconnectClean(b, Utxo[b])
    BY <1>1 DEF DisconnectClean, Restored, UndoData, Apply
  <1> QED BY <1>5, <1>6

\* Everything on the chain of a known block is known.
LEMMA ChainKnown ==
  ASSUME NEW idx \in [Block -> IndexEntry], IndexSound(idx),
         NEW b \in Block, idx[b] # "none", NEW a \in Ancestors[b]
  PROVE  idx[a] # "none"
  <1> DEFINE S == {x \in Block : idx[x] # "none"}
  <1>1. ClosedUnderParent(S)
    BY ParentInBlock DEF ClosedUnderParent, IndexSound
  <1>2. S \in SUBSET Block /\ b \in S
    OBVIOUS
  <1> HIDE DEF S
  <1>3. Ancestors[b] \subseteq S
    BY <1>1, <1>2, ChainInClosed
  <1> QED BY <1>3 DEF S

\* Everything on the chain of a connected block is connected.
LEMMA ChainConnected ==
  ASSUME NEW idx \in [Block -> IndexEntry], IndexSound(idx),
         NEW b \in Block, idx[b] = "undo", NEW a \in Ancestors[b]
  PROVE  Connected(idx, a)
  <1> DEFINE S == {x \in Block : Connected(idx, x)}
  <1>1. ClosedUnderParent(S)
    BY ParentInBlock DEF ClosedUnderParent, IndexSound, Connected
  <1>2. S \in SUBSET Block /\ b \in S
    BY DEF Connected
  <1> HIDE DEF S
  <1>3. Ancestors[b] \subseteq S
    BY <1>1, <1>2, ChainInClosed
  <1> QED BY <1>3 DEF S

\* The marks of a coin database are described by the blocks they name.
LEMMA TransitionBetween ==
  ASSUME NEW d \in Database, Described(d), InTransition(d)
  PROVE  Between(d.coins, IF d.old = Null THEN Genesis ELSE d.old, d.new)
  BY DEF Described, InTransition, Between, UtxoOf

-----------------------------------------------------------------------------
(* Preservation, one lemma per group of actions.                            *)

LEMMA InitIInv == Init => IInv
  <1> SUFFICES ASSUME Init PROVE IInv
    OBVIOUS
  <1>1. TypeOK
    BY BlockTreeAssumption, UtxoAssumption
       DEF Init, TypeOK, Database, IndexEntry, NoUndo, CoinMap, Coin
  <1>2. StorageInv
    BY BlockTreeAssumption, UtxoAssumption
       DEF Init, StorageInv, IndexSound, MarksConnected, Connected
  <1>3. ControlInv
    BY DEF Init, ControlInv, Connected
  <1>4. DatabaseDescribed /\ CoinsMatchTip /\ AlwaysRecoverable
    BY DEF Init, DatabaseDescribed, Described, InTransition, UtxoOf, CoinsMatchTip,
           AlwaysRecoverable
  <1> QED BY <1>1, <1>2, <1>3, <1>4 DEF IInv

LEMMA AcceptStep ==
  ASSUME IInv, NEW b \in Block \ {Genesis}, AcceptBlock(b)
  PROVE  IInv'
  <1>1. TypeOK'
    BY DEF IInv, AcceptBlock, TypeOK, IndexEntry
  <1>2. StorageInv'
    BY BlockTreeAssumption
       DEF IInv, AcceptBlock, TypeOK, StorageInv, IndexSound, MarksConnected, Connected, UndoData
  <1>3. ControlInv'
    BY DEF IInv, AcceptBlock, TypeOK, ControlInv, Connected, Between
  <1>4. DatabaseDescribed' /\ CoinsMatchTip' /\ AlwaysRecoverable'
    BY DEF IInv, AcceptBlock, DatabaseDescribed, Described, InTransition, UtxoOf,
           CoinsMatchTip, AlwaysRecoverable
  <1> QED BY <1>1, <1>2, <1>3, <1>4 DEF IInv

LEMMA ConnectStep ==
  ASSUME IInv, NEW b \in Block \ {Genesis}, ConnectTip(b)
  PROVE  IInv'
  <1>0. coins = Utxo[best] /\ best = Parent[b] /\ best \in Block
    BY ParentInBlock DEF IInv, ConnectTip, CoinsMatchTip
  <1>u. Utxo[b] = Apply(b, Utxo[Parent[b]]) /\ Utxo[b] \in CoinMap
    BY UtxoAssumption
  <1>c. UndoData(b, coins) \in CoinMap
    BY BlockTreeAssumption DEF UndoData, IInv, TypeOK, CoinMap, Coin
  <1>n. b # Null
    BY UtxoAssumption
  <1>1. TypeOK'
    BY <1>0, <1>u, <1>c, <1>n DEF IInv, ConnectTip, TypeOK, IndexEntry
  <1>2. StorageInv'
    <2>1. undo'[b] = UndoData(b, Utxo[Parent[b]])
      BY <1>0 DEF IInv, ConnectTip, TypeOK, StorageInv, IndexSound
    <2>2. \A x \in Block : x # b => undo'[x] = undo[x]
      BY DEF IInv, ConnectTip, TypeOK
    <2>3. Connected(index, Parent[b])
      BY <1>0 DEF IInv, ControlInv, ConnectTip
    <2>4. index' = [index EXCEPT ![b] = "undo"] /\ diskIndex' = diskIndex
      BY DEF ConnectTip
    <2>5. IndexSound(index)'
      BY <2>1, <2>2, <2>3, <2>4, BlockTreeAssumption
         DEF IInv, TypeOK, StorageInv, IndexSound, Connected, UndoData
    <2>6. IndexSound(diskIndex)'
      BY <2>1, <2>2, <2>4 DEF IInv, StorageInv, IndexSound, UndoData
    <2> QED
      BY <2>4, <2>5, <2>6 DEF IInv, TypeOK, StorageInv, ConnectTip, MarksConnected, Connected
  <1>3. ControlInv'
    BY DEF IInv, ConnectTip, TypeOK, ControlInv, Connected
  <1>4. DatabaseDescribed' /\ CoinsMatchTip' /\ AlwaysRecoverable'
    BY <1>0, <1>u
       DEF IInv, ConnectTip, DatabaseDescribed, Described, InTransition, UtxoOf,
           CoinsMatchTip, AlwaysRecoverable
  <1> QED BY <1>1, <1>2, <1>3, <1>4 DEF IInv

LEMMA DisconnectStep ==
  ASSUME IInv, DisconnectTip
  PROVE  IInv'
  <1>0. /\ coins = Utxo[best] /\ best \in Block \ {Genesis}
        /\ undo[best] = UndoData(best, Utxo[Parent[best]])
        /\ Parent[best] = Genesis \/ index[Parent[best]] = "undo"
    BY DEF IInv, TypeOK, DisconnectTip, CoinsMatchTip, StorageInv, IndexSound
  <1>1. coins' = Utxo[Parent[best]] /\ best' = Parent[best] /\ best' \in Block
    BY <1>0, UndoExact, ParentInBlock DEF DisconnectTip
  <1>2. TypeOK'
    BY <1>0, <1>1, ParentInBlock, UtxoAssumption DEF IInv, DisconnectTip, TypeOK
  <1>3. StorageInv'
    BY StorageUnchanged, ZenonT(30) DEF IInv, DisconnectTip
  <1>4. ControlInv'
    BY <1>0, <1>1 DEF IInv, DisconnectTip, ControlInv, Connected
  <1>5. DatabaseDescribed' /\ CoinsMatchTip' /\ AlwaysRecoverable'
    BY <1>1
       DEF IInv, DisconnectTip, DatabaseDescribed, Described, InTransition, UtxoOf,
           CoinsMatchTip, AlwaysRecoverable
  <1> QED BY <1>2, <1>3, <1>4, <1>5 DEF IInv

LEMMA FlushIndexStep ==
  ASSUME IInv, FlushIndex \/ FlushAll
  PROVE  IInv'
  <1>1. TypeOK'
    BY DEF IInv, FlushIndex, FlushAll, TypeOK
  <1>2. StorageInv'
    <2>1. index' = index /\ diskIndex' = index /\ undo' = undo /\ db' = db /\ dbSafe' = dbSafe
      BY DEF FlushIndex, FlushAll
    <2>2. IndexSound(index)' /\ IndexSound(diskIndex)'
      BY <2>1 DEF IInv, StorageInv, IndexSound, UndoData
    <2>3. MarksConnected(db)' /\ MarksConnected(dbSafe)'
      BY <2>1 DEF IInv, TypeOK, Database, StorageInv, MarksConnected, Connected
    <2> QED BY <2>1, <2>2, <2>3 DEF StorageInv
  <1>3. ControlInv'
    BY DEF IInv, FlushIndex, FlushAll, ControlInv, Connected, Between
  <1>4. DatabaseDescribed' /\ CoinsMatchTip' /\ AlwaysRecoverable'
    BY DEF IInv, FlushIndex, FlushAll, DatabaseDescribed, Described, InTransition, UtxoOf,
           CoinsMatchTip, AlwaysRecoverable
  <1> QED BY <1>1, <1>2, <1>3, <1>4 DEF IInv

LEMMA PartialBatchStep ==
  ASSUME IInv, NEW W \in SUBSET Dirty, WritePartialBatch(W)
  PROVE  IInv'
  <1>0. /\ coins = Utxo[best] /\ best \in Block /\ best # Null
        /\ Connected(diskIndex, best) /\ Connected(index, best)
    BY DEF IInv, TypeOK, WritePartialBatch, CoinsMatchTip, ControlInv
  <1>1. OldTip \in Block \cup {Null} /\ (OldTip # Null => Connected(diskIndex, OldTip))
    BY DEF IInv, TypeOK, Database, OldTip, InTransition, StorageInv, MarksConnected
  <1>2. Written(W) \in CoinMap
    BY DEF IInv, TypeOK, Database, Written, CoinMap
  <1>3. db' \in Database /\ db'.coins = Written(W) /\ db'.best = Null /\ db'.new = best
        /\ db'.old = OldTip
    BY <1>0, <1>1, <1>2 DEF WritePartialBatch, Database
  <1>4. \A o \in OutPoint : db.coins[o] \in {Utxo[best][o], UtxoOf(OldTip)[o]}
    <2>1. CASE ~InTransition(db)
      BY <2>1 DEF IInv, DatabaseDescribed, Described, OldTip, UtxoOf
    <2>2. CASE InTransition(db)
      <3>1. db.new = best /\ db.best = Null
        BY <2>2 DEF IInv, ControlInv, WritePartialBatch, InTransition, StorageInv,
                    MarksConnected
      <3> QED BY <2>2, <3>1 DEF IInv, DatabaseDescribed, Described, OldTip
    <2> QED BY <2>1, <2>2
  <1>5. TypeOK'
    BY <1>3 DEF IInv, TypeOK, WritePartialBatch
  <1>6. StorageInv'
    <2>1. MarksConnected(db')
      BY <1>0, <1>1, <1>3 DEF MarksConnected
    <2> QED BY <2>1, StorageFrame, ZenonT(30) DEF IInv, StorageInv, WritePartialBatch
  <1>7. ControlInv'
    BY <1>3 DEF IInv, WritePartialBatch, ControlInv, Connected, Between
  <1>8. Described(db)'
    BY <1>0, <1>3, <1>4 DEF Described, InTransition, Written, UtxoOf
  <1>9. Described(dbSafe)' /\ CoinsMatchTip' /\ AlwaysRecoverable'
    BY DEF IInv, WritePartialBatch, DatabaseDescribed, Described, InTransition, UtxoOf,
           CoinsMatchTip, AlwaysRecoverable
  <1> QED BY <1>5, <1>6, <1>7, <1>8, <1>9 DEF IInv, DatabaseDescribed

LEMMA FinalBatchStep ==
  ASSUME IInv, WriteFinalBatch
  PROVE  IInv'
  <1>0. /\ coins = Utxo[best] /\ best \in Block /\ best # Null /\ coins \in CoinMap
        /\ Connected(diskIndex, best) /\ Connected(index, best)
    BY DEF IInv, TypeOK, WriteFinalBatch, CoinsMatchTip, ControlInv
  <1>1. Written(Dirty) = coins
    BY DEF IInv, TypeOK, Database, Written, Dirty, CoinMap
  <1>2. db' \in Database /\ db'.coins = coins /\ db'.best = best /\ db'.new = Null
        /\ db'.old = Null
    BY <1>0, <1>1 DEF WriteFinalBatch, Database
  <1>3. TypeOK'
    BY <1>2, ZenonT(30) DEF IInv, TypeOK, WriteFinalBatch
  <1>4. StorageInv'
    <2>1. MarksConnected(db')
      BY <1>0, <1>2 DEF MarksConnected
    <2> QED BY <2>1, StorageFrame, ZenonT(30) DEF IInv, StorageInv, WriteFinalBatch
  <1>5. ControlInv'
    BY <1>0, <1>2 DEF WriteFinalBatch, ControlInv, Connected
  <1>6. Described(db)'
    BY <1>0, <1>2 DEF Described, InTransition, UtxoOf
  <1>7. Described(dbSafe)' /\ CoinsMatchTip' /\ AlwaysRecoverable'
    BY <1>0, SMTT(30)
       DEF IInv, WriteFinalBatch, DatabaseDescribed, Described, InTransition, UtxoOf,
           CoinsMatchTip, AlwaysRecoverable
  <1> QED BY <1>3, <1>4, <1>5, <1>6, <1>7 DEF IInv, DatabaseDescribed

LEMMA SyncStep ==
  ASSUME IInv, SyncCoinsDB
  PROVE  IInv'
  <1>1. TypeOK'
    BY DEF IInv, SyncCoinsDB, TypeOK
  <1>2. StorageInv'
    BY StorageFrame, ZenonT(30) DEF IInv, StorageInv, SyncCoinsDB
  <1>3. ControlInv'
    BY ZenonT(30) DEF IInv, SyncCoinsDB, ControlInv, Connected, Between
  <1>4. DatabaseDescribed' /\ CoinsMatchTip' /\ AlwaysRecoverable'
    BY DEF IInv, SyncCoinsDB, DatabaseDescribed, Described, InTransition, UtxoOf,
           CoinsMatchTip, AlwaysRecoverable
  <1> QED BY <1>1, <1>2, <1>3, <1>4 DEF IInv

LEMMA CrashStep ==
  ASSUME IInv, Crash
  PROVE  IInv'
  <1>1. TypeOK'
    BY UtxoAssumption, BlockTreeAssumption DEF IInv, Crash, TypeOK
  <1>2. StorageInv'
    BY DEF IInv, Crash, StorageInv, IndexSound, MarksConnected, Connected, UndoData
  <1>3. ControlInv'
    BY ZenonT(30) DEF IInv, Crash, ControlInv
  <1>4. DatabaseDescribed' /\ CoinsMatchTip' /\ AlwaysRecoverable'
    BY DEF IInv, Crash, DatabaseDescribed, Described, InTransition, UtxoOf,
           CoinsMatchTip, AlwaysRecoverable
  <1> QED BY <1>1, <1>2, <1>3, <1>4 DEF IInv

LEMMA StartStep ==
  ASSUME IInv, Start
  PROVE  IInv'
  <1>1. /\ best' \in Block /\ best' # Null
        /\ Connected(diskIndex, best') /\ index = diskIndex
        /\ coins' = Utxo[best'] /\ coins' \in CoinMap
    BY BlockTreeAssumption, UtxoAssumption
       DEF IInv, TypeOK, Database, Start, StorageInv, MarksConnected, ControlInv, Connected,
           DatabaseDescribed, Described, UtxoOf
  <1>2. index[best'] # "none" /\ pc' = "run"
    BY <1>1 DEF IInv, StorageInv, IndexSound, Connected, Start
  <1>3. TypeOK'
    BY <1>1, <1>2, ZenonT(30) DEF IInv, TypeOK, Start
  <1>4. StorageInv'
    BY StorageUnchanged, ZenonT(30) DEF IInv, Start
  <1>5. ControlInv'
    BY <1>1, <1>2, ZenonT(30) DEF Start, ControlInv, Connected, InTransition
  <1>6. DatabaseDescribed' /\ CoinsMatchTip' /\ AlwaysRecoverable'
    BY <1>1, <1>2, SMTT(30)
       DEF IInv, Start, DatabaseDescribed, Described, InTransition, UtxoOf, CoinsMatchTip,
           AlwaysRecoverable
  <1> QED BY <1>3, <1>4, <1>5, <1>6 DEF IInv

LEMMA StartReplayStep ==
  ASSUME IInv, StartReplay
  PROVE  IInv'
  <1>1. /\ best' \in Block /\ best' # Null /\ best' = db.new
        /\ pos' \in Block /\ pos' # Null
        /\ Connected(diskIndex, best') /\ Connected(diskIndex, pos')
        /\ index = diskIndex
    BY BlockTreeAssumption, UtxoAssumption
       DEF IInv, TypeOK, Database, StartReplay, InTransition, StorageInv, MarksConnected,
           ControlInv, Connected
  <1>2. index[best'] # "none" /\ index[pos'] # "none"
    BY <1>1 DEF IInv, StorageInv, IndexSound, Connected
  <1>3. pc' = "rollback"
    BY <1>2 DEF StartReplay
  <1>4. Between(coins', pos', best')
    BY TransitionBetween DEF IInv, TypeOK, DatabaseDescribed, StartReplay
  <1>5. TypeOK'
    BY <1>1, <1>3, ZenonT(30) DEF IInv, TypeOK, Database, StartReplay
  <1>6. StorageInv'
    BY StorageUnchanged, ZenonT(30) DEF IInv, StartReplay
  <1>7. ControlInv'
    BY <1>1, <1>3, <1>4, SMTT(30) DEF StartReplay, ControlInv, Connected, Between
  <1>8. DatabaseDescribed' /\ CoinsMatchTip' /\ AlwaysRecoverable'
    BY <1>3, SMTT(30)
       DEF IInv, StartReplay, DatabaseDescribed, Described, InTransition, UtxoOf,
           CoinsMatchTip, AlwaysRecoverable
  <1> QED BY <1>5, <1>6, <1>7, <1>8 DEF IInv

LEMMA RollbackStep ==
  ASSUME Counting, IInv, RollbackBlock
  PROVE  IInv'
  <1>1. best \in Block /\ pos \in Block /\ pos \notin Ancestors[best] /\ best # Null
        /\ pos # Null /\ Connected(index, pos) /\ Connected(index, best)
        /\ Between(coins, pos, best) /\ coins \in CoinMap
    BY DEF IInv, TypeOK, RollbackBlock, ControlInv
  <1>2. pos # Genesis
    BY <1>1, GenesisInAncestors
  <1>3. /\ index[pos] = "undo" /\ undo[pos] = UndoData(pos, Utxo[Parent[pos]])
        /\ Connected(index, Parent[pos])
    BY <1>1, <1>2 DEF IInv, StorageInv, IndexSound, Connected
  <1>4. /\ coins' = ApplyBlockUndo(pos, coins) /\ pos' = Parent[pos] /\ pc' = "rollback"
        /\ UNCHANGED <<index, diskIndex, undo, best, db, dbSafe>>
    BY <1>3 DEF RollbackBlock
  <1>5. coins' \in CoinMap /\ Between(coins', Parent[pos], best)
    BY <1>1, <1>2, <1>3, <1>4, UndoBetween DEF IInv, TypeOK
  <1>6. Parent[pos] \in Block /\ Parent[pos] # Null
    BY <1>1, <1>2, ParentInBlock, UtxoAssumption
  <1>7. TypeOK'
    BY <1>1, <1>4, <1>5, <1>6 DEF IInv, TypeOK
  <1>8. StorageInv'
    BY <1>4, StorageUnchanged, ZenonT(30) DEF IInv
  <1>9. ControlInv'
    BY <1>3, <1>4, <1>5, ZenonT(30) DEF IInv, RollbackBlock, ControlInv, Connected, Between
  <1>10. DatabaseDescribed' /\ CoinsMatchTip' /\ AlwaysRecoverable'
    <2>1. DatabaseDescribed'
      BY <1>4, ZenonT(30) DEF IInv, DatabaseDescribed, Described, InTransition, UtxoOf
    <2> QED
      BY <1>4, <2>1 DEF CoinsMatchTip, AlwaysRecoverable
  <1> QED BY <1>7, <1>8, <1>9, <1>10 DEF IInv

LEMMA RollforwardStep ==
  ASSUME IInv, RollforwardBlock
  PROVE  IInv'
  <1> DEFINE b == NextTowards(pos, best)
  <1>1. best \in Block /\ best # Null /\ pos \in Ancestors[best] /\ pos # best
        /\ Connected(index, best) /\ Between(coins, pos, best) /\ coins \in CoinMap
        /\ index \in [Block -> IndexEntry] /\ IndexSound(index)
    BY DEF IInv, TypeOK, RollforwardBlock, ControlInv, StorageInv
  <1>2. b \in Block \ {Genesis} /\ b \in Ancestors[best] /\ Parent[b] = pos
    BY <1>1, NextTowardsExists, ZenonT(30)
  <1> HIDE DEF b
  <1>3. index[best] = "undo"
    BY <1>1, <1>2, GenesisAncestors, BlockTreeAssumption DEF Connected
  <1>4. index[b] # "none"
    BY <1>1, <1>2, <1>3, ChainKnown
  <1>5. /\ coins' = Apply(b, coins) /\ pos' = b /\ pc' = "rollforward"
        /\ UNCHANGED <<index, diskIndex, undo, best, db, dbSafe>>
    BY <1>4 DEF RollforwardBlock, b
  <1>6. coins' \in CoinMap /\ Between(coins', b, best)
    BY <1>1, <1>2, <1>5, ApplyBetween
  <1>7. Connected(index, b)
    BY <1>1, <1>2, <1>3, ChainConnected
  <1>8. TypeOK'
    BY <1>1, <1>2, <1>5, <1>6, UtxoAssumption DEF IInv, TypeOK
  <1>9. StorageInv'
    BY <1>5, StorageUnchanged, ZenonT(30) DEF IInv
  <1>10. ControlInv'
    BY <1>2, <1>5, <1>6, <1>7, ZenonT(30) DEF IInv, RollforwardBlock, ControlInv, Connected, Between
  <1>11. DatabaseDescribed' /\ CoinsMatchTip' /\ AlwaysRecoverable'
    <2>1. DatabaseDescribed'
      BY <1>5, ZenonT(30) DEF IInv, DatabaseDescribed, Described, InTransition, UtxoOf
    <2> QED
      BY <1>5, <2>1 DEF CoinsMatchTip, AlwaysRecoverable
  <1> QED BY <1>8, <1>9, <1>10, <1>11 DEF IInv

LEMMA ReplayControlStep ==
  ASSUME IInv, ForkReached \/ ReplayDone
  PROVE  IInv'
  <1>1. TypeOK'
    BY DEF IInv, ForkReached, ReplayDone, TypeOK
  <1>2. StorageInv'
    BY SMTT(30) DEF IInv, ForkReached, ReplayDone, StorageInv, IndexSound, MarksConnected, Connected,
           UndoData
  <1>3. ControlInv'
    <2>1. CASE ForkReached
      BY <2>1, SMTT(30) DEF IInv, ForkReached, ControlInv, Connected, Between
    <2>2. CASE ReplayDone
      BY <2>2, SMTT(30) DEF IInv, ReplayDone, ControlInv, Connected, Between
    <2> QED
      BY <2>1, <2>2
  <1>4. DatabaseDescribed' /\ AlwaysRecoverable'
    BY DEF IInv, ForkReached, ReplayDone, DatabaseDescribed, Described, InTransition, UtxoOf,
           AlwaysRecoverable
  <1>5. CoinsMatchTip'
    <2>1. CASE ForkReached
      BY <2>1 DEF ForkReached, CoinsMatchTip
    <2>2. CASE ReplayDone
      <3>1. /\ coins \in CoinMap /\ best \in Block /\ Utxo[best] \in CoinMap
            /\ \A o \in OutPoint : coins[o] = Utxo[best][o]
        BY <2>2, UtxoAssumption DEF IInv, TypeOK, ReplayDone, ControlInv, Between
      <3>2. coins = Utxo[best]
        BY <3>1 DEF CoinMap
      <3> QED BY <2>2, <3>2 DEF ReplayDone, CoinsMatchTip
    <2> QED BY <2>1, <2>2
  <1> QED BY <1>1, <1>2, <1>3, <1>4, <1>5, ZenonT(30) DEF IInv

LEMMA StutterStep ==
  ASSUME IInv, UNCHANGED vars
  PROVE  IInv'
  <1>1. TypeOK' /\ AlwaysRecoverable' /\ CoinsMatchTip'
    BY DEF IInv, vars, TypeOK, AlwaysRecoverable, CoinsMatchTip
  <1>2. StorageInv' /\ ControlInv'
    <2>1. StorageInv'
      BY StorageUnchanged, ZenonT(30) DEF IInv, vars
    <2>2. ControlInv'
      BY ZenonT(30) DEF IInv, vars, ControlInv, Connected, Between
    <2> QED BY <2>1, <2>2
  <1>3. DatabaseDescribed'
    BY ZenonT(30) DEF IInv, vars, DatabaseDescribed, Described, InTransition, UtxoOf
  <1> QED BY <1>1, <1>2, <1>3 DEF IInv

-----------------------------------------------------------------------------
(* The library's theorems, which the lemmas above take as a hypothesis.      *)

LOCAL FS == INSTANCE FiniteSetTheorems

LEMMA CountingHolds == Counting
  <1>1. ASSUME NEW T \in SUBSET Nat, T # {}
        PROVE  \E n \in T : \A m \in T : n <= m
    <2> DEFINE R == {p \in Nat \X Nat : p[1] < p[2]}
    <2>1. FS!IsWellFoundedOn(R, Nat)
      BY FS!NatLessThanWellFounded DEF FS!OpToRel
    <2>2. \A n, m \in Nat : <<m, n>> \in R <=> m < n
      OBVIOUS
    <2> HIDE DEF R
    <2>3. PICK n \in T : \A m \in T : ~(<<m, n>> \in R)
      BY <1>1, <2>1, FS!WFMin, ZenonT(30)
    <2>4. \A m \in T : m \in Nat /\ n \in Nat /\ ~(m < n)
      BY <2>2, <2>3, ZenonT(30)
    <2>5. \A m \in T : n <= m
      BY <2>4
    <2> QED
      BY <2>5
  <1>2. ASSUME NEW S \in SUBSET Block
        PROVE  Cardinality(S) \in Nat /\ \A x \in S : Cardinality(S \ {x}) = Cardinality(S) - 1
    <2>1. FS!IsFiniteSet(Block)
      BY BlockTreeAssumption DEF IsFiniteSet, FS!IsFiniteSet
    <2>2. \A T : Cardinality(T) = FS!Cardinality(T)
      BY DEF Cardinality, FS!Cardinality
    <2>3. FS!IsFiniteSet(S)
      BY <2>1, FS!FS_Subset
    <2> QED
      BY <2>2, <2>3, FS!FS_CardinalityType, FS!FS_RemoveElement
  <1> QED
    BY <1>1, <1>2, ZenonT(30) DEF Counting

-----------------------------------------------------------------------------
(* The theorems.                                                            *)

\* The inductive invariant holds in every reachable state: one case per action
\* of the node.
THEOREM Inductive == Spec => []IInv
  <1>1. IInv /\ [Next]_vars => IInv'
    <2> SUFFICES ASSUME IInv, [Next]_vars PROVE IInv'
      OBVIOUS
    <2>1. ASSUME NEW b \in Block \ {Genesis}, AcceptBlock(b) \/ ConnectTip(b) PROVE IInv'
      BY <2>1, AcceptStep, ConnectStep
    <2>2. ASSUME NEW W \in SUBSET Dirty, WritePartialBatch(W) PROVE IInv'
      BY <2>2, PartialBatchStep
    <2>3. ASSUME Recovery PROVE IInv'
      BY <2>3, CountingHolds, StartStep, StartReplayStep, RollbackStep, RollforwardStep, ReplayControlStep
         DEF Recovery
    <2> QED
      BY <2>1, <2>2, <2>3, DisconnectStep, FlushIndexStep, FinalBatchStep, SyncStep,
         CrashStep, StutterStep
         DEF Next
  <1> QED BY <1>1, InitIInv, PTL DEF Spec

\* Databases, index and replay position stay well formed across crashes.
THEOREM TypeCorrect == Spec => []TypeOK
  <1>1. IInv => TypeOK
    BY DEF IInv
  <1> QED BY <1>1, Inductive, PTL

\* pcoinsTip holds the unspent outputs of its best block whenever the node runs,
\* after any number of reorganisations, flushes, crashes and replays.
THEOREM CoinsAlwaysMatchTip == Spec => []CoinsMatchTip
  <1>1. IInv => CoinsMatchTip
    BY DEF IInv
  <1> QED BY <1>1, Inductive, PTL

\* Between any two batches of BatchWrite, the marks of the coin database describe
\* its contents.
THEOREM DatabaseAlwaysDescribed == Spec => []DatabaseDescribed
  <1>1. IInv => DatabaseDescribed
    BY DEF IInv
  <1> QED BY <1>1, Inductive, PTL

\* ReplayBlocks and LoadChainTip never fail: the block index is always written
\* before the coins that refer to it.
THEOREM RecoveryNeverFails == Spec => []AlwaysRecoverable
  <1>1. IInv => AlwaysRecoverable
    BY DEF IInv
  <1> QED BY <1>1, Inductive, PTL

\* The tip of a running node can be disconnected, cleanly.
THEOREM TipCanBeDisconnected == Spec => []DisconnectNeverRefused
  <1>1. IInv => DisconnectNeverRefused
    <2> SUFFICES ASSUME IInv, pc = "run", best # Genesis
                 PROVE  index[best] = "undo" /\ DisconnectClean(best, coins)
      BY DEF DisconnectNeverRefused
    <2>1. /\ best \in Block \ {Genesis} /\ coins = Utxo[best] /\ index[best] = "undo"
          /\ undo[best] = UndoData(best, Utxo[Parent[best]])
      BY ZenonT(30) DEF IInv, TypeOK, ControlInv, Connected, CoinsMatchTip, StorageInv, IndexSound
    <2> QED BY <2>1, UndoExact
  <1> QED BY <1>1, Inductive, PTL

\* The assertion on the heads in BatchWrite holds.
THEOREM HeadsAlwaysAgree == Spec => []HeadsAgree
  <1>1. IInv => HeadsAgree
    BY DEF IInv, ControlInv, InTransition, HeadsAgree
  <1> QED BY <1>1, Inductive, PTL

\* The marks of the coin database are right for a replay after a crash and for the
\* flush that BatchWrite is writing.
THEOREM DatabaseAlwaysSound == Spec => []DatabaseSound
  <1>1. DatabaseDescribed /\ HeadsAgree => DatabaseSound
    BY DEF DatabaseSound
  <1> QED BY <1>1, DatabaseAlwaysDescribed, HeadsAlwaysAgree, PTL
=============================================================================
