------------------------------ MODULE CoinsFlush ------------------------------
(***************************************************************************)
(* Durability of the unspent-output set: blocks are connected to and        *)
(* disconnected from pcoinsTip, FlushStateToDisk writes the block index and *)
(* then the coins, the coin database writes them in several batches, the    *)
(* node can crash anywhere, and ReplayBlocks repairs the database at the    *)
(* next start.                                                              *)
(*                                                                          *)
(* pcoinsTip is the plain map "coins": CoinsCache shows that its caches     *)
(* behave like one.  Its dirty entries are those that differ from the       *)
(* database; writing an entry that does not differ changes nothing.  A      *)
(* coin is identified by the height of the block that created it, which is  *)
(* what tells apart the coins that one transaction leaves on two branches.  *)
(* Every block of the tree is valid.  Block files are synced by the first   *)
(* step of FlushStateToDisk; BlockFiles models that step.                   *)
(***************************************************************************)
EXTENDS BlockTree

CONSTANTS OutPoint,
          Creates,  \* [Block -> SUBSET OutPoint]: spendable outputs of a block
          Spends,   \* [Block -> SUBSET OutPoint]: inputs of its transactions
          Utxo,     \* [Block -> [OutPoint -> Nat \cup {Spent}]]: see below
          Spent,
          Null      \* a null block hash

Coin == Nat \cup {Spent}
CoinMap == [OutPoint -> Coin]

\* ConnectBlock and RollforwardBlock add the outputs of all transactions first
\* and spend the inputs afterwards: an output that is created and spent in the
\* same block, in whatever order, ends up spent.
Apply(b, m) ==
  [o \in OutPoint |-> IF o \in Spends[b] THEN Spent
                      ELSE IF o \in Creates[b] THEN Height[b] ELSE m[o]]

\* Utxo is the reference: the outputs unspent after each block.  Blocks spend
\* only unspent outputs and do not recreate one that is unspent (BIP30).  The
\* outputs of genesis are not spendable.
ASSUME UtxoAssumption ==
  /\ Spent \notin Nat
  /\ Null \notin Block
  /\ Creates \in [Block -> SUBSET OutPoint]
  /\ Spends \in [Block -> SUBSET OutPoint]
  /\ Utxo \in [Block -> CoinMap]
  /\ Utxo[Genesis] = [o \in OutPoint |-> Spent]
  /\ \A b \in Block \ {Genesis} :
       /\ Utxo[b] = Apply(b, Utxo[Parent[b]])
       /\ \A o \in Creates[b] : Utxo[Parent[b]][o] = Spent
       /\ \A o \in Spends[b] \ Creates[b] : Utxo[Parent[b]][o] # Spent

VARIABLES pc,        \* what the node is doing
          index,     \* mapBlockIndex: what is known of the files of each block
          diskIndex, \* the block index database
          undo,      \* contents of the undo files
          coins,     \* the coins of pcoinsTip, or of the cache of ReplayBlocks
          best,      \* its best block
          db,        \* the coin database
          dbSafe,    \* what of the coin database a power loss leaves
          pos        \* pindexOld, then pindex, of ReplayBlocks

vars == <<pc, index, diskIndex, undo, coins, best, db, dbSafe, pos>>

\* "none": not in mapBlockIndex; "data": nStatus.hasData(); "undo": hasUndo().
IndexEntry == {"none", "data", "undo"}

\* The coins, DB_BEST_BLOCK, and the two hashes of DB_HEAD_BLOCKS.
Database == [coins: CoinMap, best: Block \cup {Null},
             new: Block \cup {Null}, old: Block \cup {Null}]

InTransition(d) == d.new # Null

UtxoOf(b) == IF b = Null THEN Utxo[Genesis] ELSE Utxo[b]

NoUndo == [o \in OutPoint |-> Spent]

-----------------------------------------------------------------------------
(* Connecting and disconnecting blocks.                                     *)

\* AcceptBlock of a block whose parent is known: written to a block file.
AcceptBlock(b) ==
  /\ pc = "run"
  /\ index[b] = "none"
  /\ index[Parent[b]] # "none"
  /\ index' = [index EXCEPT ![b] = "data"]
  /\ UNCHANGED <<pc, diskIndex, undo, coins, best, db, dbSafe, pos>>

\* Variant of UndoData: inputs are read before the block's outputs are added.
Mut_UndoDataBeforeOutputs(b, m) ==
  [o \in OutPoint |-> IF o \in Spends[b] THEN m[o] ELSE Spent]

\* The coins SpendCoins moves into the undo data of b.
UndoData(b, m) ==
  [o \in OutPoint |-> IF o \notin Spends[b] THEN Spent
                      ELSE IF o \in Creates[b] THEN Height[b] ELSE m[o]]

\* ConnectTip: undo data is written unless the block has some already.
ConnectTip(b) ==
  /\ pc = "run"
  /\ Parent[b] = best
  /\ index[b] # "none"
  /\ coins' = Apply(b, coins)
  /\ best' = b
  /\ undo' = IF index[b] = "undo" THEN undo
             ELSE [undo EXCEPT ![b] = UndoData(b, coins)]
  /\ index' = [index EXCEPT ![b] = "undo"]
  /\ UNCHANGED <<pc, diskIndex, db, dbSafe, pos>>

\* ApplyBlockUndo restores the inputs first and removes the outputs afterwards.
Restored(b, m) == [o \in OutPoint |-> IF o \in Spends[b] THEN undo[b][o] ELSE m[o]]

ApplyBlockUndo(b, m) ==
  [o \in OutPoint |-> IF o \in Creates[b] THEN Spent ELSE Restored(b, m)[o]]

\* It reports DISCONNECT_OK when no input was unspent already and every output
\* was there, with the height of this block.
DisconnectClean(b, m) ==
  /\ \A o \in Spends[b] : m[o] = Spent
  /\ \A o \in Creates[b] : Restored(b, m)[o] = Height[b]

DisconnectTip ==
  /\ pc = "run"
  /\ best # Genesis
  /\ index[best] = "undo"
  /\ DisconnectClean(best, coins)
  /\ coins' = ApplyBlockUndo(best, coins)
  /\ best' = Parent[best]
  /\ UNCHANGED <<pc, index, diskIndex, undo, db, dbSafe, pos>>

-----------------------------------------------------------------------------
(* FlushStateToDisk and CCoinsViewDB::BatchWrite.                           *)

\* A periodic write stops after the block index; CBlockTreeDB::WriteBatchSync
\* writes the dirty entries in one synced batch.
FlushIndex ==
  /\ pc = "run"
  /\ diskIndex' = index
  /\ UNCHANGED <<pc, index, undo, coins, best, db, dbSafe, pos>>

\* Variant of FlushAll: the coins are written without the block index.
Mut_FlushCoinsOnly ==
  /\ pc = "run"
  /\ pc' = "flush"
  /\ UNCHANGED <<index, diskIndex, undo, coins, best, db, dbSafe, pos>>

\* A full flush goes on to pcoinsTip->Flush().
FlushAll ==
  /\ pc = "run"
  /\ diskIndex' = index
  /\ pc' = "flush"
  /\ UNCHANGED <<index, undo, coins, best, db, dbSafe, pos>>

\* The tip that a transition of the database started from.
OldTip == IF db.best # Null THEN db.best
          ELSE IF InTransition(db) THEN db.old ELSE Null

Dirty == {o \in OutPoint : coins[o] # db.coins[o]}

Written(W) == [o \in OutPoint |-> IF o \in W THEN coins[o] ELSE db.coins[o]]

\* Variant of WritePartialBatch: the transition is not marked.
Mut_PartialBatchUnmarked(W) ==
  /\ pc \in {"flush", "replayFlush"}
  /\ W # {}
  /\ db' = [db EXCEPT !.coins = Written(W)]
  /\ UNCHANGED <<pc, index, diskIndex, undo, coins, best, dbSafe, pos>>

\* Variant of WritePartialBatch: the two heads are swapped.
Mut_PartialBatchSwapped(W) ==
  /\ pc \in {"flush", "replayFlush"}
  /\ W # {}
  /\ OldTip # Null
  /\ db' = [coins |-> Written(W), best |-> Null, new |-> OldTip, old |-> best]
  /\ UNCHANGED <<pc, index, diskIndex, undo, coins, best, dbSafe, pos>>

\* A batch that grew over -dbbatchsize is written before all coins are in it.
\* The first one marks the transition; later ones leave the mark as it is.
WritePartialBatch(W) ==
  /\ pc \in {"flush", "replayFlush"}
  /\ W # {}
  /\ db' = [coins |-> Written(W), best |-> Null, new |-> best, old |-> OldTip]
  /\ UNCHANGED <<pc, index, diskIndex, undo, coins, best, dbSafe, pos>>

\* The last batch clears the mark.
WriteFinalBatch ==
  /\ pc \in {"flush", "replayFlush"}
  /\ db' = [coins |-> Written(Dirty), best |-> best, new |-> Null, old |-> Null]
  /\ pc' = "run"
  /\ UNCHANGED <<index, diskIndex, undo, coins, best, dbSafe, pos>>

\* LevelDB syncs its log in its own time: batches of the coin database are not
\* written with sync.
SyncCoinsDB ==
  /\ dbSafe # db
  /\ dbSafe' = db
  /\ UNCHANGED <<pc, index, diskIndex, undo, coins, best, db, pos>>

-----------------------------------------------------------------------------
(* Crashes and restarts.                                                    *)

\* The process dies; if power fails, the unsynced tail of the coin database is
\* lost as well.
Crash ==
  /\ pc # "down"
  /\ pc' = "down"
  /\ db' \in {db, dbSafe}
  /\ dbSafe' = db'
  /\ index' = diskIndex
  /\ coins' = Utxo[Genesis]
  /\ best' = Null
  /\ pos' = Null
  /\ UNCHANGED <<diskIndex, undo>>

\* LoadBlockIndex, then ReplayBlocks when the database is in a transition;
\* otherwise LoadChainTip, which fails for a best block it does not know.
Start ==
  /\ pc = "down"
  /\ ~InTransition(db)
  /\ best' = IF db.best = Null THEN Genesis ELSE db.best
  /\ coins' = db.coins
  /\ pc' = IF index[best'] = "none" THEN "failed" ELSE "run"
  /\ UNCHANGED <<index, diskIndex, undo, db, dbSafe, pos>>

\* Both heads must be known.  A null old head (the first flush ever) leaves
\* nothing to roll back and the replay starts above genesis.
StartReplay ==
  /\ pc = "down"
  /\ InTransition(db)
  /\ coins' = db.coins
  /\ best' = db.new
  /\ pos' = IF db.old = Null THEN Genesis ELSE db.old
  /\ pc' = IF index[best'] = "none" \/ index[pos'] = "none" THEN "failed" ELSE "rollback"
  /\ UNCHANGED <<index, diskIndex, undo, db, dbSafe>>

\* Variant of RollbackBlock: pindexOld is not moved to its parent.
Mut_RollbackStuck ==
  /\ pc = "rollback"
  /\ pos \notin Ancestors[best]
  /\ coins' = ApplyBlockUndo(pos, coins)
  /\ UNCHANGED <<pc, index, diskIndex, undo, best, db, dbSafe, pos>>

\* One block of the old branch is undone, clean or not.
RollbackBlock ==
  /\ pc = "rollback"
  /\ pos \notin Ancestors[best]
  /\ IF index[pos] = "undo"
     THEN /\ coins' = ApplyBlockUndo(pos, coins)
          /\ pos' = Parent[pos]
          /\ UNCHANGED pc
     ELSE pc' = "failed" /\ UNCHANGED <<coins, pos>>
  /\ UNCHANGED <<index, diskIndex, undo, best, db, dbSafe>>

ForkReached ==
  /\ pc = "rollback"
  /\ pos \in Ancestors[best]
  /\ pc' = "rollforward"
  /\ UNCHANGED <<index, diskIndex, undo, coins, best, db, dbSafe, pos>>

\* Variant of RollforwardBlock: starts one block too high.
Mut_RollforwardSkips ==
  /\ pc = "rollforward"
  /\ pos # best
  /\ LET b == NextTowards(pos, best)
         c == IF b = best THEN b ELSE NextTowards(b, best)
     IN  /\ coins' = Apply(c, coins)
         /\ pos' = c
  /\ UNCHANGED <<pc, index, diskIndex, undo, best, db, dbSafe>>

\* One block of the new branch is applied, whether or not it was already.
RollforwardBlock ==
  /\ pc = "rollforward"
  /\ pos # best
  /\ LET b == NextTowards(pos, best)
     IN  IF index[b] # "none"
         THEN /\ coins' = Apply(b, coins)
              /\ pos' = b
              /\ UNCHANGED pc
         ELSE pc' = "failed" /\ UNCHANGED <<coins, pos>>
  /\ UNCHANGED <<index, diskIndex, undo, best, db, dbSafe>>

\* cache.SetBestBlock and cache.Flush(), which can be interrupted in turn.
ReplayDone ==
  /\ pc = "rollforward"
  /\ pos = best
  /\ pc' = "replayFlush"
  /\ UNCHANGED <<index, diskIndex, undo, coins, best, db, dbSafe, pos>>

-----------------------------------------------------------------------------
\* A new node: genesis is in the block index, the coin database is empty.
Init ==
  /\ pc = "run"
  /\ index = [b \in Block |-> IF b = Genesis THEN "data" ELSE "none"]
  /\ diskIndex = index
  /\ undo = [b \in Block |-> NoUndo]
  /\ coins = Utxo[Genesis]
  /\ best = Genesis
  /\ db = [coins |-> Utxo[Genesis], best |-> Null, new |-> Null, old |-> Null]
  /\ dbSafe = db
  /\ pos = Null

Recovery == Start \/ StartReplay \/ RollbackBlock \/ ForkReached
              \/ RollforwardBlock \/ ReplayDone

Next ==
  \/ \E b \in Block \ {Genesis} : AcceptBlock(b) \/ ConnectTip(b)
  \/ DisconnectTip
  \/ FlushIndex
  \/ FlushAll
  \/ \E W \in SUBSET Dirty : WritePartialBatch(W)
  \/ WriteFinalBatch
  \/ SyncCoinsDB
  \/ Crash
  \/ Recovery

Spec == Init /\ [][Next]_vars

\* The thread that starts the node or flushes runs on: nothing in ReplayBlocks
\* or BatchWrite waits for anybody.
FairSpec == Spec /\ WF_vars(Recovery) /\ WF_vars(WriteFinalBatch)

-----------------------------------------------------------------------------
(* Properties.                                                              *)

\* Type invariant: the databases, the in-memory index and the replay position
\* stay well formed across crashes.
TypeOK ==
  /\ pc \in {"run", "flush", "down", "rollback", "rollforward", "replayFlush", "failed"}
  /\ index \in [Block -> IndexEntry]
  /\ diskIndex \in [Block -> IndexEntry]
  /\ undo \in [Block -> CoinMap]
  /\ coins \in CoinMap
  /\ best \in Block \cup {Null}
  /\ db \in Database
  /\ dbSafe \in Database
  /\ pos \in Block \cup {Null}
  /\ pc \in {"rollback", "rollforward"} => pos # Null
  /\ pc # "down" => best # Null

\* While the node runs, pcoinsTip holds exactly the outputs unspent after its
\* best block, whatever was disconnected, flushed, lost and replayed before.
CoinsMatchTip == pc \in {"run", "flush", "replayFlush"} => coins = Utxo[best]

\* What a coin database contains is described by its best block or its heads:
\* between two batches every coin has its value of the old or of the new tip.
Described(d) ==
  IF ~InTransition(d)
  THEN d.coins = UtxoOf(d.best)
  ELSE /\ d.best = Null
       /\ \A o \in OutPoint :
            d.coins[o] \in {Utxo[d.new][o], UtxoOf(d.old)[o]}

\* The coin database, and what a power loss would leave of it, is described by
\* its marks in every state, between any two batches of BatchWrite.
DatabaseDescribed == Described(db) /\ Described(dbSafe)

\* Starting the node never fails: the blocks the coin database refers to are in
\* the block index, and those to replay still have their block and undo data
\* ("reorganization to unknown block requested" and the other errors of
\* ReplayBlocks, and LoadChainTip's lookup).
AlwaysRecoverable == pc # "failed"

\* DisconnectTip of the running node is never refused: the tip has undo data
\* and undoing it finds every coin as ConnectBlock left it (DISCONNECT_OK).
DisconnectNeverRefused ==
  pc = "run" /\ best # Genesis => index[best] = "undo" /\ DisconnectClean(best, coins)

\* The assertion of BatchWrite: a replay that writes to a database in transition
\* moves it to the same new tip.
HeadsAgree ==
  pc \in {"flush", "replayFlush"} /\ InTransition(db) => db.new = best

\* The marks that BatchWrite leaves in the database are always right, for a
\* replay after a crash and for the flush that is under way.
DatabaseSound == DatabaseDescribed /\ HeadsAgree

\* Once crashes stop, a node that is starting finishes its recovery.
RecoveryCompletes == (<>[][~Crash]_vars) => (pc = "down" ~> pc = "run")
=============================================================================
