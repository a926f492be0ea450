------------------------------ MODULE BlockFiles ------------------------------
(***************************************************************************)
(* The block and undo files (blk?????.dat, rev?????.dat), the index entries *)
(* that point into them, and FlushStateToDisk, which syncs the files,       *)
(* writes the index, unlinks pruned files and writes the coins.  All of it  *)
(* runs under cs_main; what interrupts it is a power loss, after which a    *)
(* file keeps what was synced and any part of what was not.                 *)
(*                                                                          *)
(* What a file holds is a set of extents, each the data of one block; a     *)
(* write destroys the extents it overlaps.  Pre-allocated space holds       *)
(* nothing.  The size of a block includes its eight byte header, and a      *)
(* position is that of the header.                                          *)
(***************************************************************************)
EXTENDS BlockTree, Integers, FiniteSetsExt

CONSTANTS Size,             \* [Block -> Nat]: serialized size
          UndoSize,         \* [Block -> Nat]: size of the undo data
          MaxBlockFileSize, \* MAX_BLOCKFILE_SIZE
          MinBlocksToKeep,  \* MIN_BLOCKS_TO_KEEP
          PruneAfterHeight,
          PruneTarget,      \* nPruneTarget less the allocation buffer
          UnsignedRange,    \* 2^32: unsigned heights wrap
          MaxFile, MaxCrashes,
          Null

ASSUME BlockFilesAssumption ==
  /\ Size \in [Block -> Nat \ {0}] /\ UndoSize \in [Block -> Nat \ {0}]
  /\ MaxBlockFileSize \in Nat \ {0} /\ PruneTarget \in Nat /\ UnsignedRange \in Nat \ {0}
  /\ MinBlocksToKeep \in Nat /\ PruneAfterHeight \in Nat
  /\ MinBlocksToKeep <= PruneAfterHeight
  /\ MaxFile \in Nat /\ MaxCrashes \in Nat
  /\ Null \notin Nat

VARIABLES idx,       \* nFile, nDataPos and nUndoPos of each block
          info,      \* vinfoBlockFile
          last,      \* nLastBlockFile
          dirty,     \* setDirtyBlockIndex
          dirtyInfo, \* setDirtyFileInfo
          files,     \* extents in the files
          safe,      \* those that a power loss leaves
          db,        \* the block index database
          tip,
          coins,     \* best block of the coin database
          flush,     \* progress of FlushStateToDisk
          crashes

vars == <<idx, info, last, dirty, dirtyInfo, files, safe, db, tip, coins, flush, crashes>>

File == 0..MaxFile
CBlockFileInfo == [nBlocks : Nat, nSize : Nat, nUndoSize : Nat, nHeightLast : Nat]
NullInfo == [nBlocks |-> 0, nSize |-> 0, nUndoSize |-> 0, nHeightLast |-> 0]
NoPos == [nFile |-> Null, nDataPos |-> Null, nUndoPos |-> Null]
BlockPos == [nFile : File \cup {Null}, nDataPos : Nat \cup {Null}, nUndoPos : Nat \cup {Null}]

Extent(kind, f, at, b) ==
  [kind |-> kind, file |-> f, from |-> at, block |-> b,
   to |-> at + (IF kind = "blk" THEN Size[b] ELSE UndoSize[b])]
Overlap(x, y) == x.kind = y.kind /\ x.file = y.file /\ x.from < y.to /\ y.from < x.to

HasData(i, b) == i[b].nFile # Null
HasUndo(i, b) == i[b].nUndoPos # Null
DataExtent(i, b) == Extent("blk", i[b].nFile, i[b].nDataPos, b)
UndoExtent(i, b) == Extent("rev", i[b].nFile, i[b].nUndoPos, b)

Intact(S, x) == {e \in S : ~Overlap(e, x)}
Idle == flush.pc = "idle"

-----------------------------------------------------------------------------
(* Storing a block.                                                          *)

\* Wrong: the size of the new block is not taken into account.
Mut_FullAfter(b, f) == info[f].nSize >= MaxBlockFileSize

IsFull(b, f) == info[f].nSize > 0 /\ info[f].nSize + Size[b] >= MaxBlockFileSize

\* nLastBlockFile, or the next file that has room.
FileFor(b) == CHOOSE f \in last..(MaxFile + 1) : ~(f <= MaxFile /\ IsFull(b, f)) /\ \A g \in last..(f - 1) : IsFull(b, g)

AddBlock(i, b) ==
  [i EXCEPT !.nBlocks = @ + 1, !.nHeightLast = IF Height[b] > @ THEN Height[b] ELSE @,
            !.nSize = @ + Size[b]]

\* FlushBlockFile syncs the block and undo file of nLastBlockFile; when the
\* file is left it also cuts off what lies beyond the used part.
Truncated(S, f) ==
  {e \in S : e.file = f => e.to <= (IF e.kind = "blk" THEN info[f].nSize ELSE info[f].nUndoSize)}
Synced(S, f) == {e \in S : e.file = f}

\* Wrong: the file that is left is not synced.
Mut_LeaveUnsynced(f) == [files |-> files, safe |-> safe]

Left(f) ==
  IF f = last THEN [files |-> files, safe |-> safe]
  ELSE [files |-> Truncated(files, last), safe |-> Truncated(safe, last) \cup Synced(Truncated(files, last), last)]

SaveBlockToDisk(b) ==
  LET f == FileFor(b)
      x == Extent("blk", f, info[f].nSize, b)
  IN /\ f <= MaxFile
     /\ idx' = [idx EXCEPT ![b] = [nFile |-> f, nDataPos |-> x.from, nUndoPos |-> Null]]
     /\ info' = [info EXCEPT ![f] = AddBlock(@, b)]
     /\ last' = f
     /\ dirtyInfo' = dirtyInfo \cup {f}
     /\ dirty' = dirty \cup {b}
     /\ files' = Intact(Left(f).files, x) \cup {x}
     /\ safe' = Intact(Left(f).safe, x)

\* AcceptBlock stores a block that is not stored, or no longer.  Any such block
\* may have been requested: the conditions on unrequested ones are left out.
AcceptBlock(b) ==
  /\ Idle /\ ~HasData(idx, b)
  /\ SaveBlockToDisk(b)
  /\ UNCHANGED <<db, tip, coins, flush, crashes>>

-----------------------------------------------------------------------------
(* Connecting and disconnecting.                                             *)

\* Wrong: the new size of the undo file is not written with the index.
Mut_UndoInfoNotDirty(b) ==
  LET f == idx[b].nFile
      x == Extent("rev", f, info[f].nUndoSize, b)
  IN /\ idx' = [idx EXCEPT ![b].nUndoPos = x.from]
     /\ info' = [info EXCEPT ![f].nUndoSize = x.to]
     /\ dirty' = dirty \cup {b}
     /\ files' = Intact(files, x) \cup {x}
     /\ safe' = Intact(safe, x)
     /\ UNCHANGED dirtyInfo

\* The undo data of a block goes to the undo file with the number of the block's
\* file, which need not be nLastBlockFile.
WriteUndoDataForBlock(b) ==
  LET f == idx[b].nFile
      x == Extent("rev", f, info[f].nUndoSize, b)
  IN /\ idx' = [idx EXCEPT ![b].nUndoPos = x.from]
     /\ info' = [info EXCEPT ![f].nUndoSize = x.to]
     /\ dirtyInfo' = dirtyInfo \cup {f}
     /\ dirty' = dirty \cup {b}
     /\ files' = Intact(files, x) \cup {x}
     /\ safe' = Intact(safe, x)

ConnectTip(b) ==
  /\ Idle /\ b # Genesis /\ Parent[b] = tip
  /\ HasData(idx, b) /\ DataExtent(idx, b) \in files
  /\ tip' = b
  /\ IF HasUndo(idx, b) THEN UNCHANGED <<idx, info, dirtyInfo, dirty, files, safe>>
     ELSE WriteUndoDataForBlock(b)
  /\ UNCHANGED <<last, db, coins, flush, crashes>>

\* Reads the block and its undo data; without them the node stops.
DisconnectTip ==
  /\ Idle /\ tip # Genesis
  /\ HasUndo(idx, tip) /\ DataExtent(idx, tip) \in files /\ UndoExtent(idx, tip) \in files
  /\ tip' = Parent[tip]
  /\ UNCHANGED <<idx, info, last, dirty, dirtyInfo, files, safe, db, coins, flush, crashes>>

-----------------------------------------------------------------------------
(* FlushStateToDisk.                                                          *)

nLastBlockWeCanPrune == (Height[tip] - MinBlocksToKeep) % UnsignedRange

Usage(F) == MapThenSumSet(LAMBDA f : info[f].nSize + info[f].nUndoSize, F)

Prunable(upTo) == {f \in 0..(last - 1) : info[f].nSize # 0 /\ info[f].nHeightLast <= upTo}

\* Wrong: nothing is asked of the height of the tip, from which
\* MIN_BLOCKS_TO_KEEP is then subtracted.
Mut_FindFilesToPruneEarly ==
  {f \in Prunable(nLastBlockWeCanPrune) :
     Usage(File) - Usage({g \in Prunable(nLastBlockWeCanPrune) : g < f}) >= PruneTarget}

\* The oldest files, until the usage is below the target.
FindFilesToPrune ==
  {f \in Prunable(nLastBlockWeCanPrune) :
     /\ Height[tip] > PruneAfterHeight
     /\ Usage(File) - Usage({g \in Prunable(nLastBlockWeCanPrune) : g < f}) >= PruneTarget}

\* pruneblockchain with a height that the RPC accepts.
FindFilesToPruneManual(height) ==
  LET upTo == IF height < nLastBlockWeCanPrune THEN height ELSE nLastBlockWeCanPrune
  IN {f \in Prunable(upTo) : Height[tip] >= PruneAfterHeight /\ 0 < height /\ height <= Height[tip]}

\* Wrong: the undo position of a pruned block stays.
Mut_PruneKeepsUndoPos(i, F) ==
  [b \in Block |-> IF i[b].nFile \in F THEN [NoPos EXCEPT !.nUndoPos = i[b].nUndoPos] ELSE i[b]]

PruneOneBlockFile(i, F) == [b \in Block |-> IF i[b].nFile \in F THEN NoPos ELSE i[b]]

\* The decision, the pruning of the index, and FlushBlockFile.  P is the set of
\* files to prune; pruning forces a full flush.
FlushStateToDisk(P, full) ==
  /\ Idle
  /\ idx' = PruneOneBlockFile(idx, P)
  /\ info' = [f \in File |-> IF f \in P THEN NullInfo ELSE info[f]]
  /\ dirty' = dirty \cup {b \in Block : idx[b].nFile \in P}
  /\ dirtyInfo' = dirtyInfo \cup P
  /\ safe' = safe \cup Synced(files, last)
  /\ flush' = [pc |-> "write", prune |-> P, full |-> full \/ P # {}]
  /\ UNCHANGED <<last, files, db, tip, coins, crashes>>

\* WriteBatchSync: one atomic, synced batch.
WriteBatchSync ==
  /\ flush.pc = "write"
  /\ db' = [idx |-> [b \in Block |-> IF b \in dirty THEN idx[b] ELSE db.idx[b]],
            info |-> [f \in File |-> IF f \in dirtyInfo THEN info[f] ELSE db.info[f]],
            last |-> last]
  /\ dirty' = {} /\ dirtyInfo' = {}
  /\ flush' = [flush EXCEPT !.pc = "unlink"]
  /\ UNCHANGED <<idx, info, last, files, safe, tip, coins, crashes>>

UnlinkPrunedFiles ==
  /\ flush.pc = "unlink"
  /\ files' = {e \in files : e.file \notin flush.prune}
  /\ safe' = {e \in safe : e.file \notin flush.prune}
  /\ flush' = IF flush.full THEN [flush EXCEPT !.pc = "coins"] ELSE [pc |-> "idle", prune |-> {}, full |-> FALSE]
  /\ UNCHANGED <<idx, info, last, dirty, dirtyInfo, db, tip, coins, crashes>>

\* pcoinsTip->Flush(), atomic here: CoinsFlush models its batches.
FlushCoins ==
  /\ flush.pc = "coins"
  /\ coins' = tip
  /\ flush' = [pc |-> "idle", prune |-> {}, full |-> FALSE]
  /\ UNCHANGED <<idx, info, last, dirty, dirtyInfo, files, safe, db, tip, crashes>>

\* A power loss, and LoadBlockIndexDB and LoadChainTip at the next start.
CrashAndRestart ==
  /\ crashes < MaxCrashes
  /\ crashes' = crashes + 1
  /\ \E kept \in SUBSET (files \ safe) : files' = safe \cup kept
  /\ safe' = files'
  /\ idx' = db.idx /\ info' = db.info /\ last' = db.last
  /\ dirty' = {} /\ dirtyInfo' = {}
  /\ tip' = coins
  /\ flush' = [pc |-> "idle", prune |-> {}, full |-> FALSE]
  /\ UNCHANGED <<db, coins>>

-----------------------------------------------------------------------------
\* LoadGenesisBlock has stored the genesis block, and it was flushed.
Init ==
  LET x == Extent("blk", 0, 0, Genesis)
  IN /\ idx = [b \in Block |-> IF b = Genesis THEN [nFile |-> 0, nDataPos |-> 0, nUndoPos |-> Null] ELSE NoPos]
     /\ info = [f \in File |-> IF f = 0 THEN AddBlock(NullInfo, Genesis) ELSE NullInfo]
     /\ last = 0 /\ dirty = {} /\ dirtyInfo = {}
     /\ files = {x} /\ safe = {x}
     /\ db = [idx |-> idx, info |-> info, last |-> 0]
     /\ tip = Genesis /\ coins = Genesis
     /\ flush = [pc |-> "idle", prune |-> {}, full |-> FALSE]
     /\ crashes = 0

Flush ==
  \/ \E full \in BOOLEAN : FlushStateToDisk({}, full)
  \/ FindFilesToPrune # {} /\ FlushStateToDisk(FindFilesToPrune, TRUE)
  \/ \E height \in 1..Height[tip] :
       FindFilesToPruneManual(height) # {} /\ FlushStateToDisk(FindFilesToPruneManual(height), TRUE)
  \/ WriteBatchSync
  \/ UnlinkPrunedFiles
  \/ FlushCoins

Next ==
  \/ \E b \in Block : AcceptBlock(b) \/ ConnectTip(b)
  \/ DisconnectTip
  \/ Flush
  \/ CrashAndRestart

Spec == Init /\ [][Next]_vars

-----------------------------------------------------------------------------
\* The shape of the index and of the file information; undo data is kept only
\* with the block it belongs to.
TypeOK ==
  /\ idx \in [Block -> BlockPos] /\ info \in [File -> CBlockFileInfo] /\ last \in File
  /\ db \in [idx : [Block -> BlockPos], info : [File -> CBlockFileInfo], last : File]
  /\ dirty \subseteq Block /\ dirtyInfo \subseteq File
  /\ safe \subseteq files
  /\ tip \in Block /\ coins \in Block /\ crashes \in Nat
  /\ flush \in [pc : {"idle", "write", "unlink", "coins"}, prune : SUBSET File, full : BOOLEAN]
  /\ \A b \in Block : HasUndo(idx, b) => HasData(idx, b)

Indexed(i) == {DataExtent(i, b) : b \in {c \in Block : HasData(i, c)}}
              \cup {UndoExtent(i, b) : b \in {c \in Block : HasUndo(i, c)}}
EndOf(n, x) == IF x.kind = "blk" THEN n[x.file].nSize ELSE n[x.file].nUndoSize

\* No two index entries claim the same part of a file, and none reaches beyond
\* the used part that the file information records, in memory and in the
\* database that the next start will read: FindBlockPos and FindUndoPos append
\* behind the recorded end and would overwrite it.
ExtentsDisjoint ==
  \A i \in {<<idx, info>>, <<db.idx, db.info>>} :
    /\ \A x, y \in Indexed(i[1]) : x = y \/ ~Overlap(x, y)
    /\ \A x \in Indexed(i[1]) : x.to <= EndOf(i[2], x)

\* A block that the index says is stored can be read, whatever was pruned,
\* overwritten or lost in a crash.
DataReadable == \A b \in Block : HasData(idx, b) => DataExtent(idx, b) \in files

\* Undo data that the index says is stored can be read ("First make sure all
\* block and undo data is flushed to disk").
UndoReadable == \A b \in Block : HasUndo(idx, b) => UndoExtent(idx, b) \in files

\* Pruning takes no block within MIN_BLOCKS_TO_KEEP of the tip ("Block files
\* containing a block-height within MIN_BLOCKS_TO_KEEP of ::ChainActive().Tip()
\* will not be pruned").
PruneKeepsRecent ==
  [][\A b \in Block : (Idle /\ HasData(idx, b) /\ ~HasData(idx', b) /\ crashes' = crashes)
                        => Height[b] + MinBlocksToKeep <= Height[tip]]_vars

\* If the process dies while the coins are being flushed, ReplayBlocks rolls them
\* back from their old best block to the fork with the tip and forward from there,
\* and reads every block on the way.
ReplayReadable ==
  flush.pc = "coins" =>
    /\ \A b \in Ancestors[coins] \ Ancestors[tip] : HasData(db.idx, b) /\ HasUndo(db.idx, b)
    /\ \A b \in Ancestors[tip] \ Ancestors[coins] : HasData(db.idx, b)

\* A block file stays below MAX_BLOCKFILE_SIZE unless it holds a single block.
FileSizeBounded == \A f \in File : info[f].nSize < MaxBlockFileSize \/ info[f].nBlocks = 1

\* What FindBlockPos and FindUndoPos rely on: the recorded sizes cover every
\* extent the index refers to, no two extents overlap, and no file is over-full.
FilesConsistent == TypeOK /\ ExtentsDisjoint /\ FileSizeBounded
=============================================================================
