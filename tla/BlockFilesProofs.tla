--------------------------- MODULE BlockFilesProofs ---------------------------
(***************************************************************************)
(* The block files for any blocks, sizes, number of files and of crashes.   *)
(*                                                                          *)
(* DataReadable is not inductive: what a crash leaves readable depends on   *)
(* what was synced, and what the next start believes on what was written.   *)
(* So the invariant speaks of two indexes, in memory and in the database,   *)
(* and of two sets of extents, files and safe.  Sound is what one index and *)
(* its file information must satisfy by themselves.  The rest relates them: *)
(* what differs is dirty (Pending), the database refers only to what is     *)
(* synced, and but for a pruning that is about to be written, memory has    *)
(* everything that the database has (Covers).                               *)
(***************************************************************************)
EXTENDS BlockFiles, TLAPS

DataEnd(i, b) == i[b].nDataPos + Size[b]
UndoEnd(i, b) == i[b].nUndoPos + UndoSize[b]

\* Of an index i with file information n and last file l: what it has lies inside
\* the files, and the information knows the heights in each file.
Positions(i, n, l) ==
  \A b \in Block :
    /\ HasUndo(i, b) => HasData(i, b) /\ UndoEnd(i, b) <= n[i[b].nFile].nUndoSize
    /\ HasData(i, b) =>
         /\ i[b].nDataPos # Null /\ i[b].nFile <= l
         /\ DataEnd(i, b) <= n[i[b].nFile].nSize
         /\ Height[b] <= n[i[b].nFile].nHeightLast

\* No two blocks claim the same bytes.
Separate(i) ==
  \A b, c \in Block :
    b # c /\ i[b].nFile = i[c].nFile =>
      /\ HasData(i, b) /\ HasData(i, c) =>
           DataEnd(i, b) <= i[c].nDataPos \/ DataEnd(i, c) <= i[b].nDataPos
      /\ HasUndo(i, b) /\ HasUndo(i, c) =>
           UndoEnd(i, b) <= i[c].nUndoPos \/ UndoEnd(i, c) <= i[b].nUndoPos

\* A file over the limit holds one block, and the files after the last are empty.
Sizes(n, l) ==
  \A f \in File :
    /\ n[f].nSize < MaxBlockFileSize \/ n[f].nBlocks = 1
    /\ n[f].nSize = 0 => n[f].nBlocks = 0
    /\ f > l => n[f].nSize = 0

Sound(i, n, l) == Positions(i, n, l) /\ Separate(i) /\ Sizes(n, l)

\* The data of every block that the index has is in the set S of extents.
Stored(i, S) == \A b \in Block : HasData(i, b) => DataExtent(i, b) \in S

\* Memory and database agree on what is not dirty.
Pending ==
  /\ \A b \in Block \ dirty : idx[b] = db.idx[b]
  /\ \A f \in File \ dirtyInfo : info[f] = db.info[f]

\* Memory has every block that the database has, and at the same place.
Covers ==
  \A b \in Block : HasData(db.idx, b) =>
    idx[b].nFile = db.idx[b].nFile /\ idx[b].nDataPos = db.idx[b].nDataPos

\* The inductive invariant.
IInv ==
  /\ TypeOK
  /\ Sound(idx, info, last) /\ Sound(db.idx, db.info, db.last)
  /\ Stored(idx, files) /\ Stored(db.idx, safe)
  /\ \A b \in Block : HasData(idx, b) /\ idx[b].nFile # last => DataExtent(idx, b) \in safe
  /\ Pending
  /\ flush.pc = "write" => Stored(idx, safe)
  /\ flush.pc # "write" => Covers
  /\ flush.pc # "idle" => \A b \in Block : idx[b].nFile \notin flush.prune

-----------------------------------------------------------------------------
\* A block goes to nLastBlockFile or the file after it, which is empty; in
\* either case there is room for it.
LEMMA NextFile ==
  ASSUME TypeOK, Sizes(info, last), NEW b \in Block, FileFor(b) <= MaxFile
  PROVE  /\ FileFor(b) \in File /\ FileFor(b) \in {last, last + 1}
         /\ ~IsFull(b, FileFor(b))
<1> DEFINE Good(f) == ~(f <= MaxFile /\ IsFull(b, f)) /\ \A g \in last..(f - 1) : IsFull(b, g)
<1>1. last \in Nat /\ MaxFile \in Nat /\ last <= MaxFile
  BY BlockFilesAssumption DEF TypeOK, File
<1>2. ASSUME last + 1 <= MaxFile
      PROVE  ~IsFull(b, last + 1)
  BY <1>1, <1>2 DEF Sizes, IsFull, File
<1>3. \E f \in last..(MaxFile + 1) : Good(f)
  <2>1. CASE ~IsFull(b, last)
    <3>1. last \in last..(MaxFile + 1) /\ last..(last - 1) = {}
      BY <1>1
    <3> QED
      BY <2>1, <3>1
  <2>2. CASE IsFull(b, last)
    <3>1. last + 1 \in last..(MaxFile + 1) /\ last..((last + 1) - 1) = {last}
      BY <1>1
    <3> QED
      BY <1>1, <1>2, <2>2, <3>1
  <2> QED
    BY <2>1, <2>2
<1>4. FileFor(b) \in last..(MaxFile + 1) /\ Good(FileFor(b))
  BY <1>3 DEF FileFor
<1>5. ASSUME FileFor(b) > last + 1
      PROVE  FALSE
  <2>1. last + 1 \in last..(FileFor(b) - 1)
    BY <1>1, <1>4, <1>5
  <2> QED
    BY <1>1, <1>2, <1>4, <1>5, <2>1
<1> QED
  BY <1>1, <1>4, <1>5 DEF File

\* The positions of an index have types that arithmetic can use.
LEMMA PositionTypes ==
  ASSUME NEW i \in [Block -> BlockPos], NEW b \in Block
  PROVE  /\ Size[b] \in Nat /\ Size[b] > 0 /\ UndoSize[b] \in Nat /\ UndoSize[b] > 0 /\ Height[b] \in Nat
         /\ HasData(i, b) => i[b].nFile \in File
         /\ i[b].nDataPos # Null => i[b].nDataPos \in Nat
         /\ HasUndo(i, b) => i[b].nUndoPos \in Nat
BY BlockFilesAssumption, BlockTreeAssumption DEF BlockPos, HasData, HasUndo

LEMMA InfoTypes ==
  ASSUME NEW n \in [File -> CBlockFileInfo], NEW f \in File
  PROVE  /\ n[f].nBlocks \in Nat /\ n[f].nSize \in Nat /\ n[f].nUndoSize \in Nat
         /\ n[f].nHeightLast \in Nat
BY DEF CBlockFileInfo

\* CBlockFileInfo::AddBlock.
LEMMA AddBlockFields ==
  ASSUME NEW i \in CBlockFileInfo, NEW b \in Block
  PROVE  /\ AddBlock(i, b) \in CBlockFileInfo
         /\ AddBlock(i, b).nBlocks = i.nBlocks + 1 /\ AddBlock(i, b).nSize = i.nSize + Size[b]
         /\ AddBlock(i, b).nUndoSize = i.nUndoSize
         /\ AddBlock(i, b).nHeightLast >= i.nHeightLast /\ AddBlock(i, b).nHeightLast >= Height[b]
<1> DEFINE h == IF Height[b] > i.nHeightLast THEN Height[b] ELSE i.nHeightLast
<1>1. Size[b] \in Nat /\ Height[b] \in Nat
  BY BlockFilesAssumption, BlockTreeAssumption
<1>2. /\ i.nBlocks + 1 \in Nat /\ i.nSize + Size[b] \in Nat /\ i.nUndoSize \in Nat
      /\ h \in Nat /\ h >= i.nHeightLast /\ h >= Height[b]
  BY <1>1 DEF CBlockFileInfo
<1>3. /\ AddBlock(i, b) = [[[i EXCEPT !.nBlocks = i.nBlocks + 1] EXCEPT !.nHeightLast = h] EXCEPT !.nSize = i.nSize + Size[b]]
  BY DEF AddBlock, CBlockFileInfo
<1> HIDE DEF h
<1> QED
  BY <1>2, <1>3, ZenonT(30) DEF CBlockFileInfo

-----------------------------------------------------------------------------
(* What an operation does to one index and its file information.             *)

\* Storing a block at the end of a file that has room for it.
LEMMA DataAppended ==
  ASSUME NEW i \in [Block -> BlockPos], NEW n \in [File -> CBlockFileInfo], NEW l \in File,
         Sound(i, n, l), NEW b \in Block, ~HasData(i, b),
         NEW f \in File, f \in {l, l + 1}, n[f].nSize = 0 \/ n[f].nSize + Size[b] < MaxBlockFileSize,
         NEW j \in [Block -> BlockPos], \A c \in Block : c # b => j[c] = i[c],
         j[b].nFile = f, j[b].nDataPos = n[f].nSize, ~HasUndo(j, b),
         NEW m \in [File -> CBlockFileInfo], \A g \in File : g # f => m[g] = n[g],
         m[f].nBlocks = n[f].nBlocks + 1, m[f].nSize = n[f].nSize + Size[b], m[f].nUndoSize = n[f].nUndoSize,
         m[f].nHeightLast >= n[f].nHeightLast, m[f].nHeightLast >= Height[b]
  PROVE  Sound(j, m, f)
<1>1. /\ n[f].nSize \in Nat /\ n[f].nHeightLast \in Nat /\ m[f].nHeightLast \in Nat
      /\ Size[b] \in Nat /\ Size[b] > 0 /\ Height[b] \in Nat
  BY InfoTypes, PositionTypes
<1>2. f \in Nat /\ l \in Nat /\ Null \notin Nat /\ f # Null
  BY BlockFilesAssumption DEF File
<1>3. Positions(j, m, f)
  <2>1. HasData(j, b) /\ j[b].nDataPos # Null /\ DataEnd(j, b) <= m[f].nSize
    BY <1>1, <1>2 DEF HasData, DataEnd
  <2>2. ASSUME NEW c \in Block, c # b
        PROVE  /\ HasUndo(j, c) => HasData(j, c) /\ UndoEnd(j, c) <= m[j[c].nFile].nUndoSize
               /\ HasData(j, c) => /\ j[c].nDataPos # Null /\ j[c].nFile <= f
                                   /\ DataEnd(j, c) <= m[j[c].nFile].nSize
                                   /\ Height[c] <= m[j[c].nFile].nHeightLast
    <3>1. /\ HasData(j, c) = HasData(i, c) /\ HasUndo(j, c) = HasUndo(i, c)
          /\ DataEnd(j, c) = DataEnd(i, c) /\ UndoEnd(j, c) = UndoEnd(i, c) /\ j[c] = i[c]
      BY <2>2 DEF HasData, HasUndo, DataEnd, UndoEnd
    <3>2. /\ HasUndo(i, c) => HasData(i, c) /\ UndoEnd(i, c) <= n[i[c].nFile].nUndoSize
          /\ HasData(i, c) => /\ i[c].nDataPos # Null /\ i[c].nFile <= l
                              /\ DataEnd(i, c) <= n[i[c].nFile].nSize
                              /\ Height[c] <= n[i[c].nFile].nHeightLast
      BY DEF Sound, Positions
    <3>3. /\ Height[c] \in Nat
          /\ HasData(i, c) => i[c].nFile \in File /\ i[c].nFile \in Nat /\ DataEnd(i, c) \in Nat
      BY <3>2, PositionTypes DEF File, DataEnd
    <3>4. CASE i[c].nFile = f
      BY <1>1, <1>2, <3>1, <3>2, <3>3, <3>4
    <3>5. CASE i[c].nFile # f
      BY <1>2, <3>1, <3>2, <3>3, <3>5
    <3> QED
      BY <3>4, <3>5
  <2> QED
    BY <1>1, <1>2, <2>1, <2>2 DEF Positions
<1>4. Separate(j)
  <2>1. \A c \in Block : HasData(i, c) /\ i[c].nFile = f => DataEnd(i, c) <= n[f].nSize
    BY DEF Sound, Positions
  <2> QED
    BY <2>1 DEF Sound, Separate, HasData, HasUndo, DataEnd, UndoEnd
<1>5. Sizes(m, f)
  <2>1. ASSUME NEW g \in File, g # f
        PROVE  /\ m[g].nSize < MaxBlockFileSize \/ m[g].nBlocks = 1
               /\ m[g].nSize = 0 => m[g].nBlocks = 0
               /\ g > f => m[g].nSize = 0
    <3>1. g \in Nat
      BY DEF File
    <3> QED
      BY <1>2, <2>1, <3>1 DEF Sound, Sizes
  <2>2. /\ m[f].nSize < MaxBlockFileSize \/ m[f].nBlocks = 1
        /\ m[f].nSize # 0
    BY <1>1, InfoTypes DEF Sound, Sizes
  <2> QED
    BY <1>2, <2>1, <2>2 DEF Sizes
<1> QED
  BY <1>3, <1>4, <1>5 DEF Sound

\* What a sound index refers to lies in the used part of its file, so that data
\* appended to any file leaves it.
LEMMA WithinFile ==
  ASSUME NEW i \in [Block -> BlockPos], NEW n \in [File -> CBlockFileInfo], NEW l,
         Sound(i, n, l), NEW c \in Block, HasData(i, c)
  PROVE  /\ DataExtent(i, c).kind = "blk" /\ DataExtent(i, c).file = i[c].nFile
         /\ DataExtent(i, c).to \in Nat
         /\ DataExtent(i, c).to <= n[DataExtent(i, c).file].nSize
<1>1. /\ DataExtent(i, c).kind = "blk" /\ DataExtent(i, c).file = i[c].nFile
      /\ DataExtent(i, c).to = DataEnd(i, c)
  BY DEF DataExtent, Extent, DataEnd
<1>2. DataEnd(i, c) \in Nat /\ DataEnd(i, c) <= n[i[c].nFile].nSize
  BY PositionTypes DEF Sound, Positions, DataEnd
<1> QED
  BY <1>1, <1>2

LEMMA AppendKeeps ==
  ASSUME NEW i \in [Block -> BlockPos], NEW n \in [File -> CBlockFileInfo], NEW l,
         Sound(i, n, l), NEW c \in Block, HasData(i, c),
         NEW f \in File, NEW b, NEW S, DataExtent(i, c) \in S
  PROVE  DataExtent(i, c) \in Intact(S, Extent("blk", f, n[f].nSize, b))
<1> DEFINE e == DataExtent(i, c)
           x == Extent("blk", f, n[f].nSize, b)
<1>1. e.to \in Nat /\ e.to <= n[e.file].nSize
  BY WithinFile
<1>2. x.file = f /\ x.from = n[f].nSize /\ n[f].nSize \in Nat
  BY InfoTypes DEF Extent
<1> HIDE DEF e, x
<1>3. ~Overlap(e, x)
  BY <1>1, <1>2 DEF Overlap
<1> QED
  BY <1>3 DEF Intact, e, x

\* Storing the undo data of a block in the undo file with the number of its file.
UndoAdded(i, n, b, f, j, m) ==
  /\ \A c \in Block : c # b => j[c] = i[c]
  /\ \A c \in Block : j[c].nFile = i[c].nFile /\ j[c].nDataPos = i[c].nDataPos
  /\ j[b].nUndoPos = n[f].nUndoSize
  /\ m[f].nUndoSize = n[f].nUndoSize + UndoSize[b]
  /\ \A g \in File : /\ m[g].nBlocks = n[g].nBlocks /\ m[g].nSize = n[g].nSize
                     /\ m[g].nHeightLast = n[g].nHeightLast /\ (g # f => m[g] = n[g])

LEMMA UndoAppended ==
  ASSUME NEW i \in [Block -> BlockPos], NEW n \in [File -> CBlockFileInfo], NEW l \in File,
         Sound(i, n, l), NEW b \in Block, HasData(i, b), ~HasUndo(i, b),
         NEW f \in File, f = i[b].nFile,
         NEW j \in [Block -> BlockPos], NEW m \in [File -> CBlockFileInfo], UndoAdded(i, n, b, f, j, m)
  PROVE  Sound(j, m, l)
<1> USE DEF UndoAdded
<1>1. n[f].nUndoSize \in Nat /\ UndoSize[b] \in Nat
  BY PositionTypes, InfoTypes
<1>2. \A c \in Block : /\ HasData(j, c) = HasData(i, c) /\ DataEnd(j, c) = DataEnd(i, c)
                       /\ c # b => HasUndo(j, c) = HasUndo(i, c) /\ UndoEnd(j, c) = UndoEnd(i, c)
  BY DEF HasData, DataEnd, HasUndo, UndoEnd
<1>3. Positions(j, m, l)
  <2>1. ASSUME NEW c \in Block, HasData(j, c)
        PROVE  /\ j[c].nDataPos # Null /\ j[c].nFile <= l
               /\ DataEnd(j, c) <= m[j[c].nFile].nSize
               /\ Height[c] <= m[j[c].nFile].nHeightLast
    <3>1. HasData(i, c) /\ i[c].nFile \in File
      BY <1>2, <2>1, PositionTypes
    <3> QED
      BY <1>2, <3>1 DEF Sound, Positions
  <2>2. HasData(j, b) /\ UndoEnd(j, b) <= m[j[b].nFile].nUndoSize
    BY <1>1, <1>2 DEF UndoEnd
  <2>3. ASSUME NEW c \in Block, c # b, HasUndo(j, c)
        PROVE  HasData(j, c) /\ UndoEnd(j, c) <= m[j[c].nFile].nUndoSize
    <3>1. HasUndo(i, c) /\ HasData(i, c) /\ UndoEnd(i, c) <= n[i[c].nFile].nUndoSize
      BY <1>2, <2>3 DEF Sound, Positions
    <3>2. i[c].nFile \in File /\ UndoEnd(i, c) \in Nat
      BY <3>1, PositionTypes DEF UndoEnd
    <3>3. CASE i[c].nFile = f
      BY <1>1, <1>2, <2>3, <3>1, <3>2, <3>3
    <3>4. CASE i[c].nFile # f
      BY <1>2, <2>3, <3>1, <3>2, <3>4
    <3> QED
      BY <3>3, <3>4
  <2> QED
    BY <2>1, <2>2, <2>3 DEF Positions
<1>4. Separate(j)
  <2>1. \A c \in Block : HasUndo(i, c) /\ i[c].nFile = f => UndoEnd(i, c) <= n[f].nUndoSize
    BY DEF Sound, Positions
  <2> QED
    BY <1>2, <2>1 DEF Sound, Separate
<1>5. Sizes(m, l)
  BY DEF Sound, Sizes
<1> QED
  BY <1>3, <1>4, <1>5 DEF Sound

\* Pruning a set of files.
Pruned(i, n, P, j, m) ==
  /\ \A b \in Block : j[b] = IF i[b].nFile \in P THEN NoPos ELSE i[b]
  /\ \A f \in File : m[f] = IF f \in P THEN NullInfo ELSE n[f]

LEMMA FilesPruned ==
  ASSUME NEW i \in [Block -> BlockPos], NEW n \in [File -> CBlockFileInfo], NEW l \in File,
         Sound(i, n, l), NEW P \in SUBSET File,
         NEW j, NEW m, Pruned(i, n, P, j, m)
  PROVE  /\ Sound(j, m, l)
         /\ \A b \in Block : HasData(j, b) => HasData(i, b) /\ j[b] = i[b]
         /\ \A b \in Block : j[b].nFile \notin P
<1>1. Null \notin P
  <2>1. Null \notin File
    BY BlockFilesAssumption DEF File
  <2> QED
    BY <2>1
<1>2. /\ \A b \in Block : HasData(j, b) => HasData(i, b) /\ j[b] = i[b] /\ i[b].nFile \notin P
      /\ \A b \in Block : HasUndo(j, b) => HasUndo(i, b) /\ j[b] = i[b]
      /\ \A b \in Block : j[b].nFile \notin P
  BY <1>1 DEF Pruned, HasData, HasUndo, NoPos
<1>3. Positions(j, m, l)
  <2> SUFFICES ASSUME NEW b \in Block, HasData(j, b) \/ HasUndo(j, b)
               PROVE  /\ HasUndo(j, b) => HasData(j, b) /\ UndoEnd(j, b) <= m[j[b].nFile].nUndoSize
                      /\ HasData(j, b) => /\ j[b].nDataPos # Null /\ j[b].nFile <= l
                                          /\ DataEnd(j, b) <= m[j[b].nFile].nSize
                                          /\ Height[b] <= m[j[b].nFile].nHeightLast
    BY DEF Positions
  <2>1. /\ j[b] = i[b] /\ HasData(i, b) /\ HasUndo(j, b) = HasUndo(i, b) /\ HasData(j, b) = HasData(i, b)
        /\ DataEnd(j, b) = DataEnd(i, b) /\ UndoEnd(j, b) = UndoEnd(i, b)
    <3>1. j[b] = i[b]
      BY <1>2
    <3>2. HasUndo(i, b) => HasData(i, b)
      BY DEF Sound, Positions
    <3> QED
      BY <1>2, <3>1, <3>2 DEF HasUndo, HasData, DataEnd, UndoEnd
  <2>2. i[b].nFile \in File \ P
    BY <1>2, <2>1, PositionTypes
  <2> QED
    BY <2>1, <2>2 DEF Pruned, Sound, Positions
<1>4. Separate(j)
  BY <1>2 DEF Sound, Separate, DataEnd, UndoEnd
<1>5. Sizes(m, l)
  <2>1. NullInfo.nSize = 0 /\ NullInfo.nBlocks = 0 /\ 0 < MaxBlockFileSize
    BY BlockFilesAssumption DEF NullInfo
  <2> QED
    BY <2>1 DEF Pruned, Sound, Sizes
<1> QED
  BY <1>2, <1>3, <1>4, <1>5 DEF Sound

LEMMA ApartNoOverlap ==
  ASSUME NEW x, NEW y, x.from \in Nat, x.to \in Nat, y.from \in Nat, y.to \in Nat,
         x.file = y.file => x.to <= y.from \/ y.to <= x.from
  PROVE  ~Overlap(x, y)
BY DEF Overlap

\* One sound index gives what the properties say of it.
LEMMA SoundExtents ==
  ASSUME NEW i \in [Block -> BlockPos], NEW n \in [File -> CBlockFileInfo], NEW l, Sound(i, n, l)
  PROVE  /\ \A x, y \in Indexed(i) : x = y \/ ~Overlap(x, y)
         /\ \A x \in Indexed(i) : x.to <= EndOf(n, x)
<1>1. ASSUME NEW b \in Block
      PROVE  /\ DataExtent(i, b).kind = "blk" /\ DataExtent(i, b).file = i[b].nFile
             /\ DataExtent(i, b).from = i[b].nDataPos /\ DataExtent(i, b).to = DataEnd(i, b)
             /\ UndoExtent(i, b).kind = "rev" /\ UndoExtent(i, b).file = i[b].nFile
             /\ UndoExtent(i, b).from = i[b].nUndoPos /\ UndoExtent(i, b).to = UndoEnd(i, b)
  BY DEF DataExtent, UndoExtent, Extent, DataEnd, UndoEnd
<1>2. ASSUME NEW b \in Block
      PROVE  /\ HasData(i, b) => /\ i[b].nDataPos \in Nat /\ DataEnd(i, b) \in Nat
                                 /\ DataEnd(i, b) <= n[i[b].nFile].nSize
             /\ HasUndo(i, b) => /\ i[b].nUndoPos \in Nat /\ UndoEnd(i, b) \in Nat
                                 /\ UndoEnd(i, b) <= n[i[b].nFile].nUndoSize
  <2>1. /\ HasData(i, b) => i[b].nDataPos # Null /\ DataEnd(i, b) <= n[i[b].nFile].nSize
        /\ HasUndo(i, b) => UndoEnd(i, b) <= n[i[b].nFile].nUndoSize
    BY DEF Sound, Positions
  <2> QED
    BY <2>1, PositionTypes DEF DataEnd, UndoEnd
<1>3. ASSUME NEW b \in Block, NEW c \in Block, b # c
      PROVE  /\ HasData(i, b) /\ HasData(i, c) => ~Overlap(DataExtent(i, b), DataExtent(i, c))
             /\ HasUndo(i, b) /\ HasUndo(i, c) => ~Overlap(UndoExtent(i, b), UndoExtent(i, c))
  <2>1. i[b].nFile = i[c].nFile =>
          /\ HasData(i, b) /\ HasData(i, c) =>
               DataEnd(i, b) <= i[c].nDataPos \/ DataEnd(i, c) <= i[b].nDataPos
          /\ HasUndo(i, b) /\ HasUndo(i, c) =>
               UndoEnd(i, b) <= i[c].nUndoPos \/ UndoEnd(i, c) <= i[b].nUndoPos
    BY <1>3, ZenonT(30) DEF Sound, Separate
  <2>2. QED
    <3>1. HasData(i, b) /\ HasData(i, c) => ~Overlap(DataExtent(i, b), DataExtent(i, c))
      BY <1>1, <1>2, <2>1, ApartNoOverlap, ZenonT(30)
    <3>2. HasUndo(i, b) /\ HasUndo(i, c) => ~Overlap(UndoExtent(i, b), UndoExtent(i, c))
      BY <1>1, <1>2, <2>1, ApartNoOverlap, ZenonT(30)
    <3> QED
      BY <3>1, <3>2
<1>4. \A b, c \in Block : /\ ~Overlap(DataExtent(i, b), UndoExtent(i, c))
                          /\ ~Overlap(UndoExtent(i, b), DataExtent(i, c))
  BY <1>1 DEF Overlap
<1>5. \A x, y \in Indexed(i) : x = y \/ ~Overlap(x, y)
  BY <1>3, <1>4, ZenonT(30) DEF Indexed
<1>6. \A x \in Indexed(i) : x.to <= EndOf(n, x)
  BY <1>1, <1>2 DEF Indexed, EndOf
<1> QED
  BY <1>5, <1>6

-----------------------------------------------------------------------------
(* Storing a block.                                                          *)

LEMMA AcceptPreserves ==
  ASSUME IInv, NEW b \in Block, AcceptBlock(b)
  PROVE  IInv'
<1> DEFINE f == FileFor(b)
           x == Extent("blk", f, info[f].nSize, b)
<1>a. TypeOK /\ Sound(idx, info, last)
  BY DEF IInv
<1>b. Stored(idx, files) /\ Stored(db.idx, safe)
  BY DEF IInv
<1>t. idx \in [Block -> BlockPos] /\ info \in [File -> CBlockFileInfo] /\ last \in File /\ safe \subseteq files
  BY <1>a DEF TypeOK
<1>1. /\ f \in File /\ f \in {last, last + 1} /\ ~IsFull(b, f)
      /\ f \in Nat /\ last \in Nat
  <2>1. f <= MaxFile
    BY ZenonT(30) DEF AcceptBlock, SaveBlockToDisk
  <2>2. Sizes(info, last)
    BY <1>a, ZenonT(30) DEF Sound
  <2>3. f \in File /\ f \in {last, last + 1} /\ ~IsFull(b, f)
    BY <1>a, <2>1, <2>2, NextFile, ZenonT(30)
  <2> QED
    BY <1>t, <2>3, BlockFilesAssumption DEF File
<1>2. /\ x.kind = "blk" /\ x.file = f /\ x.from = info[f].nSize
      /\ x.block = b /\ x.to = info[f].nSize + Size[b]
  BY ZenonT(30) DEF Extent
<1>3. /\ idx' = [idx EXCEPT ![b] = [nFile |-> f, nDataPos |-> info[f].nSize, nUndoPos |-> Null]]
      /\ info' = [info EXCEPT ![f] = AddBlock(@, b)]
      /\ last' = f /\ dirtyInfo' = dirtyInfo \cup {f} /\ dirty' = dirty \cup {b}
      /\ files' = Intact(Left(f).files, x) \cup {x} /\ safe' = Intact(Left(f).safe, x)
      /\ UNCHANGED <<db, tip, coins, flush, crashes>>
      /\ flush.pc = "idle" /\ ~HasData(idx, b)
  BY <1>2, ZenonT(30) DEF AcceptBlock, SaveBlockToDisk, Idle
<1> HIDE DEF f, x
<1>4. /\ idx'[b] = [nFile |-> f, nDataPos |-> info[f].nSize, nUndoPos |-> Null]
      /\ \A c \in Block : c # b => idx'[c] = idx[c]
      /\ idx' \in [Block -> BlockPos]
  <2>1. [nFile |-> f, nDataPos |-> info[f].nSize, nUndoPos |-> Null] \in BlockPos
    BY <1>t, <1>1, InfoTypes, ZenonT(30) DEF BlockPos
  <2> QED
    BY <1>t, <1>3, <2>1, ZenonT(30)
<1>5. /\ info'[f] = AddBlock(info[f], b)
      /\ \A g \in File : g # f => info'[g] = info[g]
      /\ info' \in [File -> CBlockFileInfo]
  <2>1. AddBlock(info[f], b) \in CBlockFileInfo
    BY <1>t, <1>1, AddBlockFields
  <2> QED
    BY <1>t, <1>1, <1>3, <2>1
<1>6. /\ info'[f].nBlocks = info[f].nBlocks + 1 /\ info'[f].nSize = info[f].nSize + Size[b]
      /\ info'[f].nUndoSize = info[f].nUndoSize
      /\ info'[f].nHeightLast >= info[f].nHeightLast /\ info'[f].nHeightLast >= Height[b]
  <2>1. info[f] \in CBlockFileInfo
    BY <1>t, <1>1, ZenonT(30)
  <2> QED
    BY <1>5, <2>1, AddBlockFields
<1>7. Sound(idx', info', last')
  <2>1. info[f].nSize = 0 \/ info[f].nSize + Size[b] < MaxBlockFileSize
    BY <1>t, <1>1, InfoTypes, PositionTypes, BlockFilesAssumption DEF IsFull
  <2>2. idx'[b].nFile = f /\ idx'[b].nDataPos = info[f].nSize /\ ~HasUndo(idx', b)
    BY <1>4, SMTT(20) DEF HasUndo
  <2>3. Sound(idx', info', f)
    BY <1>a, <1>t, <1>1, <1>3, <1>4, <1>5, <1>6, <2>1, <2>2, DataAppended, ZenonT(30)
  <2> QED
    BY <1>3, <2>3
<1>8. ASSUME NEW c \in Block, HasData(idx, c)
       PROVE  /\ DataExtent(idx', c) = DataExtent(idx, c)
              /\ \A S : DataExtent(idx, c) \in S => DataExtent(idx, c) \in Intact(S, x)
              /\ \A S : DataExtent(idx, c) \in S => DataExtent(idx, c) \in Truncated(S, last)
  <2>1. DataExtent(idx', c) = DataExtent(idx, c)
    BY <1>3, <1>4, <1>8, ZenonT(30) DEF DataExtent
  <2>2. \A S : DataExtent(idx, c) \in S => DataExtent(idx, c) \in Intact(S, x)
    BY <1>a, <1>t, <1>1, <1>8, AppendKeeps, ZenonT(30) DEF x
  <2>3. /\ DataExtent(idx, c).kind = "blk"
        /\ DataExtent(idx, c).to <= info[DataExtent(idx, c).file].nSize
    BY <1>a, <1>t, <1>8, WithinFile, ZenonT(30)
  <2>4. \A S : DataExtent(idx, c) \in S => DataExtent(idx, c) \in Truncated(S, last)
    BY <2>3, ZenonT(30) DEF Truncated
  <2> QED
    BY <2>1, <2>2, <2>4, ZenonT(30)
<1>9. Stored(idx', files')
  <2>0. idx'[b].nFile = f /\ idx'[b].nDataPos = info[f].nSize
    BY <1>4
  <2>1. DataExtent(idx', b) = x
    BY <1>4, <2>0, ZenonT(30) DEF DataExtent, x
  <2>2. ASSUME NEW c \in Block, HasData(idx, c)
        PROVE  DataExtent(idx, c) \in files'
    <3>1. DataExtent(idx, c) \in Left(f).files
      BY <1>b, <1>8, <2>2 DEF Left, Stored
    <3> QED
      BY <1>3, <1>8, <2>2, <3>1, ZenonT(30)
  <2> QED
    BY <1>3, <1>4, <1>8, <2>1, <2>2, ZenonT(30) DEF Stored, HasData
<1>10. ASSUME NEW c \in Block, HasData(idx, c), DataExtent(idx, c) \in safe \/ (f # last /\ idx[c].nFile = last)
       PROVE  DataExtent(idx, c) \in safe'
  <2>1. DataExtent(idx, c) \in Left(f).safe
    <3>1. CASE DataExtent(idx, c) \in safe
      BY <1>8, <1>10, <3>1 DEF Left
    <3>2. CASE f # last /\ idx[c].nFile = last
      <4>1. DataExtent(idx, c) \in Truncated(files, last) /\ DataExtent(idx, c).file = last
        BY <1>b, <1>8, <1>10, <3>2, ZenonT(30) DEF Stored, DataExtent, Extent
      <4> QED
        BY <3>2, <4>1 DEF Left, Synced
    <3> QED
      BY <1>10, <3>1, <3>2
  <2> QED
    BY <1>3, <1>8, <1>10, <2>1
<1>11. \A c \in Block : HasData(idx', c) /\ idx'[c].nFile # last' => DataExtent(idx', c) \in safe'
  <2>1. \A c \in Block : HasData(idx, c) /\ idx[c].nFile # last => DataExtent(idx, c) \in safe
    BY ZenonT(30) DEF IInv
  <2> QED
    BY <1>3, <1>4, <1>8, <1>10, <2>1, ZenonT(30) DEF HasData
<1>12. Covers /\ Covers' /\ ~HasData(db.idx, b)
  <2>1. Covers
    BY <1>3 DEF IInv
  <2> QED
    BY <1>3, <1>4, <2>1, ZenonT(30) DEF Covers, HasData
<1>13. Stored(db.idx', safe')
  <2> SUFFICES ASSUME NEW c \in Block, HasData(db.idx, c)
               PROVE  DataExtent(db.idx, c) \in safe'
    BY <1>3 DEF Stored
  <2>1. HasData(idx, c) /\ DataExtent(db.idx, c) = DataExtent(idx, c)
    BY <1>12, ZenonT(30) DEF Covers, HasData, DataExtent
  <2> QED
    BY <1>b, <1>10, <2>1 DEF Stored
<1>14. Pending'
  <2>1. Pending
    BY DEF IInv
  <2> QED
    BY <1>3, <1>4, <1>5, <2>1 DEF Pending
<1>15. TypeOK'
  <2>1. safe' \subseteq files'
    BY <1>t, <1>3, ZenonT(30) DEF Left, Intact, Truncated, Synced
  <2>2. dirty' \subseteq Block /\ dirtyInfo' \subseteq File
    BY <1>a, <1>1, <1>3, ZenonT(30) DEF TypeOK
  <2>3. \A c \in Block : HasUndo(idx', c) => HasData(idx', c)
    BY <1>7, ZenonT(30) DEF Sound, Positions
  <2> QED
    BY <1>a, <1>1, <1>3, <1>4, <1>5, <2>1, <2>2, <2>3, ZenonT(30) DEF TypeOK
<1>16. Sound(db.idx', db.info', db.last')
  BY <1>3, ZenonT(30) DEF IInv
<1> QED
  BY <1>3, <1>7, <1>9, <1>11, <1>12, <1>13, <1>14, <1>15, <1>16, ZenonT(30) DEF IInv

-----------------------------------------------------------------------------
(* Connecting and disconnecting.                                             *)

LEMMA UndoPreserves ==
  ASSUME IInv, NEW b \in Block, flush.pc = "idle", HasData(idx, b), ~HasUndo(idx, b),
         WriteUndoDataForBlock(b), tip' \in Block,
         UNCHANGED <<last, db, coins, flush, crashes>>
  PROVE  IInv'
<1> DEFINE f == idx[b].nFile
           x == Extent("rev", f, info[f].nUndoSize, b)
<1>a. TypeOK /\ Sound(idx, info, last) /\ Sound(db.idx, db.info, db.last)
  BY DEF IInv
<1>t. idx \in [Block -> BlockPos] /\ info \in [File -> CBlockFileInfo] /\ last \in File
  BY <1>a DEF TypeOK
<1>1. f \in File /\ f # Null /\ info[f] \in CBlockFileInfo /\ info[f].nUndoSize \in Nat /\ UndoSize[b] \in Nat
  BY <1>t, PositionTypes, InfoTypes DEF HasData
<1>2. /\ x.kind = "rev" /\ x.from = info[f].nUndoSize /\ x.to = info[f].nUndoSize + UndoSize[b]
  BY DEF Extent
<1>3. /\ idx' = [idx EXCEPT ![b].nUndoPos = info[f].nUndoSize]
      /\ info' = [info EXCEPT ![f].nUndoSize = info[f].nUndoSize + UndoSize[b]]
      /\ dirtyInfo' = dirtyInfo \cup {f} /\ dirty' = dirty \cup {b}
      /\ files' = Intact(files, x) \cup {x} /\ safe' = Intact(safe, x)
  BY <1>2, ZenonT(30) DEF WriteUndoDataForBlock
<1> HIDE DEF f, x
<1>4. /\ \A c \in Block : idx'[c].nFile = idx[c].nFile /\ idx'[c].nDataPos = idx[c].nDataPos
      /\ \A c \in Block : c # b => idx'[c] = idx[c]
      /\ idx'[b].nUndoPos = info[f].nUndoSize /\ idx'[b].nFile = f
      /\ idx' \in [Block -> BlockPos]
  BY <1>t, <1>1, <1>3 DEF BlockPos, f
<1>5. /\ \A g \in File : /\ info'[g].nBlocks = info[g].nBlocks /\ info'[g].nSize = info[g].nSize
                         /\ info'[g].nHeightLast = info[g].nHeightLast
      /\ \A g \in File : g # f => info'[g] = info[g]
      /\ info'[f].nUndoSize = info[f].nUndoSize + UndoSize[b]
      /\ info' \in [File -> CBlockFileInfo]
  BY <1>t, <1>1, <1>3 DEF CBlockFileInfo
<1>6. Sound(idx', info', last)
  <2>1. f = idx[b].nFile
    BY DEF f
  <2>2. UndoAdded(idx, info, b, f, idx', info')
    BY <1>4, <1>5, ZenonT(30) DEF UndoAdded
  <2> QED
    BY <1>a, <1>t, <1>1, <1>4, <1>5, <2>1, <2>2, UndoAppended, ZenonT(30)
<1>7. \A c \in Block : HasData(idx', c) = HasData(idx, c) /\ DataExtent(idx', c) = DataExtent(idx, c)
  BY <1>4, ZenonT(30) DEF HasData, DataExtent
<1>8. ASSUME NEW c \in Block, NEW i, NEW S, DataExtent(i, c) \in S
       PROVE  DataExtent(i, c) \in Intact(S, x)
  <2>1. DataExtent(i, c).kind = "blk"
    BY DEF DataExtent, Extent
  <2> QED
    BY <1>2, <1>8, <2>1, ZenonT(30) DEF Intact, Overlap
<1>9. /\ Stored(idx', files') /\ Stored(db.idx', safe')
       /\ \A c \in Block : HasData(idx', c) /\ idx'[c].nFile # last' => DataExtent(idx', c) \in safe'
  <2>1. /\ Stored(idx, files) /\ Stored(db.idx, safe)
        /\ \A c \in Block : HasData(idx, c) /\ idx[c].nFile # last => DataExtent(idx, c) \in safe
    BY DEF IInv
  <2> QED
    BY <1>3, <1>4, <1>7, <1>8, <2>1, ZenonT(30) DEF Stored
<1>10. Pending' /\ Covers'
  <2>1. Pending /\ Covers
    BY DEF IInv
  <2>2. Pending'
    BY <1>3, <1>4, <1>5, <2>1 DEF Pending
  <2> QED
    BY <1>4, <2>1, <2>2, ZenonT(30) DEF Covers
<1>11. TypeOK'
  <2>1. safe' \subseteq files' /\ dirty' \subseteq Block /\ dirtyInfo' \subseteq File
    BY <1>a, <1>1, <1>3 DEF TypeOK, Intact
  <2>2. \A c \in Block : HasUndo(idx', c) => HasData(idx', c)
    BY <1>6, ZenonT(30) DEF Sound, Positions
  <2> QED
    BY <1>a, <1>4, <1>5, <2>1, <2>2, ZenonT(30) DEF TypeOK
<1>12. Sound(idx', info', last') /\ Sound(db.idx', db.info', db.last')
  BY <1>a, <1>6, ZenonT(30)
<1> QED
  BY <1>9, <1>10, <1>11, <1>12, ZenonT(30) DEF IInv

\* A step that changes nothing but the tip, the coins or the progress of a flush
\* beyond its index part.
LEMMA OthersPreserve ==
  ASSUME IInv, tip' \in Block, coins' \in Block, UNCHANGED <<idx, info, last, dirty, dirtyInfo, files, safe, db, crashes>>,
         flush' = flush \/ (flush.pc # "write" /\ flush' = [pc |-> "idle", prune |-> {}, full |-> FALSE])
  PROVE  IInv'
<1>a. TypeOK /\ Pending /\ (flush.pc # "write" => Covers)
  BY DEF IInv
<1>1. /\ flush' \in [pc : {"idle", "write", "unlink", "coins"}, prune : SUBSET File, full : BOOLEAN]
      /\ flush'.pc = "write" => flush' = flush
      /\ flush'.pc # "idle" => flush' = flush
      /\ flush'.pc # "write" => flush.pc # "write"
  <2>1. [pc |-> "idle", prune |-> {}, full |-> FALSE] \in
          [pc : {"idle", "write", "unlink", "coins"}, prune : SUBSET File, full : BOOLEAN]
    BY ZenonT(30)
  <2>2. flush \in [pc : {"idle", "write", "unlink", "coins"}, prune : SUBSET File, full : BOOLEAN]
    BY <1>a DEF TypeOK
  <2> QED
    BY <2>1, <2>2, ZenonT(30)
<1>2. TypeOK'
  BY <1>a, <1>1, ZenonT(30) DEF TypeOK
<1>3. Pending' /\ (flush'.pc # "write" => Covers')
  BY <1>a, <1>1, ZenonT(30) DEF Pending, Covers
<1> QED
  BY <1>1, <1>2, <1>3, ZenonT(30) DEF IInv

LEMMA ConnectPreserves ==
  ASSUME IInv, NEW b \in Block, ConnectTip(b) \/ DisconnectTip
  PROVE  IInv'
<1>1. tip' \in Block
  <2>1. tip # Genesis => Parent[tip] \in Block
    BY BlockTreeAssumption DEF IInv, TypeOK
  <2> QED
    BY <2>1, ZenonT(30) DEF ConnectTip, DisconnectTip
<1>2. CASE ConnectTip(b) /\ ~HasUndo(idx, b)
  BY <1>1, <1>2, UndoPreserves, ZenonT(30) DEF ConnectTip, Idle
<1>3. CASE DisconnectTip \/ (ConnectTip(b) /\ HasUndo(idx, b))
  BY <1>1, <1>3, OthersPreserve, ZenonT(30) DEF ConnectTip, DisconnectTip, IInv, TypeOK
<1> QED
  BY <1>2, <1>3

-----------------------------------------------------------------------------
(* FlushStateToDisk.                                                          *)

LEMMA DecidePreserves ==
  ASSUME IInv, NEW P \in SUBSET File, NEW full \in BOOLEAN, FlushStateToDisk(P, full)
  PROVE  IInv'
<1>a. TypeOK /\ Sound(idx, info, last) /\ Sound(db.idx, db.info, db.last)
  BY DEF IInv
<1>b. /\ Stored(idx, files) /\ Stored(db.idx, safe)
      /\ \A c \in Block : HasData(idx, c) /\ idx[c].nFile # last => DataExtent(idx, c) \in safe
  BY DEF IInv
<1>t. idx \in [Block -> BlockPos] /\ info \in [File -> CBlockFileInfo] /\ last \in File
  BY <1>a DEF TypeOK
<1>1. /\ UNCHANGED <<last, files, db, tip, coins, crashes>> /\ safe' = safe \cup Synced(files, last)
      /\ idx' = PruneOneBlockFile(idx, P) /\ info' = [f \in File |-> IF f \in P THEN NullInfo ELSE info[f]]
      /\ dirty' = dirty \cup {b \in Block : idx[b].nFile \in P} /\ dirtyInfo' = dirtyInfo \cup P
      /\ flush' = [pc |-> "write", prune |-> P, full |-> full \/ P # {}]
  BY ZenonT(30) DEF FlushStateToDisk
<1>2. /\ idx' \in [Block -> BlockPos] /\ info' \in [File -> CBlockFileInfo] /\ Sound(idx', info', last)
      /\ \A b \in Block : HasData(idx', b) => HasData(idx, b) /\ idx'[b] = idx[b]
      /\ \A b \in Block : idx'[b].nFile \notin P /\ (idx[b].nFile \notin P => idx'[b] = idx[b])
      /\ \A f \in File \ P : info'[f] = info[f]
  <2>1. NoPos \in BlockPos /\ NullInfo \in CBlockFileInfo
    BY DEF NoPos, BlockPos, NullInfo, CBlockFileInfo
  <2>2. \A b \in Block : idx'[b] = IF idx[b].nFile \in P THEN NoPos ELSE idx[b]
    BY <1>1, ZenonT(30) DEF PruneOneBlockFile
  <2>3. \A f \in File : info'[f] = IF f \in P THEN NullInfo ELSE info[f]
    BY <1>1, ZenonT(30)
  <2>4. idx' \in [Block -> BlockPos] /\ info' \in [File -> CBlockFileInfo]
    BY <1>t, <1>1, <2>1 DEF PruneOneBlockFile
  <2>5. /\ Sound(idx', info', last) /\ \A b \in Block : HasData(idx', b) => HasData(idx, b) /\ idx'[b] = idx[b]
        /\ \A b \in Block : idx'[b].nFile \notin P
    <3>1. Pruned(idx, info, P, idx', info')
      BY <2>2, <2>3, ZenonT(30) DEF Pruned
    <3> QED
      BY <1>a, <1>t, <3>1, FilesPruned, ZenonT(30)
  <2> QED
    BY <2>2, <2>3, <2>4, <2>5, ZenonT(30)
<1>3. /\ flush' \in [pc : {"idle", "write", "unlink", "coins"}, prune : SUBSET File, full : BOOLEAN]
      /\ flush'.pc = "write" /\ flush'.prune = P
  <2>1. (full \/ P # {}) \in BOOLEAN
    OBVIOUS
  <2> QED
    BY <1>1, <2>1
<1>4. \A b \in Block : HasData(idx', b) => DataExtent(idx', b) = DataExtent(idx, b)
  BY <1>2, ZenonT(30) DEF DataExtent
<1>5. Stored(idx', files') /\ Stored(db.idx', safe')
  BY <1>b, <1>1, <1>2, <1>4, ZenonT(30) DEF Stored
<1>6. Stored(idx', safe')
  <2>1. ASSUME NEW b \in Block, HasData(idx, b), idx[b].nFile = last
        PROVE  DataExtent(idx, b) \in Synced(files, last)
    <3>1. DataExtent(idx, b).file = idx[b].nFile
      BY DEF DataExtent, Extent
    <3> QED
      BY <1>b, <2>1, <3>1, ZenonT(30) DEF Stored, Synced
  <2> QED
    BY <1>b, <1>1, <1>2, <1>4, <2>1, ZenonT(30) DEF Stored
<1>7. Pending'
  <2>1. Pending
    BY DEF IInv
  <2> QED
    BY <1>1, <1>2, <2>1, ZenonT(30) DEF Pending
<1>8. TypeOK'
  <2>1. safe' \subseteq files' /\ dirty' \subseteq Block /\ dirtyInfo' \subseteq File
    BY <1>a, <1>1, ZenonT(30) DEF TypeOK, Synced
  <2>2. \A b \in Block : HasUndo(idx', b) => HasData(idx', b)
    BY <1>2, ZenonT(30) DEF Sound, Positions
  <2> QED
    BY <1>a, <1>1, <1>2, <1>3, <2>1, <2>2, ZenonT(30) DEF TypeOK
<1>9. Sound(idx', info', last') /\ Sound(db.idx', db.info', db.last')
  BY <1>a, <1>1, <1>2, ZenonT(30)
<1> QED
  BY <1>2, <1>3, <1>5, <1>6, <1>7, <1>8, <1>9, ZenonT(30) DEF IInv, Stored

LEMMA WritePreserves ==
  ASSUME IInv, WriteBatchSync
  PROVE  IInv'
<1>a. TypeOK /\ Sound(idx, info, last) /\ Stored(idx, files) /\ Pending
  BY DEF IInv
<1>b. Stored(idx, safe) /\ \A b \in Block : idx[b].nFile \notin flush.prune
  BY DEF IInv, WriteBatchSync
<1>1. /\ UNCHANGED <<idx, info, last, files, safe, tip, coins, crashes>> /\ dirty' = {} /\ dirtyInfo' = {}
      /\ flush' = [flush EXCEPT !.pc = "unlink"]
  BY ZenonT(30) DEF WriteBatchSync
<1>2. db' = [idx |-> idx, info |-> info, last |-> last]
  <2>1. idx = [b \in Block |-> IF b \in dirty THEN idx[b] ELSE db.idx[b]]
    BY <1>a DEF TypeOK, Pending
  <2>2. info = [f \in File |-> IF f \in dirtyInfo THEN info[f] ELSE db.info[f]]
    BY <1>a DEF TypeOK, Pending
  <2> QED
    BY <2>1, <2>2, ZenonT(30) DEF WriteBatchSync
<1>3. db'.idx = idx /\ db'.info = info /\ db'.last = last
      /\ db' \in [idx : [Block -> BlockPos], info : [File -> CBlockFileInfo], last : File]
  <2>1. idx \in [Block -> BlockPos] /\ info \in [File -> CBlockFileInfo] /\ last \in File
    BY <1>a DEF TypeOK
  <2> QED
    BY <1>2, <2>1
<1>4. /\ flush'.pc = "unlink" /\ flush'.prune = flush.prune
      /\ flush' \in [pc : {"idle", "write", "unlink", "coins"}, prune : SUBSET File, full : BOOLEAN]
  <2>1. flush \in [pc : {"idle", "write", "unlink", "coins"}, prune : SUBSET File, full : BOOLEAN]
    BY <1>a DEF TypeOK
  <2> QED
    BY <1>1, <2>1
<1>5. TypeOK'
  BY <1>a, <1>1, <1>3, <1>4, ZenonT(30) DEF TypeOK
<1>6. Sound(idx', info', last') /\ Sound(db.idx', db.info', db.last')
  BY <1>a, <1>1, <1>3, ZenonT(30)
<1>7. Stored(idx', files') /\ Stored(db.idx', safe') /\ Stored(idx', safe')
  BY <1>a, <1>b, <1>1, <1>3, ZenonT(30)
<1>8. Pending' /\ Covers'
  BY <1>1, <1>3, ZenonT(30) DEF Pending, Covers
<1> QED
  BY <1>b, <1>1, <1>4, <1>5, <1>6, <1>7, <1>8, ZenonT(30) DEF IInv, Stored

LEMMA UnlinkPreserves ==
  ASSUME IInv, UnlinkPrunedFiles
  PROVE  IInv'
<1>a. TypeOK /\ Sound(idx, info, last) /\ Sound(db.idx, db.info, db.last) /\ Pending
  BY DEF IInv
<1>b. /\ Stored(idx, files) /\ Stored(db.idx, safe)
      /\ \A c \in Block : HasData(idx, c) /\ idx[c].nFile # last => DataExtent(idx, c) \in safe
  BY DEF IInv
<1>c. Covers /\ \A b \in Block : idx[b].nFile \notin flush.prune
  BY DEF IInv, UnlinkPrunedFiles
<1>1. /\ files' = {e \in files : e.file \notin flush.prune} /\ safe' = {e \in safe : e.file \notin flush.prune}
      /\ UNCHANGED <<idx, info, last, dirty, dirtyInfo, db, tip, coins, crashes>> /\ flush.pc = "unlink"
      /\ flush' = IF flush.full THEN [flush EXCEPT !.pc = "coins"] ELSE [pc |-> "idle", prune |-> {}, full |-> FALSE]
  BY ZenonT(30) DEF UnlinkPrunedFiles
<1>2. /\ flush' \in [pc : {"idle", "write", "unlink", "coins"}, prune : SUBSET File, full : BOOLEAN]
      /\ flush'.pc \in {"coins", "idle"} /\ (flush'.pc # "idle" => flush'.prune = flush.prune)
  <2>1. flush \in [pc : {"idle", "write", "unlink", "coins"}, prune : SUBSET File, full : BOOLEAN]
    BY <1>a DEF TypeOK
  <2>2. CASE flush.full
    BY <1>1, <2>1, <2>2
  <2>3. CASE ~flush.full
    <3>1. flush' = [pc |-> "idle", prune |-> {}, full |-> FALSE]
      BY <1>1, <2>3
    <3> QED
      BY <3>1
  <2> QED
    BY <2>2, <2>3
<1>3. TypeOK'
  <2>1. safe' \subseteq files'
    BY <1>a, <1>1, ZenonT(30) DEF TypeOK
  <2> QED
    BY <1>a, <1>1, <1>2, <2>1, ZenonT(30) DEF TypeOK
<1>4. ASSUME NEW b \in Block, NEW S, DataExtent(idx, b) \in S
      PROVE  DataExtent(idx, b) \in {e \in S : e.file \notin flush.prune}
  <2>1. DataExtent(idx, b).file = idx[b].nFile
    BY DEF DataExtent, Extent
  <2> QED
    BY <1>c, <1>4, <2>1, ZenonT(30)
<1>5. \A b \in Block : HasData(db.idx, b) => HasData(idx, b) /\ DataExtent(db.idx, b) = DataExtent(idx, b)
  BY <1>c, ZenonT(30) DEF Covers, HasData, DataExtent
<1>6. Stored(idx', files') /\ Stored(db.idx', safe')
  BY <1>b, <1>1, <1>4, <1>5, ZenonT(30) DEF Stored
<1>7. \A b \in Block : HasData(idx', b) /\ idx'[b].nFile # last' => DataExtent(idx', b) \in safe'
  BY <1>b, <1>1, <1>4, ZenonT(30)
<1>8. Pending' /\ Covers'
  BY <1>a, <1>c, <1>1, ZenonT(30) DEF Pending, Covers
<1>9. flush'.pc # "write"
  BY <1>2
<1> QED
  BY <1>a, <1>c, <1>1, <1>2, <1>3, <1>6, <1>7, <1>8, <1>9, ZenonT(30) DEF IInv

LEMMA CrashPreserves ==
  ASSUME IInv, CrashAndRestart
  PROVE  IInv'
<1>a. TypeOK /\ Sound(db.idx, db.info, db.last) /\ Stored(db.idx, safe)
  BY DEF IInv
<1>1. /\ safe \subseteq files' /\ safe' = files' /\ idx' = db.idx /\ info' = db.info /\ last' = db.last
      /\ dirty' = {} /\ dirtyInfo' = {} /\ tip' = coins /\ db' = db /\ coins' = coins /\ crashes' = crashes + 1
      /\ flush' = [pc |-> "idle", prune |-> {}, full |-> FALSE]
  BY DEF CrashAndRestart
<1>2. /\ flush' \in [pc : {"idle", "write", "unlink", "coins"}, prune : SUBSET File, full : BOOLEAN]
      /\ flush'.pc = "idle"
  BY <1>1
<1>3. TypeOK'
  <2>1. db.idx \in [Block -> BlockPos] /\ db.info \in [File -> CBlockFileInfo] /\ db.last \in File
    BY <1>a DEF TypeOK
  <2>2. crashes' \in Nat
    BY <1>a, <1>1 DEF TypeOK
  <2>3. \A b \in Block : HasUndo(db.idx, b) => HasData(db.idx, b)
    BY <1>a, ZenonT(30) DEF Sound, Positions
  <2> QED
    BY <1>a, <1>1, <1>2, <2>1, <2>2, <2>3, ZenonT(30) DEF TypeOK
<1>4. Sound(idx', info', last') /\ Sound(db.idx', db.info', db.last')
  BY <1>a, <1>1, ZenonT(30)
<1>5. Stored(idx', files') /\ Stored(db.idx', safe')
  BY <1>a, <1>1, ZenonT(30) DEF Stored
<1>6. Pending' /\ Covers'
  BY <1>1, ZenonT(30) DEF Pending, Covers
<1> QED
  BY <1>1, <1>2, <1>3, <1>4, <1>5, <1>6, ZenonT(30) DEF IInv, Stored

-----------------------------------------------------------------------------
(* The theorems.                                                             *)

\* Pruning, automatic or by command, takes files below nLastBlockFile whose
\* blocks are all MIN_BLOCKS_TO_KEEP below the tip: the unsigned difference
\* does not wrap above PruneAfterHeight.
LEMMA PrunedFilesAreOld ==
  ASSUME IInv, NEW P, \/ P = FindFilesToPrune
                      \/ \E height \in 1..Height[tip] : P = FindFilesToPruneManual(height)
  PROVE  /\ P \in SUBSET File
         /\ \A f \in P : info[f].nHeightLast + MinBlocksToKeep <= Height[tip]
<1>1. /\ Height[tip] \in Nat /\ MinBlocksToKeep \in Nat /\ UnsignedRange \in Nat \ {0}
      /\ PruneAfterHeight \in Nat /\ MinBlocksToKeep <= PruneAfterHeight
      /\ last \in Nat /\ last <= MaxFile /\ MaxFile \in Nat
  <2>1. tip \in Block /\ last \in File
    BY ZenonT(30) DEF IInv, TypeOK
  <2> QED
    BY <2>1, BlockTreeAssumption, BlockFilesAssumption DEF File
<1>2. \A f \in 0..(last - 1) : f \in File /\ info[f].nHeightLast \in Nat
  BY <1>1, InfoTypes DEF IInv, TypeOK, File
<1>3. ASSUME Height[tip] >= PruneAfterHeight
      PROVE  nLastBlockWeCanPrune \in Nat /\ nLastBlockWeCanPrune <= Height[tip] - MinBlocksToKeep
  <2>1. \A a \in Nat, n \in Nat \ {0} : a % n \in Nat /\ a % n <= a
    OBVIOUS
  <2>2. Height[tip] - MinBlocksToKeep \in Nat
    BY <1>1, <1>3
  <2> QED
    BY <1>1, <2>1, <2>2 DEF nLastBlockWeCanPrune
<1>4. CASE P = FindFilesToPrune
  BY <1>1, <1>2, <1>3, <1>4 DEF FindFilesToPrune, Prunable
<1>5. ASSUME NEW height \in 1..Height[tip], P = FindFilesToPruneManual(height)
      PROVE  /\ P \in SUBSET File
             /\ \A f \in P : info[f].nHeightLast + MinBlocksToKeep <= Height[tip]
  BY <1>1, <1>2, <1>3, <1>5 DEF FindFilesToPruneManual, Prunable
<1> QED
  BY <1>4, <1>5, ZenonT(30)

LEMMA InitIInv ==
  ASSUME Init
  PROVE  IInv
<1>1. /\ \A b \in Block : b # Genesis => idx[b] = NoPos
      /\ idx[Genesis].nFile = 0 /\ idx[Genesis].nDataPos = 0 /\ idx[Genesis].nUndoPos = Null
      /\ idx \in [Block -> BlockPos] /\ 0 \in File
  <2>1. idx = [b \in Block |-> IF b = Genesis THEN [nFile |-> 0, nDataPos |-> 0, nUndoPos |-> Null] ELSE NoPos]
    BY DEF Init
  <2>3. 0 \in File
    BY BlockFilesAssumption DEF File
  <2>4. NoPos \in BlockPos /\ [nFile |-> 0, nDataPos |-> 0, nUndoPos |-> Null] \in BlockPos
    BY <2>3 DEF NoPos, BlockPos
  <2> QED
    BY <2>1, <2>3, <2>4, BlockTreeAssumption, ZenonT(30)
<1>2. /\ \A f \in File : f # 0 => info[f] = NullInfo
      /\ info[0].nBlocks = 1 /\ info[0].nSize = Size[Genesis] /\ info[0].nHeightLast \in Nat
      /\ info \in [File -> CBlockFileInfo]
  <2>1. NullInfo \in CBlockFileInfo /\ Genesis \in Block /\ Size[Genesis] \in Nat
    BY BlockTreeAssumption, BlockFilesAssumption, ZenonT(30) DEF NullInfo, CBlockFileInfo
  <2>2. info = [f \in File |-> IF f = 0 THEN AddBlock(NullInfo, Genesis) ELSE NullInfo]
    BY ZenonT(30) DEF Init
  <2>3. AddBlock(NullInfo, Genesis).nBlocks = 1 /\ AddBlock(NullInfo, Genesis).nSize = Size[Genesis]
    BY <2>1, AddBlockFields DEF NullInfo
  <2>4. AddBlock(NullInfo, Genesis) \in CBlockFileInfo
    BY <2>1, AddBlockFields
  <2>5. \A f \in File : info[f] = IF f = 0 THEN AddBlock(NullInfo, Genesis) ELSE NullInfo
    BY <2>2, ZenonT(30)
  <2>6. info[0] = AddBlock(NullInfo, Genesis) /\ \A f \in File : f # 0 => info[f] = NullInfo
    BY <1>1, <2>5, ZenonT(30)
  <2>7. info \in [File -> CBlockFileInfo]
    BY <2>1, <2>2, <2>4, ZenonT(30)
  <2> QED
    BY <1>1, <2>3, <2>4, <2>6, <2>7 DEF CBlockFileInfo
<1>3. /\ db.idx = idx /\ db.info = info /\ db.last = 0 /\ last = 0
      /\ db = [idx |-> idx, info |-> info, last |-> 0]
      /\ files = {DataExtent(idx, Genesis)} /\ safe = files
  BY <1>1, ZenonT(30) DEF Init, DataExtent
<1>4. /\ flush \in [pc : {"idle", "write", "unlink", "coins"}, prune : SUBSET File, full : BOOLEAN]
      /\ flush.pc = "idle"
  BY DEF Init
<1>5. \A b \in Block : (HasData(idx, b) => b = Genesis) /\ ~HasUndo(idx, b)
  <2>1. NoPos.nFile = Null /\ NoPos.nUndoPos = Null
    BY DEF NoPos
  <2> QED
    BY <1>1, <2>1, ZenonT(30) DEF HasData, HasUndo
<1>6. TypeOK
  <2>1. db \in [idx : [Block -> BlockPos], info : [File -> CBlockFileInfo], last : File]
    BY <1>1, <1>2, <1>3, ZenonT(30)
  <2>2. tip \in Block /\ coins \in Block /\ crashes \in Nat /\ dirty = {} /\ dirtyInfo = {}
    BY BlockTreeAssumption DEF Init
  <2> QED
    BY <1>1, <1>2, <1>3, <1>4, <1>5, <2>1, <2>2, ZenonT(30) DEF TypeOK
<1>7. Sound(idx, info, last)
  <2>1. Positions(idx, info, last)
    <3>1. HasData(idx, Genesis) =>
            /\ idx[Genesis].nDataPos # Null /\ idx[Genesis].nFile <= last
            /\ DataEnd(idx, Genesis) <= info[idx[Genesis].nFile].nSize
            /\ Height[Genesis] <= info[idx[Genesis].nFile].nHeightLast
      BY <1>1, <1>2, <1>3, BlockTreeAssumption, BlockFilesAssumption DEF DataEnd
    <3> QED
      BY <1>5, <3>1, ZenonT(30) DEF Positions
  <2>2. Separate(idx)
    BY <1>5, ZenonT(30) DEF Separate
  <2>3. Sizes(info, last)
    BY <1>2, <1>3, BlockTreeAssumption, BlockFilesAssumption DEF Sizes, NullInfo, File
  <2> QED
    BY <2>1, <2>2, <2>3, ZenonT(30) DEF Sound
<1>8. Stored(idx, files) /\ Pending /\ Covers
  BY <1>3, <1>5 DEF Stored, Pending, Covers
<1> QED
  BY <1>3, <1>4, <1>6, <1>7, <1>8 DEF IInv, Stored

LEMMA NextIInv ==
  ASSUME IInv, [Next]_vars
  PROVE  IInv'
<1>1. ASSUME NEW b \in Block, AcceptBlock(b) \/ ConnectTip(b)
      PROVE  IInv'
  BY <1>1, AcceptPreserves, ConnectPreserves
<1>2. CASE DisconnectTip
  BY <1>2, ConnectPreserves, BlockTreeAssumption
<1>3. CASE Flush
  <2>1. ASSUME NEW full \in BOOLEAN, FlushStateToDisk({}, full)
        PROVE  IInv'
    BY <2>1, DecidePreserves
  <2>2. CASE FlushStateToDisk(FindFilesToPrune, TRUE)
    BY <2>2, DecidePreserves, PrunedFilesAreOld, ZenonT(30)
  <2>3. ASSUME NEW height \in 1..Height[tip], FlushStateToDisk(FindFilesToPruneManual(height), TRUE)
        PROVE  IInv'
    BY <2>3, DecidePreserves, PrunedFilesAreOld, ZenonT(30)
  <2>4. CASE WriteBatchSync
    BY <2>4, WritePreserves, ZenonT(30)
  <2>5. CASE UnlinkPrunedFiles
    BY <2>5, UnlinkPreserves, ZenonT(30)
  <2>6. CASE FlushCoins
    BY <2>6, OthersPreserve, ZenonT(30) DEF FlushCoins, IInv, TypeOK
  <2> QED
    BY <1>3, <2>1, <2>2, <2>3, <2>4, <2>5, <2>6, ZenonT(30) DEF Flush
<1>4. CASE CrashAndRestart
  BY <1>4, CrashPreserves, ZenonT(30)
<1>5. CASE UNCHANGED vars
  BY <1>5, OthersPreserve, ZenonT(30) DEF vars, IInv, TypeOK
<1> QED
  BY <1>1, <1>2, <1>3, <1>4, <1>5 DEF Next

\* The inductive invariant holds in every reachable state.
THEOREM Inductive == Spec => []IInv
BY InitIInv, NextIInv, PTL DEF Spec

\* For any blocks, sizes and files, FindBlockPos and FindUndoPos never give a block
\* space that another index entry claims, in memory or in the database, and no
\* file is over-full.
THEOREM FilesAlwaysConsistent == Spec => []FilesConsistent
<1>1. IInv => FilesConsistent
  <2> SUFFICES ASSUME IInv
               PROVE  FilesConsistent
    OBVIOUS
  <2>1. ExtentsDisjoint
    <3>1. /\ idx \in [Block -> BlockPos] /\ info \in [File -> CBlockFileInfo] /\ Sound(idx, info, last)
          /\ db.idx \in [Block -> BlockPos] /\ db.info \in [File -> CBlockFileInfo]
          /\ Sound(db.idx, db.info, db.last)
      BY ZenonT(30) DEF IInv, TypeOK
    <3>2. \A i \in {<<idx, info>>, <<db.idx, db.info>>} :
            i[1] \in [Block -> BlockPos] /\ i[2] \in [File -> CBlockFileInfo] /\ \E l : Sound(i[1], i[2], l)
      BY <3>1
    <3> QED
      BY <3>2, SoundExtents, ZenonT(30) DEF ExtentsDisjoint
  <2>2. FileSizeBounded
    BY ZenonT(30) DEF IInv, Sound, Sizes, FileSizeBounded
  <2> QED
    BY <2>1, <2>2, ZenonT(30) DEF IInv, FilesConsistent
<1> QED
  BY <1>1, Inductive, PTL

\* After any number of crashes, prunings and reorganisations, every block that the
\* index says is stored is in its file.
THEOREM DataAlwaysReadable == Spec => []DataReadable
<1>1. IInv => DataReadable
  BY DEF IInv, Stored, DataReadable
<1> QED
  BY <1>1, Inductive, PTL

\* FlushStateToDisk never prunes a block within MIN_BLOCKS_TO_KEEP of the tip,
\* whatever the width of the unsigned subtraction in FindFilesToPrune.
THEOREM RecentNeverPruned == Spec => PruneKeepsRecent
<1>1. ASSUME IInv, [Next]_vars, NEW b \in Block, Idle, HasData(idx, b), ~HasData(idx', b), crashes' = crashes
      PROVE  Height[b] + MinBlocksToKeep <= Height[tip]
  <2>1. ASSUME NEW P, NEW full, FlushStateToDisk(P, full)
        PROVE  idx[b].nFile \in P
    BY <1>1, <2>1 DEF FlushStateToDisk, PruneOneBlockFile, HasData
  <2>2. ASSUME NEW P, NEW full, FlushStateToDisk(P, full),
               P \in SUBSET File, \A f \in P : info[f].nHeightLast + MinBlocksToKeep <= Height[tip]
        PROVE  Height[b] + MinBlocksToKeep <= Height[tip]
    <3>1. /\ idx[b].nFile \in P /\ idx[b].nFile \in File
          /\ Height[b] <= info[idx[b].nFile].nHeightLast
      BY <1>1, <2>1, <2>2, ZenonT(30) DEF IInv, Sound, Positions
    <3>2. Height[b] \in Nat /\ Height[tip] \in Nat /\ MinBlocksToKeep \in Nat /\ info[idx[b].nFile].nHeightLast \in Nat
      BY <1>1, <3>1, InfoTypes, BlockTreeAssumption, BlockFilesAssumption DEF IInv, TypeOK
    <3> QED
      BY <2>2, <3>1, <3>2, SMTT(20)
  <2>3. CASE \E full \in BOOLEAN : FlushStateToDisk({}, full)
    BY <2>1, <2>3
  <2>4. CASE FlushStateToDisk(FindFilesToPrune, TRUE)
    BY <1>1, <2>2, <2>4, PrunedFilesAreOld, ZenonT(30)
  <2>5. ASSUME NEW height \in 1..Height[tip], FlushStateToDisk(FindFilesToPruneManual(height), TRUE)
        PROVE  Height[b] + MinBlocksToKeep <= Height[tip]
    BY <1>1, <2>2, <2>5, PrunedFilesAreOld, ZenonT(30)
  <2>6. ASSUME NEW c \in Block, AcceptBlock(c)
        PROVE  FALSE
    <3>1. FileFor(c) \in File /\ Null \notin File
      <4>1. TypeOK /\ Sizes(info, last)
        BY <1>1, ZenonT(30) DEF IInv, Sound
      <4>2. FileFor(c) <= MaxFile
        BY <2>6, ZenonT(30) DEF AcceptBlock, SaveBlockToDisk
      <4>3. Null \notin File
        BY BlockFilesAssumption, SMTT(20) DEF File
      <4> QED
        BY <4>1, <4>2, <4>3, NextFile, ZenonT(30)
    <3>2. idx' = [idx EXCEPT ![c] = [nFile |-> FileFor(c), nDataPos |-> info[FileFor(c)].nSize, nUndoPos |-> Null]]
      BY <2>6, ZenonT(30) DEF AcceptBlock, SaveBlockToDisk, Extent
    <3>3. idx \in [Block -> BlockPos]
      BY <1>1 DEF IInv, TypeOK
    <3>4. idx'[b] = idx[b] \/ idx'[b].nFile = FileFor(c)
      BY <3>2, <3>3
    <3> QED
      BY <1>1, <3>1, <3>4, ZenonT(30) DEF HasData
  <2>7. ASSUME NEW c \in Block, ConnectTip(c)
        PROVE  FALSE
    BY <1>1, <2>7 DEF ConnectTip, WriteUndoDataForBlock, HasData, IInv, TypeOK, BlockPos
  <2>8. CASE CrashAndRestart
    <3>1. crashes \in Nat /\ crashes' = crashes + 1 /\ crashes' = crashes
      BY <1>1, <2>8, ZenonT(30) DEF CrashAndRestart, IInv, TypeOK
    <3> QED
      BY <3>1
  <2>9. CASE DisconnectTip \/ WriteBatchSync \/ UnlinkPrunedFiles \/ FlushCoins \/ UNCHANGED vars
    BY <1>1, <2>9 DEF DisconnectTip, WriteBatchSync, UnlinkPrunedFiles, FlushCoins, vars, HasData
  <2> QED
    BY <1>1, <2>3, <2>4, <2>5, <2>6, <2>7, <2>8, <2>9, ZenonT(30) DEF Next, Flush
<1>2. IInv /\ [Next]_vars =>
        [\A b \in Block : (Idle /\ HasData(idx, b) /\ ~HasData(idx', b) /\ crashes' = crashes)
                            => Height[b] + MinBlocksToKeep <= Height[tip]]_vars
  BY <1>1
<1> QED
  BY <1>2, Inductive, PTL DEF Spec, PruneKeepsRecent
=============================================================================
