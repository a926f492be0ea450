---------------------------- MODULE TxIndexProofs ----------------------------
(***************************************************************************)
(* The index is complete up to the block it claims, for every tree of       *)
(* blocks, every length of the queue and any number of restarts.  What      *)
(* makes the claim inductive is what the sync thread and a callback have in *)
(* hand: the block they have reached, or are about to write, stands on a    *)
(* chain that is in the index already.                                      *)
(***************************************************************************)
EXTENDS TxIndex, TLAPS

-----------------------------------------------------------------------------
(* The block tree.                                                           *)

\* What the library's theorems say of numbers and of finite sets of blocks: every
\* set of naturals has a least element, and sets of blocks can be counted.  It is
\* a hypothesis of the lemmas that need it, proved below (CountingHolds) as late
\* as possible: the provers are slow in every step that has the library in its
\* context.
Counting ==
  /\ \A T \in SUBSET Nat : T # {} => \E n \in T : \A m \in T : n <= m
  /\ \A S \in SUBSET Block : /\ Cardinality(S) \in Nat
                             /\ \A x \in S : Cardinality(S \ {x}) = Cardinality(S) - 1

\* A set of blocks closed under pprev that contains a block contains the whole
\* chain below it.
LEMMA ChainInClosed ==
  ASSUME NEW S \in SUBSET Block, ClosedUnderParent(S), NEW b \in S
  PROVE  Ancestors[b] \subseteq S
  BY DEF Ancestors

LEMMA AncestorsInBlock ==
  ASSUME NEW b \in Block
  PROVE  Ancestors[b] \subseteq Block
  BY DEF Ancestors

\* Every block is on its own chain.
LEMMA SelfAncestor ==
  ASSUME NEW b \in Block
  PROVE  b \in Ancestors[b]
  BY DEF Ancestors

\* The chain of a block contains the parent of each of its members.
LEMMA AncestorsClosed ==
  ASSUME NEW b \in Block
  PROVE  ClosedUnderParent(Ancestors[b])
  <1> SUFFICES ASSUME NEW a \in Ancestors[b], a # Genesis
               PROVE  Parent[a] \in Ancestors[b]
    BY DEF ClosedUnderParent
  <1>1. a \in Block
    BY DEF Ancestors
  <1>2. Parent[a] \in Block
    BY <1>1, BlockTreeAssumption
  <1>3. ASSUME NEW S \in SUBSET Block, b \in S, ClosedUnderParent(S)
        PROVE  Parent[a] \in S
    <2>1. a \in S
      BY <1>3 DEF Ancestors
    <2> QED BY <1>3, <2>1 DEF ClosedUnderParent
  <1> QED BY <1>2, <1>3 DEF Ancestors

\* Genesis is on no chain but as its root: its own chain is itself.
LEMMA GenesisAncestors == Ancestors[Genesis] = {Genesis}
  <1>1. Genesis \in Block /\ {Genesis} \in SUBSET Block
    BY BlockTreeAssumption
  <1>2. ClosedUnderParent({Genesis})
    BY DEF ClosedUnderParent
  <1>3. Ancestors[Genesis] \subseteq {Genesis}
    BY <1>1, <1>2, ChainInClosed
  <1> QED BY <1>1, <1>3, SelfAncestor

\* The chain of a block is the block on top of its parent's chain.
LEMMA AncestorsOfParent ==
  ASSUME NEW b \in Block, b # Genesis
  PROVE  Ancestors[b] = {b} \cup Ancestors[Parent[b]]
  <1>1. Parent[b] \in Block
    BY BlockTreeAssumption
  <1>2. b \in Ancestors[b] /\ Parent[b] \in Ancestors[b]
    BY SelfAncestor, AncestorsClosed DEF ClosedUnderParent
  <1>3. Ancestors[Parent[b]] \subseteq Ancestors[b]
    BY <1>2, AncestorsClosed, AncestorsInBlock, ChainInClosed
  <1>4. Ancestors[b] \subseteq {b} \cup Ancestors[Parent[b]]
    <2> DEFINE S == {b} \cup Ancestors[Parent[b]]
    <2>1. S \in SUBSET Block
      BY <1>1, AncestorsInBlock
    <2>2. Parent[b] \in Ancestors[Parent[b]]
      BY <1>1, SelfAncestor
    <2>3. ClosedUnderParent(Ancestors[Parent[b]])
      BY <1>1, AncestorsClosed
    <2>4. ClosedUnderParent(S)
      BY <2>2, <2>3 DEF ClosedUnderParent
    <2>5. b \in S
      OBVIOUS
    <2> HIDE DEF S
    <2>6. Ancestors[b] \subseteq S
      BY <2>1, <2>4, <2>5, ChainInClosed
    <2> QED BY <2>6 DEF S
  <1> QED BY <1>2, <1>3, <1>4

\* Genesis is on the chain of every block: a set that is closed under parents
\* contains the parent of its lowest block.
LEMMA GenesisOnChain ==
  ASSUME Counting, NEW S \in SUBSET Block, ClosedUnderParent(S), S # {}
  PROVE  Genesis \in S
  <1> DEFINE H == {Height[b] : b \in S}
  <1>1. H \in SUBSET Nat /\ H # {}
    BY BlockTreeAssumption
  <1>2. PICK n \in H : \A m \in H : n <= m
    BY <1>1, ZenonT(30) DEF Counting
  <1>3. PICK b \in S : Height[b] = n
    OBVIOUS
  <1>4. \A c \in S : Height[b] <= Height[c]
    BY <1>2, <1>3
  <1>5. b # Genesis => Height[Parent[b]] + 1 = Height[b] /\ Parent[b] \in S
                       /\ Height[Parent[b]] \in Nat
    BY BlockTreeAssumption DEF ClosedUnderParent
  <1>6. b = Genesis
    BY <1>4, <1>5
  <1> QED BY <1>6

LEMMA GenesisInAncestors ==
  ASSUME Counting, NEW b \in Block
  PROVE  Genesis \in Ancestors[b]
  BY GenesisOnChain, BlockTreeAssumption DEF Ancestors

\* A block is higher than every other block on its chain.
LEMMA AncestorsLower ==
  ASSUME NEW b \in Block, NEW a \in Ancestors[b]
  PROVE  Height[a] \in Nat /\ Height[b] \in Nat /\ (a = b \/ Height[a] < Height[b])
  <1> DEFINE S == {x \in Ancestors[b] : x = b \/ Height[x] < Height[b]}
  <1>1. S \in SUBSET Block
    BY AncestorsInBlock
  <1>2. ASSUME NEW x \in S, x # Genesis
        PROVE  Parent[x] \in S
    <2>1. x \in Block /\ Parent[x] \in Ancestors[b]
      BY <1>1, <1>2, AncestorsClosed DEF ClosedUnderParent
    <2>2. Parent[x] \in Block /\ Height[x] = Height[Parent[x]] + 1
      BY <1>2, <2>1, BlockTreeAssumption
    <2>3. Height[x] \in Nat /\ Height[Parent[x]] \in Nat /\ Height[b] \in Nat
      BY <2>1, <2>2, BlockTreeAssumption
    <2> QED BY <2>1, <2>2, <2>3
  <1>3. b \in S
    BY SelfAncestor
  <1>4. ClosedUnderParent(S)
    BY <1>2, ZenonT(30) DEF ClosedUnderParent
  <1> HIDE DEF S
  <1>5. Ancestors[b] \subseteq S
    BY <1>1, <1>3, <1>4, ChainInClosed, ZenonT(30)
  <1>6. a = b \/ Height[a] < Height[b]
    BY <1>5 DEF S
  <1> QED BY <1>6, AncestorsInBlock, BlockTreeAssumption

-----------------------------------------------------------------------------
\* A block is in the index, or was named too early.
Has(d, a) == IsIndexed(d, a) \/ a \in d.named

\* The chain of b without b.
Below(b) == AncestorsOf(b) \ {b}

\* What the sync thread has in hand.
SyncInHand ==
  /\ sync # "done" => tip # Null
  /\ sync = "loop" => Complete(db, pindex)
  /\ sync \in {"chosen", "named"} =>
       pindex \in Block /\ \A a \in Below(pindex) : Has(db, a)
  /\ sync = "commit" => m_best_block_index # Null

IInv ==
  /\ TypeOK
  /\ IndexComplete
  /\ SyncInHand
  /\ Complete(db, callback)

-----------------------------------------------------------------------------
(* Chains.                                                                  *)

\* The chain of a block on the chain of b is a part of it.
LEMMA ChainOfAncestor ==
  ASSUME NEW b \in BlockOrNull, NEW a \in AncestorsOf(b)
  PROVE  a \in Block /\ AncestorsOf(a) \subseteq AncestorsOf(b)
<1>1. b \in Block /\ AncestorsOf(b) = Ancestors[b]
  BY DEF AncestorsOf, BlockOrNull
<1>2. Ancestors[b] \in SUBSET Block /\ ClosedUnderParent(Ancestors[b])
  BY <1>1, AncestorsInBlock, AncestorsClosed
<1>3. a \in Block /\ a # Null
  BY <1>1, <1>2, TxIndexAssumption
<1>4. Ancestors[a] \subseteq Ancestors[b]
  BY <1>1, <1>2, ChainInClosed
<1> QED
  BY <1>1, <1>3, <1>4 DEF AncestorsOf

\* A block whose parent is on the chain of b adds only itself to it.
LEMMA ChainAbove ==
  ASSUME NEW b \in BlockOrNull, NEW c \in Block,
         c = Genesis \/ ParentOf(c) \in AncestorsOf(b)
  PROVE  AncestorsOf(c) \subseteq AncestorsOf(b) \cup {c}
<1>1. AncestorsOf(c) = Ancestors[c]
  BY TxIndexAssumption DEF AncestorsOf
<1>2. CASE c = Genesis
  BY <1>1, <1>2, GenesisAncestors
<1>3. CASE c # Genesis
  <2>1. Parent[c] \in AncestorsOf(b)
    BY <1>3 DEF ParentOf
  <2>2. Parent[c] \in Block /\ Parent[c] # Null
    BY <2>1, ChainOfAncestor, TxIndexAssumption
  <2>3. Ancestors[Parent[c]] \subseteq AncestorsOf(b)
    BY <2>1, <2>2, ChainOfAncestor DEF AncestorsOf
  <2> QED
    BY <1>1, <1>3, <2>3, AncestorsOfParent
<1> QED
  BY <1>2, <1>3

\* NextSyncBlock is a block right above the chain of b, and there is one when b
\* is null and the active chain is not empty.
LEMMA NextAbove ==
  ASSUME NEW b \in BlockOrNull, tip \in BlockOrNull, NextSyncBlock(b) # Null
  PROVE  /\ NextSyncBlock(b) \in Block
         /\ AncestorsOf(NextSyncBlock(b)) \subseteq AncestorsOf(b) \cup {NextSyncBlock(b)}
<1> DEFINE shared == AncestorsOf(b) \cap AncestorsOf(tip)
           next == {c \in AncestorsOf(tip) \ shared : ParentOf(c) \in shared \cup {Null}}
           c == NextSyncBlock(b)
<1>1. c \in next
  BY DEF NextSyncBlock
<1>2. c \in Block
  BY <1>1, ChainOfAncestor
<1>3. c = Genesis \/ ParentOf(c) \in AncestorsOf(b)
  BY <1>1, <1>2, BlockTreeAssumption, TxIndexAssumption DEF ParentOf
<1> HIDE DEF c
<1>4. AncestorsOf(c) \subseteq AncestorsOf(b) \cup {c}
  BY <1>2, <1>3, ChainAbove
<1> QED
  BY <1>2, <1>4 DEF c

LEMMA NextFromNull ==
  ASSUME Counting, tip \in Block
  PROVE  NextSyncBlock(Null) # Null
<1> DEFINE shared == AncestorsOf(Null) \cap AncestorsOf(tip)
           next == {c \in AncestorsOf(tip) \ shared : ParentOf(c) \in shared \cup {Null}}
<1>1. Genesis \in AncestorsOf(tip)
  BY GenesisInAncestors, TxIndexAssumption DEF AncestorsOf
<1>2. shared = {}
  BY DEF AncestorsOf
<1>3. Genesis \in next
  BY <1>1, <1>2 DEF ParentOf
<1>4. next \subseteq Block
  BY ChainOfAncestor DEF BlockOrNull
<1>5. NextSyncBlock(Null) \in next
  BY <1>3 DEF NextSyncBlock
<1> QED
  BY <1>4, <1>5, TxIndexAssumption

\* Two chains share a highest block.
LEMMA HighestShared ==
  ASSUME Counting, NEW b \in Block, NEW t \in Block
  PROVE  \E c \in Ancestors[b] \cap Ancestors[t] :
           \A d \in Ancestors[b] \cap Ancestors[t] : Height[d] <= Height[c]
<1> DEFINE both == Ancestors[b] \cap Ancestors[t]
           T == {n \in Nat : \E a \in both : Height[a] + n = Height[b]}
<1>1. both \subseteq Block /\ Genesis \in both
  BY AncestorsInBlock, GenesisInAncestors
<1>2. \A a \in both : Height[a] \in Nat /\ Height[b] \in Nat /\ Height[a] <= Height[b]
  BY <1>1, AncestorsLower, BlockTreeAssumption
<1> HIDE DEF both
<1>3. \A a \in both : Height[b] - Height[a] \in T
  BY <1>2
<1>4. T # {} /\ T \in SUBSET Nat
  BY <1>1, <1>3
<1>5. PICK n \in T : \A m \in T : n <= m
  <2> HIDE DEF T
  <2> QED BY <1>4 DEF Counting
<1>6. PICK c \in both : Height[c] + n = Height[b]
  BY <1>5
<1>7. ASSUME NEW d \in both PROVE Height[d] <= Height[c]
  <2>1. n <= Height[b] - Height[d]
    BY <1>3, <1>5
  <2> QED
    BY <1>2, <1>5, <1>6, <2>1
<1> QED
  BY <1>6, <1>7 DEF both

\* FindForkInGlobalIndex is on the chain of the locator.
LEMMA ForkOnChain ==
  ASSUME Counting, NEW b \in BlockOrNull, NEW t \in BlockOrNull
  PROVE  /\ FindForkInGlobalIndex(b, t) \in BlockOrNull
         /\ AncestorsOf(FindForkInGlobalIndex(b, t)) \subseteq AncestorsOf(b)
<1>1. CASE b = Null \/ t = Null
  BY <1>1 DEF FindForkInGlobalIndex, AncestorsOf, BlockOrNull
<1>2. CASE b # Null /\ t # Null
  <2>1. b \in Block /\ t \in Block
    BY <1>2 DEF BlockOrNull
  <2> DEFINE f == FindForkInGlobalIndex(b, t)
             both == Ancestors[b] \cap Ancestors[t]
             highest == {c \in both : \A d \in both : Height[d] <= Height[c]}
  <2>2. highest # {} => f \in Ancestors[b]
    BY <1>2 DEF FindForkInGlobalIndex, LastCommonAncestor
  <2>3. highest # {}
    BY <2>1, HighestShared
  <2>4. f \in AncestorsOf(b)
    BY <1>2, <2>2, <2>3 DEF AncestorsOf
  <2> HIDE DEF f
  <2> QED
    BY <2>4, ChainOfAncestor DEF f, BlockOrNull
<1> QED
  BY <1>1, <1>2

-----------------------------------------------------------------------------
(* The database.                                                            *)

\* A database with other named blocks.
LEMMA DatabaseExcept ==
  ASSUME NEW d \in Database, NEW n
  PROVE  [d EXCEPT !.named = n] = [pos |-> d.pos, best |-> d.best, named |-> n]
BY DEF Database

LEMMA WrittenKeeps ==
  ASSUME NEW d \in Database, NEW b \in Block
  PROVE  /\ Written(d, b) \in Database
         /\ Written(d, b).best = d.best
         /\ Has(Written(d, b), b)
         /\ \A a \in Block : Has(d, a) => Has(Written(d, b), a)
<1>1. /\ d.pos \in [Tx -> BlockOrNull] /\ d.best \in BlockOrNull /\ d.named \in SUBSET Block
      /\ d = [pos |-> d.pos, best |-> d.best, named |-> d.named]
  BY DEF Database
<1>2. TxsOf \in [Block -> SUBSET Tx] /\ b # Null /\ b \in BlockOrNull
  BY TxIndexAssumption DEF BlockOrNull
<1> DEFINE p == [t \in Tx |-> IF t \in TxsOf[b] THEN b ELSE d.pos[t]]
<1>3. Written(d, b) = [pos |-> p, best |-> d.best, named |-> d.named \ {b}]
  BY DEF Written
<1>4. p \in [Tx -> BlockOrNull]
  BY <1>1, <1>2
<1>5. IsIndexed(Written(d, b), b)
  BY <1>2, <1>3 DEF IsIndexed
<1>6. ASSUME NEW a \in Block, IsIndexed(d, a) PROVE IsIndexed(Written(d, b), a)
  BY <1>2, <1>3, <1>6 DEF IsIndexed
<1>7. ASSUME NEW a \in Block, a \in d.named, a # b PROVE a \in Written(d, b).named
  BY <1>3, <1>7
<1> HIDE DEF p
<1>8. d.named \ {b} \in SUBSET Block
  BY <1>1
<1>9. Written(d, b) \in Database
  BY <1>1, <1>3, <1>4, <1>8 DEF Database
<1>10. Written(d, b).best = d.best
  BY <1>3
<1> QED
  BY <1>5, <1>6, <1>7, <1>9, <1>10 DEF Has

LEMMA CommittedKeeps ==
  ASSUME NEW d \in Database, NEW b \in BlockOrNull, tip \in BlockOrNull
  PROVE  /\ Committed(d, b) \in Database
         /\ Committed(d, b).best = IF b = Null THEN tip ELSE b
         /\ \A a \in Block : Has(d, a) => Has(Committed(d, b), a)
<1>1. /\ d.pos \in [Tx -> BlockOrNull] /\ d.best \in BlockOrNull /\ d.named \in SUBSET Block
      /\ d = [pos |-> d.pos, best |-> d.best, named |-> d.named]
  BY DEF Database
<1>2. Committed(d, b) = [pos |-> d.pos, best |-> IF b = Null THEN tip ELSE b, named |-> d.named]
  BY <1>1 DEF Committed
<1> QED
  BY <1>1, <1>2 DEF Database, Has, IsIndexed

LEMMA NamedKeeps ==
  ASSUME NEW d \in Database, NEW S \in SUBSET Block
  PROVE  /\ Named(d, S) \in Database
         /\ Named(d, S).best = d.best
         /\ \A a \in Block : Has(d, a) \/ a \in S => Has(Named(d, S), a)
<1>1. /\ d.pos \in [Tx -> BlockOrNull] /\ d.best \in BlockOrNull /\ d.named \in SUBSET Block
      /\ d = [pos |-> d.pos, best |-> d.best, named |-> d.named]
  BY DEF Database
<1>2. Named(d, S) = [pos |-> d.pos, best |-> d.best,
                     named |-> d.named \cup {b \in S : ~IsIndexed(d, b)}]
  BY DatabaseExcept DEF Named
<1>3. d.named \cup {b \in S : ~IsIndexed(d, b)} \in SUBSET Block
  BY <1>1
<1>6. Named(d, S) \in Database
  BY <1>1, <1>2, <1>3 DEF Database
<1>7. Named(d, S).best = d.best
  BY <1>2
<1>4. \A a \in Block : IsIndexed(Named(d, S), a) <=> IsIndexed(d, a)
  BY <1>2 DEF IsIndexed
<1>5. Named(d, S).named = d.named \cup {b \in S : ~IsIndexed(d, b)}
  BY <1>2
<1> QED
  BY <1>4, <1>5, <1>6, <1>7 DEF Has

\* What is complete stays complete in a database that has as much.
LEMMA CompleteKept ==
  ASSUME NEW d, NEW e, NEW b \in BlockOrNull, Complete(d, b),
         \A a \in Block : Has(d, a) => Has(e, a)
  PROVE  Complete(e, b)
BY ChainOfAncestor DEF Complete, Has

\* A part of a complete chain is complete.
LEMMA CompletePart ==
  ASSUME NEW d, NEW b \in BlockOrNull, NEW c, Complete(d, b), AncestorsOf(c) \subseteq AncestorsOf(b)
  PROVE  Complete(d, c)
BY DEF Complete

-----------------------------------------------------------------------------
(* Steps.                                                                   *)

LEMMA InitIInv == Init => IInv
<1> SUFFICES ASSUME Init PROVE IInv
  OBVIOUS
<1>1. TypeOK
  BY DEF Init, TypeOK, Database, BlockOrNull
<1>2. \A d : Complete(d, Null)
  BY DEF Complete, AncestorsOf
<1>3. db.best = Null
  BY DEF Init
<1> QED
  BY <1>1, <1>2, <1>3 DEF Init, IInv, IndexComplete, SyncInHand

\* A step of the chain or of the node that leaves the index alone.
LEMMA OutsideStep ==
  ASSUME IInv, UNCHANGED <<callback, m_synced, m_best_block_index, db, sync, pindex>>,
         tip' \in BlockOrNull, chainDisk' \in BlockOrNull, tip # Null => tip' # Null,
         queue' \in Seq(Event), stage' \in {"running", "interrupted", "crashed"}, restarts' \in Nat
  PROVE  IInv'
<1>1. TypeOK'
  BY DEF IInv, TypeOK
<1> QED
  BY <1>1 DEF IInv, IndexComplete, SyncInHand, Complete, Has, Below

LEMMA EventsAreTyped ==
  ASSUME Counting, NEW from \in BlockOrNull, NEW to \in Block, NEW e \in ConnectedEvents(from, to)
  PROVE  e \in Seq(Event)
<1> DEFINE path == AncestorsOf(to) \ AncestorsOf(from)
<1>1. path \subseteq Block
  BY ChainOfAncestor DEF BlockOrNull
<1>2. Cardinality(path) \in Nat
  BY <1>1 DEF Counting
<1>3. e \in [1..Cardinality(path) -> [kind: {"BlockConnected"}, block: path]]
  BY ZenonT(30) DEF ConnectedEvents
<1> HIDE DEF path
<1>4. [kind: {"BlockConnected"}, block: path] \subseteq Event
  BY <1>1 DEF Event
<1>5. e \in [1..Cardinality(path) -> Event]
  BY <1>3, <1>4
<1> QED
  BY <1>2, <1>5

LEMMA ActivateStep == Counting /\ IInv /\ ActivateBestChain => IInv'
<1> SUFFICES ASSUME Counting, IInv, ActivateBestChain PROVE IInv'
  OBVIOUS
<1>1. PICK b \in Block :
        /\ b \notin AncestorsOf(tip) /\ tip' = b
        /\ \E connected \in ConnectedEvents(tip, b) :
             \/ Enqueue(connected) /\ UNCHANGED chainDisk
             \/ \E c \in Ancestors[b] \ (AncestorsOf(tip) \cup {Genesis}) :
                  Enqueue(<<FlushedEvent(Parent[c])>> \o connected) /\ chainDisk' = c
             \/ \E d \in AncestorsOf(tip) \ Ancestors[b] :
                  Enqueue(<<FlushedEvent(d)>> \o connected) /\ chainDisk' = Parent[d]
  BY DEF ActivateBestChain
<1>2. tip \in BlockOrNull /\ chainDisk \in BlockOrNull /\ queue \in Seq(Event)
  BY DEF IInv, TypeOK
<1>3. PICK e \in ConnectedEvents(tip, b) :
        \/ Enqueue(e) /\ UNCHANGED chainDisk
        \/ \E c \in Ancestors[b] \ (AncestorsOf(tip) \cup {Genesis}) :
             Enqueue(<<FlushedEvent(Parent[c])>> \o e) /\ chainDisk' = c
        \/ \E d \in AncestorsOf(tip) \ Ancestors[b] :
             Enqueue(<<FlushedEvent(d)>> \o e) /\ chainDisk' = Parent[d]
  BY <1>1
<1>4. e \in Seq(Event)
  BY <1>2, EventsAreTyped
<1>5. \A x \in Block : <<FlushedEvent(x)>> \in Seq(Event)
  BY DEF FlushedEvent, Event
<1>6. Ancestors[b] \subseteq Block /\ Genesis \in Ancestors[b]
  BY AncestorsInBlock, GenesisInAncestors
<1>7. AncestorsOf(tip) \subseteq Block
  BY <1>2, ChainOfAncestor
<1> HIDE DEF FlushedEvent
<1>8. queue' \in Seq(Event) /\ chainDisk' \in BlockOrNull
  <2>1. CASE Enqueue(e) /\ UNCHANGED chainDisk
    BY <1>2, <1>4, <2>1 DEF Enqueue
  <2>2. ASSUME NEW c \in Ancestors[b] \ (AncestorsOf(tip) \cup {Genesis}),
               Enqueue(<<FlushedEvent(Parent[c])>> \o e), chainDisk' = c
        PROVE  queue' \in Seq(Event) /\ chainDisk' \in BlockOrNull
    <3>1. c \in Block /\ Parent[c] \in Block
      BY <1>6, BlockTreeAssumption
    <3>2. <<FlushedEvent(Parent[c])>> \in Seq(Event)
      BY <1>5, <3>1
    <3> QED
      BY <1>2, <1>4, <2>2, <3>1, <3>2 DEF Enqueue, BlockOrNull
  <2>3. ASSUME NEW d \in AncestorsOf(tip) \ Ancestors[b],
               Enqueue(<<FlushedEvent(d)>> \o e), chainDisk' = Parent[d]
        PROVE  queue' \in Seq(Event) /\ chainDisk' \in BlockOrNull
    <3>1. d \in Block /\ Parent[d] \in Block
      BY <1>6, <1>7, BlockTreeAssumption
    <3>2. <<FlushedEvent(d)>> \in Seq(Event)
      BY <1>5, <3>1
    <3> QED
      BY <1>2, <1>4, <2>3, <3>1, <3>2 DEF Enqueue, BlockOrNull
  <2> QED
    BY <1>3, <2>1, <2>2, <2>3, ZenonT(30)
<1>9. UNCHANGED <<callback, m_synced, m_best_block_index, db, sync, pindex, stage, restarts>>
  BY DEF ActivateBestChain, nodeVars
<1>10. stage \in {"running", "interrupted", "crashed"} /\ restarts \in Nat
  BY DEF IInv, TypeOK
<1> QED
  BY <1>1, <1>8, <1>9, <1>10, OutsideStep, TxIndexAssumption DEF BlockOrNull

\* The other steps of the chain.
LEMMA ChainMoves == IInv /\ (UnwindBlock \/ FlushStateToDisk) => IInv'
<1> SUFFICES ASSUME IInv, UnwindBlock \/ FlushStateToDisk PROVE IInv'
  OBVIOUS
<1>1. /\ tip \in BlockOrNull /\ chainDisk \in BlockOrNull /\ queue \in Seq(Event)
      /\ stage \in {"running", "interrupted", "crashed"} /\ restarts \in Nat
  BY DEF IInv, TypeOK
<1>2. tip # Null => <<FlushedEvent(tip)>> \in Seq(Event)
  BY <1>1 DEF FlushedEvent, Event, BlockOrNull
<1>3. CASE UnwindBlock
  <2>1. Parent[tip] \in Block /\ Parent[tip] # Null
    BY <1>1, <1>3, BlockTreeAssumption, TxIndexAssumption DEF UnwindBlock, BlockOrNull
  <2>2. queue' \in Seq(Event) /\ chainDisk' \in BlockOrNull
    <3>1. CASE UNCHANGED <<queue, chainDisk>>
      BY <1>1, <3>1
    <3>2. CASE Enqueue(<<FlushedEvent(tip)>>) /\ chainDisk' = Parent[tip]
      <4>1. <<FlushedEvent(tip)>> \in Seq(Event)
        BY <1>2, <1>3 DEF UnwindBlock
      <4> QED
        BY <1>1, <2>1, <3>2, <4>1 DEF Enqueue, BlockOrNull
    <3> QED
      BY <1>3, <3>1, <3>2 DEF UnwindBlock
  <2> QED
    BY <1>1, <1>3, <2>1, <2>2, OutsideStep DEF UnwindBlock, nodeVars, BlockOrNull
<1>4. CASE FlushStateToDisk
  <2>1. queue' \in Seq(Event) /\ chainDisk' \in BlockOrNull
    BY <1>1, <1>2, <1>4 DEF FlushStateToDisk, Enqueue
  <2> QED
    BY <1>1, <1>4, <2>1, OutsideStep DEF FlushStateToDisk, nodeVars
<1> QED
  BY <1>3, <1>4


\* Steps of the sync thread.
LEMMA SyncMoves ==
  Counting /\ IInv /\ (ThreadSync_Next \/ ThreadSync_CaughtUp \/ ThreadSync_Fails) => IInv'
<1> SUFFICES ASSUME Counting, IInv, ThreadSync_Next \/ ThreadSync_CaughtUp \/ ThreadSync_Fails
             PROVE  IInv'
  OBVIOUS
<1>1. TypeOK /\ IndexComplete /\ SyncInHand /\ Complete(db, callback)
  BY DEF IInv
<1>2. tip \in BlockOrNull /\ pindex \in BlockOrNull
  BY <1>1 DEF TypeOK
<1>3. CASE ThreadSync_Next
  <2>1. pindex' \in Block /\ AncestorsOf(pindex') \subseteq AncestorsOf(pindex) \cup {pindex'}
    BY <1>2, <1>3, NextAbove DEF ThreadSync_Next
  <2>2. \A a \in AncestorsOf(pindex) : Has(db, a)
    BY <1>1, <1>3 DEF SyncInHand, ThreadSync_Next, Complete, Has
  <2>3. TypeOK'
    BY <1>1, <1>3, <2>1 DEF ThreadSync_Next, TypeOK, chainVars, nodeVars, BlockOrNull
  <2>4. SyncInHand'
    <3>1. \A a \in Below(pindex') : Has(db, a)
      BY <2>1, <2>2 DEF Below
    <3>2. tip # Null /\ tip' = tip /\ sync' = "chosen" /\ db' = db
      BY <1>1, <1>3 DEF ThreadSync_Next, chainVars, SyncInHand
    <3> QED
      BY <2>1, <3>1, <3>2 DEF SyncInHand
  <2> QED
    BY <1>1, <1>3, <2>3, <2>4 DEF ThreadSync_Next, IInv, IndexComplete
<1>4. CASE ThreadSync_CaughtUp
  <2>1. sync = "loop" /\ tip # Null
    BY <1>1, <1>4 DEF ThreadSync_CaughtUp, SyncInHand
  <2>2. pindex # Null
    BY <1>2, <1>4, <2>1, NextFromNull DEF ThreadSync_CaughtUp, BlockOrNull
  <2>3. TypeOK'
    BY <1>1, <1>4 DEF ThreadSync_CaughtUp, TypeOK, chainVars, nodeVars
  <2>4. Complete(db, pindex)
    BY <1>1, <2>1 DEF SyncInHand
  <2>5. SyncInHand'
    BY <1>4, <2>1, <2>2 DEF SyncInHand, ThreadSync_CaughtUp, chainVars
  <2> QED
    BY <1>1, <1>4, <2>3, <2>4, <2>5 DEF ThreadSync_CaughtUp, IInv, IndexComplete
<1>5. CASE ThreadSync_Fails
  <2>1. TypeOK'
    BY <1>1, <1>5 DEF ThreadSync_Fails, TypeOK, chainVars, FatalError
  <2> QED
    BY <1>1, <1>5, <2>1 DEF ThreadSync_Fails, IInv, IndexComplete, SyncInHand
<1> QED
  BY <1>3, <1>4, <1>5

LEMMA InterruptedStep == IInv /\ ThreadSync_Interrupted => IInv'
<1> SUFFICES ASSUME IInv, ThreadSync_Interrupted PROVE IInv'
  OBVIOUS
<1>1. TypeOK /\ IndexComplete /\ SyncInHand /\ Complete(db, callback)
  BY DEF IInv
<1>2. tip \in BlockOrNull /\ pindex \in BlockOrNull /\ db \in Database /\ callback \in BlockOrNull
  BY <1>1 DEF TypeOK
<1> DEFINE c == Committed(db, pindex)
           S == IF pindex = Null THEN AncestorsOf(tip) ELSE {}
<1>3. S \in SUBSET Block
  BY <1>2, ChainOfAncestor
<1>4. /\ c \in Database /\ c.best = (IF pindex = Null THEN tip ELSE pindex)
      /\ \A a \in Block : Has(db, a) => Has(c, a)
  BY <1>2, CommittedKeeps
<1>5. db' = Named(c, S) /\ m_best_block_index' = pindex /\ sync' = "done" /\ callback' = callback
  BY DEF ThreadSync_Interrupted
<1> HIDE DEF c, S
<1>6. /\ db' \in Database /\ db'.best = c.best
      /\ \A a \in Block : Has(c, a) \/ a \in S => Has(db', a)
  BY <1>3, <1>4, <1>5, NamedKeeps
<1>7. \A a \in Block : Has(db, a) => Has(db', a)
  BY <1>4, <1>6
<1>8. Complete(db, pindex)
  BY <1>1 DEF SyncInHand, ThreadSync_Interrupted
<1>9. Complete(db', pindex) /\ Complete(db', callback)
  BY <1>1, <1>2, <1>7, <1>8, CompleteKept
<1>10. Complete(db', db'.best)
  <2>1. CASE pindex = Null
    <3>1. \A a \in AncestorsOf(tip) : a \in Block /\ a \in S
      BY <1>2, <2>1, ChainOfAncestor DEF S
    <3>2. \A a \in AncestorsOf(tip) : Has(db', a)
      BY <1>6, <3>1
    <3> QED
      BY <1>4, <1>6, <2>1, <3>2 DEF Complete, Has
  <2>2. CASE pindex # Null
    BY <1>4, <1>6, <1>9, <2>2
  <2> QED
    BY <2>1, <2>2
<1>11. TypeOK'
  BY <1>1, <1>2, <1>5, <1>6 DEF ThreadSync_Interrupted, TypeOK, chainVars, nodeVars
<1> QED
  BY <1>5, <1>9, <1>10, <1>11 DEF IInv, IndexComplete, SyncInHand


LEMMA CommitsEarlyStep == IInv /\ ThreadSync_CommitsEarly => IInv'
<1> SUFFICES ASSUME IInv, ThreadSync_CommitsEarly PROVE IInv'
  OBVIOUS
<1>1. TypeOK /\ IndexComplete /\ SyncInHand /\ Complete(db, callback)
  BY DEF IInv
<1>2. /\ tip \in BlockOrNull /\ db \in Database /\ callback \in BlockOrNull
      /\ pindex \in Block /\ pindex # Null /\ pindex \in BlockOrNull
  BY <1>1, TxIndexAssumption DEF TypeOK, SyncInHand, ThreadSync_CommitsEarly, BlockOrNull
<1>3. \A a \in Below(pindex) : Has(db, a)
  BY <1>1 DEF SyncInHand, ThreadSync_CommitsEarly
<1> DEFINE c == Committed(db, pindex)
<1>4. c \in Database /\ c.best = pindex /\ \A a \in Block : Has(db, a) => Has(c, a)
  BY <1>2, CommittedKeeps, ZenonT(30)
<1>5. db' = Named(c, {pindex}) /\ m_best_block_index' = pindex /\ sync' = "named"
  BY DEF ThreadSync_CommitsEarly
<1>6. UNCHANGED <<tip, chainDisk, queue, callback, m_synced, pindex, stage, restarts>>
  BY DEF ThreadSync_CommitsEarly, chainVars, nodeVars
<1> HIDE DEF c
<1>7. /\ db' \in Database /\ db'.best = pindex
      /\ \A a \in Block : Has(c, a) \/ a \in {pindex} => Has(db', a)
  BY <1>2, <1>4, <1>5, NamedKeeps
<1>8. \A a \in Block : Has(db, a) => Has(db', a)
  BY <1>4, <1>7
<1>9. Complete(db', callback)
  BY <1>1, <1>2, <1>8, CompleteKept
<1>10. \A a \in AncestorsOf(pindex) : a \in Block /\ Has(db', a)
  BY <1>2, <1>3, <1>7, <1>8, ChainOfAncestor DEF Below
<1>11. Complete(db', pindex)
  BY <1>10 DEF Complete, Has
<1>12. TypeOK'
  BY <1>1, <1>2, <1>5, <1>6, <1>7 DEF TypeOK
<1>13. SyncInHand'
  <2>1. \A a \in Below(pindex) : Has(db', a)
    BY <1>10 DEF Below
  <2>2. tip # Null
    BY <1>1 DEF SyncInHand, ThreadSync_CommitsEarly
  <2> QED
    BY <1>2, <1>5, <1>6, <2>1, <2>2 DEF SyncInHand
<1> QED
  BY <1>5, <1>6, <1>7, <1>9, <1>11, <1>12, <1>13 DEF IInv, IndexComplete

\* A commit of the best block.
LEMMA CommitStep ==
  ASSUME IInv, m_best_block_index # Null, db' = Committed(db, m_best_block_index),
         UNCHANGED <<tip, chainDisk, callback, m_synced, m_best_block_index, pindex, stage, restarts>>,
         queue' \in Seq(Event), sync' = sync \/ sync' = "done"
  PROVE  IInv'
<1>1. TypeOK /\ IndexComplete /\ SyncInHand /\ Complete(db, callback)
  BY DEF IInv
<1>2. /\ tip \in BlockOrNull /\ db \in Database /\ callback \in BlockOrNull
      /\ m_best_block_index \in BlockOrNull /\ pindex \in BlockOrNull
  BY <1>1 DEF TypeOK
<1>3. /\ db' \in Database /\ db'.best = m_best_block_index
      /\ \A a \in Block : Has(db, a) => Has(db', a)
  BY <1>2, CommittedKeeps, ZenonT(30)
<1>4. Complete(db', m_best_block_index) /\ Complete(db', callback)
  BY <1>1, <1>2, <1>3, CompleteKept DEF IndexComplete
<1>5. SyncInHand'
  <2>1. sync = "loop" => Complete(db', pindex)
    BY <1>1, <1>2, <1>3, CompleteKept DEF SyncInHand
  <2>2. sync \in {"chosen", "named"} => pindex \in Block /\ \A a \in Below(pindex) : Has(db', a)
    BY <1>1, <1>2, <1>3, ChainOfAncestor DEF SyncInHand, Below
  <2> QED
    BY <1>1, <2>1, <2>2 DEF SyncInHand
<1>6. TypeOK'
  BY <1>1, <1>3 DEF TypeOK
<1> QED
  BY <1>3, <1>4, <1>5, <1>6 DEF IInv, IndexComplete

LEMMA WritesBlockStep == IInv /\ ThreadSync_WritesBlock => IInv'
<1> SUFFICES ASSUME IInv, ThreadSync_WritesBlock PROVE IInv'
  OBVIOUS
<1>1. TypeOK /\ IndexComplete /\ SyncInHand /\ Complete(db, callback)
  BY DEF IInv
<1>2. /\ db \in Database /\ callback \in BlockOrNull /\ m_best_block_index \in BlockOrNull
      /\ db.best \in BlockOrNull /\ pindex \in Block /\ pindex \in BlockOrNull
  BY <1>1 DEF TypeOK, Database, SyncInHand, ThreadSync_WritesBlock, BlockOrNull
<1>3. /\ db' = Written(db, pindex) /\ sync' = "loop"
      /\ UNCHANGED <<tip, chainDisk, queue, callback, m_synced, m_best_block_index, pindex, stage, restarts>>
  BY DEF ThreadSync_WritesBlock, chainVars, nodeVars
<1>4. /\ db' \in Database /\ db'.best = db.best /\ Has(db', pindex)
      /\ \A a \in Block : Has(db, a) => Has(db', a)
  BY <1>2, <1>3, WrittenKeeps
<1>5. Complete(db', m_best_block_index) /\ Complete(db', callback) /\ Complete(db', db.best)
  BY <1>1, <1>2, <1>4, CompleteKept DEF IndexComplete
<1>6. \A a \in AncestorsOf(pindex) : Has(db', a)
  <2>1. \A a \in Below(pindex) : Has(db, a)
    BY <1>1 DEF SyncInHand, ThreadSync_WritesBlock
  <2>2. AncestorsOf(pindex) \subseteq Block
    BY <1>2, ChainOfAncestor
  <2> QED
    BY <1>4, <2>1, <2>2 DEF Below
<1>7. Complete(db', pindex)
  BY <1>6 DEF Complete, Has
<1>8. TypeOK'
  BY <1>1, <1>3, <1>4 DEF TypeOK
<1>9. SyncInHand'
  BY <1>1, <1>3, <1>7 DEF SyncInHand, ThreadSync_WritesBlock
<1> QED
  BY <1>3, <1>4, <1>5, <1>8, <1>9 DEF IInv, IndexComplete

LEMMA ConnectedStep == IInv /\ BlockConnected_Writes => IInv'
<1> SUFFICES ASSUME IInv, BlockConnected_Writes PROVE IInv'
  OBVIOUS
<1>1. TypeOK /\ IndexComplete /\ SyncInHand
  BY DEF IInv
<1> DEFINE b == Head(queue).block
<1>2. /\ queue \in Seq(Event) /\ queue # <<>>
      /\ queue' = Tail(queue) /\ callback' = b /\ db' = Written(db, b)
      /\ Connects(m_best_block_index, b)
      /\ UNCHANGED <<tip, chainDisk, m_synced, m_best_block_index, sync, pindex, stage, restarts>>
  BY <1>1 DEF TypeOK, BlockConnected_Writes, Called, chainVars, nodeVars
<1>3. b \in Block /\ b \in BlockOrNull /\ queue' \in Seq(Event)
  <2>1. Head(queue) \in Event /\ Tail(queue) \in Seq(Event)
    <3> HIDE DEF Event
    <3> QED BY <1>2
  <2> QED
    BY <1>2, <2>1 DEF Event, BlockOrNull
<1> HIDE DEF b
<1>4. /\ db \in Database /\ m_best_block_index \in BlockOrNull /\ db.best \in BlockOrNull
      /\ pindex \in BlockOrNull
  BY <1>1 DEF TypeOK, Database
<1>5. /\ db' \in Database /\ db'.best = db.best /\ Has(db', b)
      /\ \A a \in Block : Has(db, a) => Has(db', a)
  BY <1>2, <1>3, <1>4, WrittenKeeps
<1>6. Complete(db', m_best_block_index) /\ Complete(db', db.best)
  BY <1>1, <1>4, <1>5, CompleteKept DEF IndexComplete
<1>7. Complete(db', b)
  <2>1. AncestorsOf(b) \subseteq AncestorsOf(m_best_block_index) \cup {b}
    BY <1>2, <1>3, <1>4, ChainAbove DEF Connects, Contains
  <2>2. \A a \in AncestorsOf(m_best_block_index) : Has(db', a)
    BY <1>6 DEF Complete, Has
  <2> QED
    BY <1>5, <2>1, <2>2 DEF Complete, Has
<1>8. SyncInHand'
  <2>1. sync = "loop" => Complete(db', pindex)
    BY <1>1, <1>4, <1>5, CompleteKept DEF SyncInHand
  <2>2. sync \in {"chosen", "named"} => pindex \in Block /\ \A a \in Below(pindex) : Has(db', a)
    BY <1>1, <1>4, <1>5, ChainOfAncestor DEF SyncInHand, Below
  <2> QED
    BY <1>1, <1>2, <2>1, <2>2 DEF SyncInHand
<1>9. TypeOK'
  BY <1>1, <1>2, <1>3, <1>5 DEF TypeOK
<1> QED
  BY <1>2, <1>5, <1>6, <1>7, <1>8, <1>9 DEF IInv, IndexComplete


\* Callbacks that do not write a block.
LEMMA CallbackMoves ==
  IInv /\ (\/ BlockConnected_Returns \/ BlockConnected_SetsBest \/ BlockConnected_Fails
           \/ ChainStateFlushed \/ Promise) => IInv'
<1> SUFFICES ASSUME IInv, \/ BlockConnected_Returns \/ BlockConnected_SetsBest
                          \/ BlockConnected_Fails \/ ChainStateFlushed \/ Promise
             PROVE  IInv'
  OBVIOUS
<1>1. TypeOK /\ IndexComplete /\ SyncInHand /\ Complete(db, callback)
  BY DEF IInv
<1>2. /\ tip \in BlockOrNull /\ chainDisk \in BlockOrNull /\ queue \in Seq(Event)
      /\ stage \in {"running", "interrupted", "crashed"} /\ restarts \in Nat
  BY <1>1 DEF TypeOK
<1>3. queue # <<>> => Tail(queue) \in Seq(Event)
  <2> HIDE DEF Event
  <2> QED BY <1>2
<1>4. CASE BlockConnected_Returns \/ BlockConnected_Fails \/ Promise
  <2>1. /\ queue' \in Seq(Event) /\ stage' \in {"running", "interrupted", "crashed"}
        /\ UNCHANGED <<tip, chainDisk, callback, m_synced, m_best_block_index, db, sync, pindex, restarts>>
    BY <1>2, <1>3, <1>4, ZenonT(30)
       DEF BlockConnected_Returns, BlockConnected_Fails, Promise, Called, FatalError, chainVars, nodeVars
  <2> QED
    BY <1>2, <2>1, OutsideStep
<1>5. CASE BlockConnected_SetsBest
  <2>1. TypeOK'
    BY <1>1, <1>5 DEF TypeOK, BlockConnected_SetsBest, chainVars, nodeVars, BlockOrNull
  <2>2. Complete(db, Null)
    BY DEF Complete, AncestorsOf
  <2>3. SyncInHand'
    BY <1>1, <1>5 DEF SyncInHand, BlockConnected_SetsBest, chainVars
  <2> QED
    BY <1>1, <1>5, <2>1, <2>2, <2>3 DEF BlockConnected_SetsBest, IInv, IndexComplete
<1>6. CASE ChainStateFlushed
  <2>1. /\ queue' \in Seq(Event)
        /\ UNCHANGED <<tip, chainDisk, callback, m_synced, m_best_block_index, sync, pindex, stage, restarts>>
    BY <1>3, <1>6 DEF ChainStateFlushed, Called, chainVars, nodeVars
  <2>2. CASE db' = db
    BY <1>2, <2>1, <2>2, OutsideStep
  <2>3. CASE db' # db
    <3>1. m_best_block_index # Null /\ db' = Committed(db, m_best_block_index)
      BY <1>6, <2>3 DEF ChainStateFlushed, Contains, AncestorsOf
    <3> QED
      BY <2>1, <3>1, CommitStep
  <2> QED
    BY <2>2, <2>3
<1> QED
  BY <1>4, <1>5, <1>6

\* A start of the node: the best block is on the chain of the locator.
LEMMA StartsStep ==
  ASSUME Counting, IInv, NEW t \in BlockOrNull, Starts(db, t), chainDisk' \in BlockOrNull, restarts' \in Nat
  PROVE  IInv'
<1>1. TypeOK /\ IndexComplete
  BY DEF IInv
<1>2. db \in Database /\ db.best \in BlockOrNull
  BY <1>1 DEF TypeOK, Database
<1> DEFINE f == FindForkInGlobalIndex(db.best, t)
<1>3. f \in BlockOrNull /\ AncestorsOf(f) \subseteq AncestorsOf(db.best)
  BY <1>2, ForkOnChain
<1>4. /\ db' = db /\ tip' = t /\ m_best_block_index' = f /\ pindex' = f
      /\ m_synced' = (f = t) /\ sync' = (IF f = t THEN "done" ELSE "loop")
      /\ queue' = <<>> /\ callback' = Null /\ stage' = "running"
  BY ZenonT(30) DEF Starts
<1>5. t = Null => f = Null
  BY DEF FindForkInGlobalIndex
<1> HIDE DEF f
<1>6. Complete(db, f)
  BY <1>1, <1>3 DEF IndexComplete, Complete
<1>7. Complete(db, Null)
  BY DEF Complete, AncestorsOf
<1>8. TypeOK'
  BY <1>1, <1>2, <1>3, <1>4 DEF TypeOK, BlockOrNull
<1>9. SyncInHand'
  BY <1>4, <1>5, <1>6 DEF SyncInHand
<1> QED
  BY <1>1, <1>4, <1>6, <1>7, <1>8, <1>9 DEF IInv, IndexComplete

LEMMA NodeMoves == Counting /\ IInv /\ (NodeStep \/ BlockUntilSyncedToCurrentChain) => IInv'
<1> SUFFICES ASSUME Counting, IInv, NodeStep \/ BlockUntilSyncedToCurrentChain PROVE IInv'
  OBVIOUS
<1>1. /\ tip \in BlockOrNull /\ chainDisk \in BlockOrNull /\ queue \in Seq(Event)
      /\ stage \in {"running", "interrupted", "crashed"} /\ restarts \in Nat
  BY DEF IInv, TypeOK
<1>2. CASE Interrupt
  BY <1>1, <1>2, OutsideStep DEF Interrupt, chainVars
<1>3. CASE Shutdown
  BY <1>1, <1>3, StartsStep DEF Shutdown
<1>4. CASE Crash
  BY <1>1, <1>4, StartsStep DEF Crash
<1>5. CASE BlockUntilSyncedToCurrentChain
  <2>1. tip \in Block
    BY <1>1, <1>5 DEF BlockUntilSyncedToCurrentChain, BlockOrNull
  <2>2. <<[kind |-> "Promise", block |-> tip]>> \in Seq(Event)
    BY <2>1 DEF Event
  <2>3. queue' \in Seq(Event) /\ stage' \in {"running", "interrupted", "crashed"}
    BY <1>1, <1>5, <2>2 DEF BlockUntilSyncedToCurrentChain, Enqueue
  <2> QED
    BY <1>1, <1>5, <2>3, OutsideStep DEF BlockUntilSyncedToCurrentChain, chainVars
<1> QED
  BY <1>2, <1>3, <1>4, <1>5 DEF NodeStep

-----------------------------------------------------------------------------
(* The library's theorems, which the lemmas above take as a hypothesis.      *)

LOCAL FS == INSTANCE FiniteSetTheorems

LEMMA CountingHolds == Counting
<1>1. ASSUME NEW T \in SUBSET Nat, T # {}
      PROVE  \E n \in T : \A m \in T : n <= m
  <2> DEFINE R == {p \in Nat \X Nat : p[1] < p[2]}
  <2>1. FS!IsWellFoundedOn(R, Nat)
    BY FS!NatLessThanWellFounded DEF FS!OpToRel
  <2>2. \A n, m \in Nat : <<m, n>> \in R <=> m < n
    OBVIOUS
  <2> HIDE DEF R
  <2>3. PICK n \in T : \A m \in T : ~(<<m, n>> \in R)
    BY <1>1, <2>1, FS!WFMin, ZenonT(30)
  <2>4. \A m \in T : m \in Nat /\ n \in Nat /\ ~(m < n)
    BY <2>2, <2>3, ZenonT(30)
  <2>5. \A m \in T : n <= m
    BY <2>4
  <2> QED
    BY <2>5
<1>2. ASSUME NEW S \in SUBSET Block
      PROVE  Cardinality(S) \in Nat /\ \A x \in S : Cardinality(S \ {x}) = Cardinality(S) - 1
  <2>1. FS!IsFiniteSet(Block)
    BY BlockTreeAssumption DEF IsFiniteSet, FS!IsFiniteSet
  <2>2. \A T : Cardinality(T) = FS!Cardinality(T)
    BY DEF Cardinality, FS!Cardinality
  <2>3. FS!IsFiniteSet(S)
    BY <2>1, FS!FS_Subset
  <2> QED
    BY <2>2, <2>3, FS!FS_CardinalityType, FS!FS_RemoveElement
<1> QED
  BY <1>1, <1>2, ZenonT(30) DEF Counting

\* The strengthened invariant holds of every behaviour: besides what IndexComplete
\* says, the chain below the block that ThreadSync is about to write is in the
\* index, and so is the chain of the block BlockConnected has just written.
THEOREM Inductive == Spec => []IInv
<1>1. Init => IInv
  BY InitIInv
<1>2. IInv /\ [Next]_vars => IInv'
  <2> SUFFICES ASSUME IInv, [Next]_vars PROVE IInv'
    OBVIOUS
  <2>1. CASE ThreadSync_Commits
    <3>1. m_best_block_index # Null /\ queue \in Seq(Event)
      BY <2>1 DEF IInv, TypeOK, SyncInHand, ThreadSync_Commits
    <3> QED
      BY <2>1, <3>1, CommitStep DEF ThreadSync_Commits, chainVars, nodeVars
  <2>2. CASE ThreadSync \/ ThreadSync_CommitsEarly \/ ThreadSync_Fails
    BY <2>1, <2>2, CountingHolds, SyncMoves, InterruptedStep, CommitsEarlyStep, WritesBlockStep DEF ThreadSync
  <2>3. CASE CallbackStep \/ BlockConnected_Fails
    BY <2>3, ConnectedStep, CallbackMoves DEF CallbackStep
  <2>4. CASE ChainStep
    BY <2>4, CountingHolds, ActivateStep, ChainMoves DEF ChainStep
  <2>5. CASE NodeStep \/ BlockUntilSyncedToCurrentChain
    BY <2>5, CountingHolds, NodeMoves
  <2>6. CASE UNCHANGED vars
    <3>1. /\ tip \in BlockOrNull /\ chainDisk \in BlockOrNull /\ queue \in Seq(Event)
          /\ stage \in {"running", "interrupted", "crashed"} /\ restarts \in Nat
      BY DEF IInv, TypeOK
    <3> QED
      BY <2>6, <3>1, OutsideStep DEF vars, chainVars, nodeVars
  <2> QED
    BY <2>2, <2>3, <2>4, <2>5, <2>6 DEF Next
<1> QED
  BY <1>1, <1>2, PTL DEF Spec

\* TypeOK: the pointers of the index are null or blocks, in every behaviour.
THEOREM TypeCorrect == Spec => []TypeOK
<1>1. IInv => TypeOK
  BY DEF IInv
<1> QED
  BY <1>1, Inductive, PTL

\* IndexComplete: the transactions of every block up to m_best_block_index and up
\* to the locator are in the index, but for blocks a locator named too early, for
\* every block tree and any number of reorganisations, stops and crashes.
THEOREM IndexAlwaysComplete == Spec => []IndexComplete
<1>1. IInv => IndexComplete
  BY DEF IInv
<1> QED
  BY <1>1, Inductive, PTL

=============================================================================
