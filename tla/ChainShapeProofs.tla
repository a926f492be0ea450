--------------------------- MODULE ChainShapeProofs ---------------------------
(***************************************************************************)
(* The block index and the active chain, for every tree of blocks, any work *)
(* and any verdicts on the blocks.  This module has the facts about the     *)
(* tree and two invariants; ChainStateProofs has the others and the         *)
(* theorems.                                                                *)
(*   Shape     what the variables are, under all commands and restarts;     *)
(*   Causes    marks have a cause, under all commands, without restarts.    *)
(***************************************************************************)
EXTENDS ChainState, TLAPS

-----------------------------------------------------------------------------
(* The block tree.                                                           *)

\* What the library's theorems say of numbers and of finite sets of blocks: every
\* set of naturals has a least element, and sets of blocks can be counted.  It is
\* a hypothesis of the lemmas that need it, proved in ChainStateProofs (CountingHolds) as late
\* as possible: the provers are slow in every step that has the library in its
\* context.
Counting ==
  /\ \A T \in SUBSET Nat : T # {} => \E n \in T : \A m \in T : n <= m
  /\ \A S \in SUBSET Block : /\ Cardinality(S) \in Nat
                             /\ \A x \in S : Cardinality(S \ {x}) = Cardinality(S) - 1

\* A set of blocks closed under pprev that contains a block contains the whole
\* chain below it.
LEMMA ChainInClosed ==
  ASSUME NEW S \in SUBSET Block, ClosedUnderParent(S), NEW b \in S
  PROVE  Ancestors[b] \subseteq S
  BY DEF Ancestors

LEMMA AncestorsInBlock ==
  ASSUME NEW b \in Block
  PROVE  Ancestors[b] \subseteq Block
  BY DEF Ancestors

\* Every block is on its own chain.
LEMMA SelfAncestor ==
  ASSUME NEW b \in Block
  PROVE  b \in Ancestors[b]
  BY DEF Ancestors

\* The chain of a block contains the parent of each of its members.
LEMMA AncestorsClosed ==
  ASSUME NEW b \in Block
  PROVE  ClosedUnderParent(Ancestors[b])
  <1> SUFFICES ASSUME NEW a \in Ancestors[b], a # Genesis
               PROVE  Parent[a] \in Ancestors[b]
    BY DEF ClosedUnderParent
  <1>1. a \in Block
    BY DEF Ancestors
  <1>2. Parent[a] \in Block
    BY <1>1, BlockTreeAssumption
  <1>3. ASSUME NEW S \in SUBSET Block, b \in S, ClosedUnderParent(S)
        PROVE  Parent[a] \in S
    <2>1. a \in S
      BY <1>3 DEF Ancestors
    <2> QED BY <1>3, <2>1 DEF ClosedUnderParent
  <1> QED BY <1>2, <1>3 DEF Ancestors

\* Genesis is on no chain but as its root: its own chain is itself.
LEMMA GenesisAncestors == Ancestors[Genesis] = {Genesis}
  <1>1. Genesis \in Block /\ {Genesis} \in SUBSET Block
    BY BlockTreeAssumption
  <1>2. ClosedUnderParent({Genesis})
    BY DEF ClosedUnderParent
  <1>3. Ancestors[Genesis] \subseteq {Genesis}
    BY <1>1, <1>2, ChainInClosed
  <1> QED BY <1>1, <1>3, SelfAncestor

\* The chain of a block is the block on top of its parent's chain.
LEMMA AncestorsOfParent ==
  ASSUME NEW b \in Block, b # Genesis
  PROVE  Ancestors[b] = {b} \cup Ancestors[Parent[b]]
  <1>1. Parent[b] \in Block
    BY BlockTreeAssumption
  <1>2. b \in Ancestors[b] /\ Parent[b] \in Ancestors[b]
    BY SelfAncestor, AncestorsClosed DEF ClosedUnderParent
  <1>3. Ancestors[Parent[b]] \subseteq Ancestors[b]
    BY <1>2, AncestorsClosed, AncestorsInBlock, ChainInClosed
  <1>4. Ancestors[b] \subseteq {b} \cup Ancestors[Parent[b]]
    <2> DEFINE S == {b} \cup Ancestors[Parent[b]]
    <2>1. S \in SUBSET Block
      BY <1>1, AncestorsInBlock
    <2>2. Parent[b] \in Ancestors[Parent[b]]
      BY <1>1, SelfAncestor
    <2>3. ClosedUnderParent(Ancestors[Parent[b]])
      BY <1>1, AncestorsClosed
    <2>4. ClosedUnderParent(S)
      BY <2>2, <2>3 DEF ClosedUnderParent
    <2>5. b \in S
      OBVIOUS
    <2> HIDE DEF S
    <2>6. Ancestors[b] \subseteq S
      BY <2>1, <2>4, <2>5, ChainInClosed
    <2> QED BY <2>6 DEF S
  <1> QED BY <1>2, <1>3, <1>4

\* Between a block and a proper ancestor there is a next block to go to.
LEMMA NextTowardsExists ==
  ASSUME NEW b \in Block, NEW a \in Ancestors[b], a # b
  PROVE  /\ NextTowards(a, b) \in Ancestors[b]
         /\ NextTowards(a, b) \in Block \ {Genesis}
         /\ Parent[NextTowards(a, b)] = a
  <1>1. Ancestors[b] \cap Children(a) # {}
    <2> SUFFICES ASSUME Ancestors[b] \cap Children(a) = {} PROVE FALSE
      OBVIOUS
    <2> DEFINE S == Ancestors[b] \ {a}
    <2>1. S \in SUBSET Block
      BY AncestorsInBlock
    <2>2. ClosedUnderParent(S)
      <3> SUFFICES ASSUME NEW x \in S, x # Genesis PROVE Parent[x] \in S
        BY DEF ClosedUnderParent
      <3>1. Parent[x] \in Ancestors[b]
        BY AncestorsClosed DEF ClosedUnderParent
      <3>2. x \in Block
        BY AncestorsInBlock
      <3>3. Parent[x] # a
        BY <3>2 DEF Children
      <3> QED BY <3>1, <3>3
    <2>3. b \in S
      BY SelfAncestor
    <2> HIDE DEF S
    <2>4. Ancestors[b] \subseteq S
      BY <2>1, <2>2, <2>3, ChainInClosed
    <2> QED BY <2>4 DEF S
  <1>2. NextTowards(a, b) \in Ancestors[b] \cap Children(a)
    BY <1>1 DEF NextTowards
  <1> QED BY <1>2 DEF Children

\* Genesis is on the chain of every block: a set that is closed under parents
\* contains the parent of its lowest block.
LEMMA GenesisOnChain ==
  ASSUME Counting, NEW S \in SUBSET Block, ClosedUnderParent(S), S # {}
  PROVE  Genesis \in S
  <1> DEFINE H == {Height[b] : b \in S}
  <1>1. H \in SUBSET Nat /\ H # {}
    BY BlockTreeAssumption
  <1>2. PICK n \in H : \A m \in H : n <= m
    BY <1>1, Zenon DEF Counting
  <1>3. PICK b \in S : Height[b] = n
    OBVIOUS
  <1>4. \A c \in S : Height[b] <= Height[c]
    BY <1>2, <1>3
  <1>5. b # Genesis => Height[Parent[b]] + 1 = Height[b] /\ Parent[b] \in S
                       /\ Height[Parent[b]] \in Nat
    BY BlockTreeAssumption DEF ClosedUnderParent
  <1>6. b = Genesis
    BY <1>4, <1>5
  <1> QED BY <1>6

LEMMA GenesisInAncestors ==
  ASSUME Counting, NEW b \in Block
  PROVE  Genesis \in Ancestors[b]
  BY GenesisOnChain, BlockTreeAssumption DEF Ancestors

\* A block on the chain of a block brings its own chain with it.
LEMMA AncestorsTransitive ==
  ASSUME NEW b \in Block, NEW a \in Ancestors[b]
  PROVE  a \in Block /\ Ancestors[a] \subseteq Ancestors[b]
  BY AncestorsInBlock, AncestorsClosed, ChainInClosed, Zenon

\* A block is higher than every other block on its chain.
LEMMA AncestorsLower ==
  ASSUME NEW b \in Block, NEW a \in Ancestors[b]
  PROVE  Height[a] \in Nat /\ Height[b] \in Nat /\ (a = b \/ Height[a] < Height[b])
  <1> DEFINE S == {x \in Ancestors[b] : x = b \/ Height[x] < Height[b]}
  <1>1. S \in SUBSET Block
    BY AncestorsInBlock
  <1>2. ASSUME NEW x \in S, x # Genesis
        PROVE  Parent[x] \in S
    <2>1. x \in Block /\ Parent[x] \in Ancestors[b]
      BY <1>1, <1>2, AncestorsClosed DEF ClosedUnderParent
    <2>2. Parent[x] \in Block /\ Height[x] = Height[Parent[x]] + 1
      BY <1>2, <2>1, BlockTreeAssumption
    <2>3. Height[x] \in Nat /\ Height[Parent[x]] \in Nat /\ Height[b] \in Nat
      BY <2>1, <2>2, BlockTreeAssumption
    <2> QED BY <2>1, <2>2, <2>3
  <1>3. b \in S
    BY SelfAncestor
  <1>4. ClosedUnderParent(S)
    BY <1>2, Zenon DEF ClosedUnderParent
  <1> HIDE DEF S
  <1>5. Ancestors[b] \subseteq S
    BY <1>1, <1>3, <1>4, ChainInClosed, Zenon
  <1>6. a = b \/ Height[a] < Height[b]
    BY <1>5 DEF S
  <1> QED BY <1>6, AncestorsInBlock, BlockTreeAssumption

\* Two blocks are not on each other's chains unless they are the same.
LEMMA AncestorsAntisymmetric ==
  ASSUME NEW b \in Block, NEW a \in Ancestors[b], b \in Ancestors[a]
  PROVE  a = b
  <1>1. a \in Block
    BY AncestorsInBlock
  <1>2. a = b \/ Height[a] < Height[b]
    BY AncestorsLower
  <1>3. a = b \/ Height[b] < Height[a]
    BY <1>1, AncestorsLower
  <1>4. Height[a] \in Nat /\ Height[b] \in Nat
    BY AncestorsLower
  <1> QED BY <1>2, <1>3, <1>4

\* The blocks of a chain are on each other's chains.
LEMMA AncestorsLinear ==
  ASSUME NEW b \in Block, NEW x \in Ancestors[b], NEW y \in Ancestors[b]
  PROVE  x \in Ancestors[y] \/ y \in Ancestors[x]
  <1> DEFINE S == {z \in Ancestors[b] : z \in Ancestors[y] \/ y \in Ancestors[z]}
  <1>1. S \in SUBSET Block /\ y \in Block
    BY AncestorsInBlock
  <1>2. ASSUME NEW z \in S, z # Genesis
        PROVE  Parent[z] \in S
    <2>1. z \in Block /\ Parent[z] \in Ancestors[b]
      BY <1>1, <1>2, AncestorsClosed DEF ClosedUnderParent
    <2>2. CASE z \in Ancestors[y]
      <3>1. Parent[z] \in Ancestors[y]
        BY <1>1, <1>2, <2>2, AncestorsClosed DEF ClosedUnderParent
      <3> QED BY <2>1, <3>1
    <2>3. CASE y \in Ancestors[z]
      <3>1. y = z \/ y \in Ancestors[Parent[z]]
        BY <1>2, <2>1, <2>3, AncestorsOfParent
      <3>2. z = y => Parent[z] \in Ancestors[y]
        BY <1>2, <2>1, SelfAncestor, AncestorsClosed DEF ClosedUnderParent
      <3> QED BY <2>1, <3>1, <3>2
    <2> QED BY <2>2, <2>3
  <1>3. b \in S
    BY SelfAncestor
  <1>4. ClosedUnderParent(S)
    BY <1>2, Zenon DEF ClosedUnderParent
  <1> HIDE DEF S
  <1>5. Ancestors[b] \subseteq S
    BY <1>1, <1>3, <1>4, ChainInClosed, Zenon
  <1> QED BY <1>5 DEF S

\* A set of blocks of one chain has a highest one, with the others on its chain.
LEMMA HighestOnChain ==
  ASSUME Counting, NEW b \in Block, NEW S \in SUBSET Ancestors[b], S # {}
  PROVE  \E x \in S : (\A y \in S : Height[y] <= Height[x])
  <1> DEFINE T == {n \in Nat : \E x \in S : Height[b] = Height[x] + n}
  <1>1. \A x \in S : x \in Block /\ Height[x] \in Nat /\ Height[b] \in Nat /\ Height[x] <= Height[b]
    BY AncestorsLower, AncestorsInBlock
  <1>2. T \in SUBSET Nat /\ T # {}
    <2>1. PICK x \in S : TRUE
      OBVIOUS
    <2>2. Height[b] - Height[x] \in T
      BY <1>1
    <2> QED BY <2>2
  <1>3. PICK n \in T : \A m \in T : n <= m
    BY <1>2, Zenon DEF Counting
  <1>4. PICK x \in S : Height[b] = Height[x] + n
    OBVIOUS
  <1>5. ASSUME NEW y \in S
        PROVE  Height[y] <= Height[x]
    <2>1. Height[b] - Height[y] \in T
      BY <1>1
    <2>2. n <= Height[b] - Height[y]
      BY <1>3, <2>1
    <2> QED BY <1>1, <1>4, <2>2
  <1> QED BY <1>5

\* It has a lowest one, too.
LEMMA LowestOnChain ==
  ASSUME Counting, NEW b \in Block, NEW S \in SUBSET Ancestors[b], S # {}
  PROVE  \E x \in S : (\A y \in S : Height[x] <= Height[y])
  <1> DEFINE T == {Height[x] : x \in S}
  <1>1. T \in SUBSET Nat /\ T # {}
    BY AncestorsLower
  <1>2. PICK n \in T : \A m \in T : n <= m
    BY <1>1, Zenon DEF Counting
  <1>3. PICK x \in S : Height[x] = n
    OBVIOUS
  <1> QED BY <1>2, <1>3

\* On a chain the lower block is on the chain of the higher.
LEMMA LowerIsAncestor ==
  ASSUME NEW b \in Block, NEW x \in Ancestors[b], NEW y \in Ancestors[b], Height[x] <= Height[y]
  PROVE  x \in Ancestors[y]
  <1>1. x \in Block /\ y \in Block
    BY AncestorsInBlock
  <1>2. x \in Ancestors[y] \/ y \in Ancestors[x]
    BY AncestorsLinear
  <1>3. y \in Ancestors[x] => y = x \/ Height[y] < Height[x]
    BY <1>1, AncestorsLower
  <1>4. Height[x] \in Nat /\ Height[y] \in Nat
    BY AncestorsLower
  <1>5. x \in Ancestors[y] \/ x = y
    BY <1>2, <1>3, <1>4
  <1> QED BY <1>1, <1>5, SelfAncestor

\* The last common ancestor is on both chains, and its chain is all they share.
LEMMA LastCommonAncestorShared ==
  ASSUME Counting, NEW a \in Block, NEW b \in Block
  PROVE  /\ LastCommonAncestor(a, b) \in Ancestors[a] \cap Ancestors[b]
         /\ LastCommonAncestor(a, b) \in Block
         /\ Ancestors[a] \cap Ancestors[b] = Ancestors[LastCommonAncestor(a, b)]
  <1> DEFINE S == Ancestors[a] \cap Ancestors[b]
             c == LastCommonAncestor(a, b)
  <1>1. S \in SUBSET Ancestors[a] /\ S # {}
    BY GenesisInAncestors
  <1>2. \E x \in S : (\A y \in S : Height[y] <= Height[x])
    BY <1>1, HighestOnChain, Zenon
  <1>3. c \in S /\ \A y \in S : Height[y] <= Height[c]
    BY <1>2 DEF LastCommonAncestor
  <1>4. c \in Block /\ Ancestors[c] \subseteq Ancestors[a] /\ Ancestors[c] \subseteq Ancestors[b]
    BY <1>3, AncestorsTransitive
  <1> HIDE DEF c
  <1>5. S \subseteq Ancestors[c]
    BY <1>3, LowerIsAncestor
  <1> USE DEF c
  <1> QED BY <1>3, <1>4, <1>5

-----------------------------------------------------------------------------
(* The invariants.                                                           *)

\* Zenon proves most steps of this module; the others name their prover.
USE ZenonT(30)

Flag == {DATA} \cup INVALID_MASK \cup PARKED_MASK
Validity == {UNKNOWN, TREE, TRANSACTIONS, SCRIPTS}

\* The records behind the variables; the pointers of CChain point into K.
ChainOf(K) == [tip: K, finalized: K \cup {Null}, header: K]

Activating == [pc: {"idle", "unlocked", "find", "step"}, mostWork: Block \cup {Null},
               start: Block \cup {Null}, old: Block \cup {Null}, low: Block \cup {Null}]

Types ==
  /\ index \in BlockIndex
  /\ chain \in ChainOf(Known(index))
  /\ ids \in [seq: Nat, reverse: Int, lastPrecious: Nat]
  /\ wanted \in BOOLEAN
  /\ disk \in [Block -> [validity: Validity, flags: SUBSET Flag]]
  /\ commands \in 0..MaxCommands /\ restarts \in 0..MaxRestarts

\* What is known, what is linked and what has data: chains down to genesis.
Rooted(ix) ==
  /\ Genesis \in ix.linked /\ ~IsInvalid(ix, Genesis)
  /\ ClosedUnderParent(ix.linked) /\ ClosedUnderParent(Known(ix))
  /\ \A b \in ix.linked : DATA \in ix.flags[b]
  /\ \A b \in Block : DATA \in ix.flags[b] => ix.validity[b] >= TRANSACTIONS
  /\ ix.cand \subseteq ix.linked
  /\ \A b \in ix.unlinked : DATA \in ix.flags[b]

\* The disk has the validity and the data of every block that is not dirty.
OnDisk(ix, d) ==
  /\ \A b \in Block \ ix.dirty : /\ d[b].validity = ix.validity[b]
                                 /\ DATA \in d[b].flags <=> DATA \in ix.flags[b]
  /\ d[Genesis].flags \cap INVALID_MASK = {}

\* No candidate has less work than the tip.
EnoughWork(ix, t) == \A b \in ix.cand : ChainWork[t] <= ChainWork[b]

\* What the thread in ActivateBestChain has in hand, when the blocks L are
\* linked and t is the tip.
InHand(a, L, t) ==
  /\ a \in Activating
  /\ a.pc = "idle" => a.mostWork = Null
  /\ a.pc = "find" => a.mostWork = Null /\ a.start \in Block
  /\ a.pc = "step" => /\ a.mostWork \in Block /\ a.start \in Block
                      /\ a.old \in Block /\ a.low \in Block \ {Genesis}
  /\ a.mostWork # Null => a.mostWork \in L /\ a.mostWork \notin Ancestors[t]

\* UnwindBlock is never called for genesis.
InUnwind(u) ==
  /\ u \in [pc: {"idle", "walk", "mark"}, target: Block \cup {Null}, mark: Block \cup {Null},
            own: {FAILED, PARKED}]
  /\ u.pc # "idle" => u.target \in Block \ {Genesis} /\ u.mark \in Block \ {Genesis}

Shape ==
  /\ Types
  /\ Rooted(index)
  /\ OnDisk(index, disk)
  /\ EnoughWork(index, chain.tip)
  /\ InHand(abc, index.linked, chain.tip)
  /\ chain.tip \in index.linked
  /\ InUnwind(unwind)

\* Every mark of the kind "mask" is that of a block on the chain marked "own".
Caused(fl, mask, own) ==
  \A b \in Block : fl[b] \cap mask # {} => \E a \in Ancestors[b] : own \in fl[a]

Causes == Caused(index.flags, INVALID_MASK, FAILED) /\ Caused(index.flags, PARKED_MASK, PARKED)


-----------------------------------------------------------------------------
(* The start of the node, restarts and flushes.                              *)

LEMMA FlagsDiffer ==
  /\ DATA \notin INVALID_MASK /\ DATA \notin PARKED_MASK
  /\ \A f \in INVALID_MASK : f \notin PARKED_MASK
  /\ FAILED \in INVALID_MASK /\ FAILED_PARENT \in INVALID_MASK
  /\ PARKED \in PARKED_MASK /\ PARKED_PARENT \in PARKED_MASK
  /\ FAILED # FAILED_PARENT /\ PARKED # PARKED_PARENT
BY DEF DATA, INVALID_MASK, PARKED_MASK, FAILED, FAILED_PARENT, PARKED, PARKED_PARENT

LEMMA NullOutside == Null \notin Block
BY ChainStateAssumption

LEMMA IdleInHand ==
  ASSUME NEW L, NEW t
  PROVE  InHand(Idle, L, t) /\ Idle.mostWork = Null /\ Idle.pc = "idle"
BY DEF InHand, Idle, Activating

LEMMA ShapeInit ==
  ASSUME Init
  PROVE  Shape
<1>1. Genesis \in Block /\ Null \notin Block
  BY BlockTreeAssumption, NullOutside
<1> DEFINE va == [b \in Block |-> IF b = Genesis THEN TRANSACTIONS ELSE UNKNOWN]
           fl == [b \in Block |-> IF b = Genesis THEN {DATA} ELSE {}]
           se == [b \in Block |-> IF b = Genesis THEN 1 ELSE 0]
<1>2. /\ va \in [Block -> Validity] /\ fl \in [Block -> SUBSET Flag] /\ se \in [Block -> Int]
      /\ {Genesis} \in SUBSET Block /\ {} \in SUBSET Block
  BY <1>1, SMTT(30) DEF Validity, Flag
<1>3. \A b \in Block : /\ va[b] = IF b = Genesis THEN TRANSACTIONS ELSE UNKNOWN
                       /\ fl[b] = IF b = Genesis THEN {DATA} ELSE {}
  OBVIOUS
<1>4. index = [validity |-> va, flags |-> fl, seq |-> se, linked |-> {Genesis}, unlinked |-> {},
               cand |-> {Genesis}, failed |-> {}, dirty |-> {Genesis}]
  BY DEF Init
<1> HIDE DEF va, fl, se
<1>5. /\ index \in BlockIndex /\ index.validity = va /\ index.flags = fl
      /\ index.linked = {Genesis} /\ index.unlinked = {} /\ index.cand = {Genesis}
      /\ index.dirty = {Genesis}
  BY <1>2, <1>4 DEF BlockIndex, Flag, Validity
<1>6. Known(index) = {Genesis}
  BY <1>1, <1>3, <1>5, SMTT(30) DEF Known, UNKNOWN, TRANSACTIONS
<1>7. /\ chain = [tip |-> Genesis, finalized |-> Null, header |-> Genesis]
      /\ ids = [seq |-> 2, reverse |-> -1, lastPrecious |-> 0]
      /\ abc = Idle /\ wanted = FALSE /\ unwind = NotUnwinding
      /\ disk = [b \in Block |-> [validity |-> UNKNOWN, flags |-> {}]]
      /\ commands = 0 /\ restarts = 0
  BY DEF Init
<1>8. chain \in ChainOf(Known(index)) /\ chain.tip = Genesis
  BY <1>6, <1>7 DEF ChainOf
<1>9. ids \in [seq: Nat, reverse: Int, lastPrecious: Nat]
  BY <1>7, SMTT(30)
<1>10. /\ disk \in [Block -> [validity: Validity, flags: SUBSET Flag]]
       /\ \A b \in Block : disk[b].validity = UNKNOWN /\ disk[b].flags = {}
  BY <1>7 DEF Validity
<1>11. Types
  <2>1. commands \in 0..MaxCommands /\ restarts \in 0..MaxRestarts
    BY <1>7, ChainStateAssumption, SMTT(30)
  <2> QED
    BY <1>5, <1>7, <1>8, <1>9, <1>10, <2>1 DEF Types
<1> /\ index.flags[Genesis] = {DATA} /\ index.validity[Genesis] = TRANSACTIONS
    /\ \A b \in Block \ {Genesis} : index.flags[b] = {} /\ index.validity[b] = UNKNOWN
  BY <1>1, <1>3, <1>5
<1>13. Rooted(index)
  <2>1. ClosedUnderParent({Genesis})
    BY DEF ClosedUnderParent
  <2>2. \A b \in Block : DATA \in index.flags[b] => index.validity[b] >= TRANSACTIONS
    BY SMTT(30) DEF TRANSACTIONS
  <2>3. ~IsInvalid(index, Genesis)
    BY FlagsDiffer DEF IsInvalid
  <2> QED
    BY <1>5, <1>6, <2>1, <2>2, <2>3 DEF Rooted
<1>14. OnDisk(index, disk)
  BY <1>1, <1>5, <1>10 DEF OnDisk
<1>15. EnoughWork(index, chain.tip)
  BY <1>1, <1>5, <1>8, ChainStateAssumption, SMTT(30) DEF EnoughWork
<1>16. InHand(abc, index.linked, chain.tip)
  BY <1>7, IdleInHand
<1>17. InUnwind(unwind)
  BY <1>7 DEF InUnwind, NotUnwinding
<1> QED
  BY <1>5, <1>8, <1>11, <1>13, <1>14, <1>15, <1>16, <1>17 DEF Shape

LEMMA IndexFields ==
  ASSUME NEW ix \in BlockIndex
  PROVE  /\ ix.validity \in [Block -> Validity] /\ ix.flags \in [Block -> SUBSET Flag]
         /\ ix.seq \in [Block -> Int]
         /\ ix.linked \in SUBSET Block /\ ix.unlinked \in SUBSET Block /\ ix.cand \in SUBSET Block
         /\ ix.failed \in SUBSET Block /\ ix.dirty \in SUBSET Block
BY DEF BlockIndex, Flag, Validity

LEMMA PruneFields ==
  ASSUME NEW ix \in BlockIndex, NEW t \in Block
  PROVE  LET iy == PruneBlockIndexCandidates(ix, t)
         IN  /\ iy \in BlockIndex
             /\ iy.validity = ix.validity /\ iy.flags = ix.flags /\ iy.seq = ix.seq
             /\ iy.linked = ix.linked /\ iy.unlinked = ix.unlinked
             /\ iy.failed = ix.failed /\ iy.dirty = ix.dirty
             /\ iy.cand = {b \in ix.cand : ~Worse(ix, b, t)}
BY DEF PruneBlockIndexCandidates, BlockIndex

LEMMA WorseOrder ==
  ASSUME NEW ix \in BlockIndex
  PROVE  /\ \A a, b \in Block : a # b => Worse(ix, a, b) \/ Worse(ix, b, a)
         /\ \A a, b, c \in Block : Worse(ix, a, b) /\ Worse(ix, b, c) => Worse(ix, a, c)
         /\ \A a, b \in Block : Worse(ix, a, b) \/ ~Worse(ix, b, a) => ChainWork[a] <= ChainWork[b]
         /\ \A a \in Block : ~Worse(ix, a, a)
         /\ \A a, b \in Block : ChainWork[a] < ChainWork[b] => Worse(ix, a, b)
<1>1. /\ ix.seq \in [Block -> Int] /\ ChainWork \in [Block -> Nat] /\ Addr \in [Block -> Nat]
      /\ \A a, b \in Block : Addr[a] = Addr[b] => a = b
  BY IndexFields, ChainStateAssumption
<1> QED
  BY <1>1, SMTT(30) DEF Worse

LEMMA BestExists ==
  ASSUME Counting, NEW ix \in BlockIndex, NEW R \in SUBSET Block, R # {}
  PROVE  \E b \in R : \A c \in R \ {b} : Worse(ix, c, b)
<1> DEFINE Best(S) == \E b \in S : \A c \in S \ {b} : Worse(ix, c, b)
           T == {n \in Nat : \E S \in SUBSET Block : S # {} /\ Cardinality(S) = n /\ ~Best(S)}
<1> \A S \in SUBSET Block : Cardinality(S) \in Nat
  BY DEF Counting
<1> SUFFICES ASSUME ~Best(R) PROVE FALSE
  OBVIOUS
<1>2. Cardinality(R) \in T
  OBVIOUS
<1>3. PICK n \in T : \A m \in T : n <= m
  <2> HIDE DEF T
  <2>1. T \in SUBSET Nat
    BY DEF T
  <2> QED
    BY <1>2, <2>1 DEF Counting
<1> PICK S \in SUBSET Block : S # {} /\ Cardinality(S) = n /\ ~Best(S)
  OBVIOUS
<1>5. PICK x \in S : TRUE
  OBVIOUS
<1> Cardinality(S \ {x}) = n - 1 /\ S \ {x} \in SUBSET Block
  BY DEF Counting
<1>7. S \ {x} = {} \/ Best(S \ {x})
  <2>1. n \in Nat /\ n - 1 \notin T
    <3> HIDE DEF T
    <3>1. n \in Nat
      BY DEF T
    <3> QED
      BY <1>3, <3>1, SMTT(30)
  <2>2. n - 1 \in Nat
    OBVIOUS
  <2> QED
    BY <2>1, <2>2
<1> CASE S \ {x} = {}
  OBVIOUS
<1> CASE Best(S \ {x})
  <2> PICK y \in S \ {x} : \A c \in (S \ {x}) \ {y} : Worse(ix, c, y)
    OBVIOUS
  <2> x \in Block /\ y \in Block /\ x # y
    OBVIOUS
  <2> CASE Worse(ix, x, y)
    <3>1. \A c \in S \ {y} : Worse(ix, c, y)
      OBVIOUS
    <3> QED
      BY <3>1
  <2> CASE Worse(ix, y, x)
    <3>1. \A c \in S \ {x} : Worse(ix, c, x)
      BY WorseOrder
    <3> QED
      BY <3>1
  <2> QED
    BY WorseOrder
<1> QED
  BY <1>7

LEMMA ShapeFacts ==
  ASSUME Shape
  PROVE  /\ index \in BlockIndex /\ index.linked \in SUBSET Block /\ Known(index) \in SUBSET Block
         /\ ClosedUnderParent(Known(index)) /\ index.linked \subseteq Known(index)
         /\ chain \in ChainOf(Known(index)) /\ chain.tip \in Block /\ chain.tip \in index.linked
         /\ chain.finalized \in Block \cup {Null} /\ abc \in Activating
         /\ index.flags \in [Block -> SUBSET Flag] /\ index.cand \in SUBSET Block
<1> index \in BlockIndex /\ chain \in ChainOf(Known(index)) /\ abc \in Activating
  BY DEF Shape, Types, InHand
<1> index.linked \in SUBSET Block /\ index.flags \in [Block -> SUBSET Flag] /\ index.cand \in SUBSET Block
  BY IndexFields
<1>3. Known(index) \in SUBSET Block /\ ClosedUnderParent(Known(index))
  BY DEF Known, Shape, Rooted
<1>4. index.linked \subseteq Known(index)
  <2>1. \A b \in index.linked : b \in Block /\ index.validity[b] >= TRANSACTIONS
    BY DEF Shape, Rooted
  <2> QED
    BY <2>1, SMTT(30) DEF Known, TRANSACTIONS, UNKNOWN
<1>5. chain.tip \in index.linked
  BY DEF Shape
<1>6. chain.finalized \in Known(index) \cup {Null}
  BY DEF ChainOf
<1> QED
  BY <1>3, <1>4, <1>5, <1>6

\* What a flush writes agrees with the index.
LEMMA FlushedFacts ==
  ASSUME Shape
  PROVE  /\ Flushed \in [Block -> [validity: Validity, flags: SUBSET Flag]]
         /\ \A b \in Block : /\ Flushed[b].validity = index.validity[b]
                             /\ DATA \in Flushed[b].flags <=> DATA \in index.flags[b]
                             /\ b \in index.dirty => Flushed[b].flags = index.flags[b]
                             /\ b \notin index.dirty => Flushed[b].flags = disk[b].flags
         /\ Flushed[Genesis].flags \cap INVALID_MASK = {}
<1> /\ index.validity \in [Block -> Validity] /\ index.flags \in [Block -> SUBSET Flag]
    /\ disk \in [Block -> [validity: Validity, flags: SUBSET Flag]]
  BY ShapeFacts, IndexFields DEF Shape, Types
<1> \A b \in Block : Flushed[b] = IF b \in index.dirty
                                  THEN [validity |-> index.validity[b], flags |-> index.flags[b]]
                                  ELSE disk[b]
  BY DEF Flushed, Entry
<1> ASSUME NEW b \in Block
    PROVE  /\ Flushed[b] \in [validity: Validity, flags: SUBSET Flag]
           /\ Flushed[b].validity = index.validity[b]
           /\ DATA \in Flushed[b].flags <=> DATA \in index.flags[b]
           /\ b \in index.dirty => Flushed[b].flags = index.flags[b]
           /\ b \notin index.dirty => Flushed[b].flags = disk[b].flags
  <2> CASE b \in index.dirty
    <3>1. Flushed[b] = [validity |-> index.validity[b], flags |-> index.flags[b]]
      OBVIOUS
    <3>2. index.validity[b] \in Validity /\ index.flags[b] \in SUBSET Flag
      OBVIOUS
    <3>3. /\ Flushed[b] \in [validity: Validity, flags: SUBSET Flag]
          /\ Flushed[b].validity = index.validity[b] /\ Flushed[b].flags = index.flags[b]
      BY <3>1, <3>2, SMTT(30)
    <3> QED
      BY <3>3
  <2> CASE b \notin index.dirty
    <3>1. Flushed[b] = disk[b]
      OBVIOUS
    <3>2. disk[b].validity = index.validity[b] /\ (DATA \in disk[b].flags <=> DATA \in index.flags[b])
      BY DEF Shape, OnDisk
    <3> QED
      BY <3>1, <3>2
  <2> QED
    OBVIOUS
<1>4. Flushed \in [Block -> [validity: Validity, flags: SUBSET Flag]]
  BY DEF Flushed
<1>5. Flushed[Genesis].flags \cap INVALID_MASK = {}
  <2>1. Genesis \in Block
    BY BlockTreeAssumption
  <2>2. index.flags[Genesis] \cap INVALID_MASK = {} /\ disk[Genesis].flags \cap INVALID_MASK = {}
    BY DEF Shape, Rooted, OnDisk, IsInvalid
  <2> QED
    BY <2>1, <2>2
<1> QED
  BY <1>4, <1>5

\* What a restart makes of the index.
Reloaded(orphaned) ==
  /\ orphaned \in SUBSET (Known(index) \ {Genesis})
  /\ \A b \in orphaned : FAILED \notin Flushed[b].flags /\ FAILED \in Flushed[Parent[b]].flags
  /\ index' \in BlockIndex
  /\ index'.validity = index.validity
  /\ index'.linked = {b \in Block : \A a \in Ancestors[b] : DATA \in Flushed[a].flags}
  /\ index'.unlinked = {b \in Known(index) \ index'.linked : DATA \in Flushed[b].flags}
  /\ index'.failed = {} /\ index'.dirty = orphaned
  /\ \A b \in Block : index'.flags[b] = IF b \in orphaned THEN Flushed[b].flags \cup {FAILED_PARENT}
                                        ELSE Flushed[b].flags
  /\ index'.cand = {b \in index'.linked : /\ IsValid(index', b, TRANSACTIONS)
                                          /\ ~Worse(index', b, chain.tip)}
  /\ \A b \in Block : index'.seq[b] = 0
  /\ chain' \in ChainOf(Known(index)) /\ chain'.tip = chain.tip /\ chain'.finalized = Null

LEMMA RestartEffect ==
  ASSUME Counting, Shape, Restart
  PROVE  \E orphaned : Reloaded(orphaned)
<1> DEFINE db == Flushed
           known == {b \in Block : db[b].validity # UNKNOWN}
           orphaned == {b \in known \ {Genesis} : /\ FAILED \notin db[b].flags
                                                  /\ FAILED \in db[Parent[b]].flags}
           complete == {b \in Block : \A a \in Ancestors[b] : DATA \in db[a].flags}
           va == [b \in Block |-> db[b].validity]
           fl == [b \in Block |-> IF b \in orphaned THEN db[b].flags \cup {FAILED_PARENT}
                                  ELSE db[b].flags]
           se == [b \in Block |-> 0]
           un == {b \in known \ complete : DATA \in db[b].flags}
           i0 == [validity |-> va, flags |-> fl, seq |-> se, linked |-> complete, unlinked |-> un,
                  cand |-> {}, failed |-> {}, dirty |-> orphaned]
           ca == {b \in complete : IsValid(i0, b, TRANSACTIONS)}
           ix == LoadBlockIndex(db)
           headers == {b \in Known(ix) : IsValid(ix, b, TREE)}
<1>1. /\ index' = PruneBlockIndexCandidates(ix, chain.tip)
      /\ chain' = [tip |-> chain.tip, finalized |-> Null,
                   header |-> CHOOSE h \in headers : \A b \in headers \ {h} : Worse(ix, b, h)]
  BY DEF Restart
<1>2. ix = [i0 EXCEPT !.cand = ca]
  BY DEF LoadBlockIndex, LoadedIndex
<1>3. /\ db \in [Block -> [validity: Validity, flags: SUBSET Flag]]
      /\ \A b \in Block : db[b].validity = index.validity[b]
      /\ db[Genesis].flags \cap INVALID_MASK = {}
  BY FlushedFacts
<1>4. index.validity \in [Block -> Validity]
  BY ShapeFacts, IndexFields
<1>5. known = Known(index)
  BY <1>3 DEF Known
<1> HIDE DEF db, ix
<1>6. va = index.validity
  BY <1>3, <1>4
<1>7. orphaned \in SUBSET Block /\ complete \in SUBSET Block /\ un \in SUBSET Block
  OBVIOUS
<1> \A b \in Block : fl[b] = IF b \in orphaned THEN db[b].flags \cup {FAILED_PARENT} ELSE db[b].flags
  OBVIOUS
<1>9. fl \in [Block -> SUBSET Flag]
  <2>1. FAILED_PARENT \in Flag
    BY FlagsDiffer DEF Flag
  <2>2. \A b \in Block : fl[b] \in SUBSET Flag
    <3> HIDE DEF fl, orphaned
    <3> QED
      BY <1>3, <2>1
  <2> QED
    BY <2>2
<1>10. se \in [Block -> Int] /\ \A b \in Block : se[b] = 0
  BY SMTT(30)
<1> HIDE DEF fl, orphaned, complete, un, va, se
<1>11. /\ i0 \in BlockIndex /\ i0.validity = va /\ i0.flags = fl /\ i0.seq = se
       /\ i0.linked = complete /\ i0.unlinked = un /\ i0.failed = {} /\ i0.dirty = orphaned
  BY <1>4, <1>6, <1>7, <1>9, <1>10 DEF BlockIndex, Flag, Validity
<1>12. ca \in SUBSET Block
  BY <1>7
<1> HIDE DEF i0, ca
<1>13. /\ ix \in BlockIndex /\ ix.validity = va /\ ix.flags = fl /\ ix.seq = se
       /\ ix.linked = complete /\ ix.unlinked = un /\ ix.failed = {} /\ ix.dirty = orphaned
       /\ ix.cand = ca
  BY <1>2, <1>11, <1>12 DEF BlockIndex
<1>14. chain.tip \in Block /\ chain.tip \in Known(index)
  BY ShapeFacts
<1>15. /\ index' \in BlockIndex
       /\ index'.validity = va /\ index'.flags = fl /\ index'.seq = se
       /\ index'.linked = complete /\ index'.unlinked = un
       /\ index'.failed = {} /\ index'.dirty = orphaned
       /\ index'.cand = {b \in ca : ~Worse(ix, b, chain.tip)}
  BY <1>1, <1>13, <1>14, PruneFields
<1>16. index'.cand = {b \in complete : /\ IsValid(index', b, TRANSACTIONS)
                                       /\ ~Worse(index', b, chain.tip)}
  <2>1. \A b : Worse(ix, b, chain.tip) <=> Worse(index', b, chain.tip)
    BY <1>13, <1>15 DEF Worse
  <2>2. \A b : IsValid(i0, b, TRANSACTIONS) <=> IsValid(index', b, TRANSACTIONS)
    BY <1>11, <1>15 DEF IsValid, IsInvalid
  <2> QED
    BY <1>15, <2>1, <2>2 DEF ca
<1>17. chain' \in ChainOf(Known(index)) /\ chain'.tip = chain.tip /\ chain'.finalized = Null
  <2>1. Known(ix) = Known(index)
    BY <1>6, <1>13 DEF Known
  <2>2. Genesis \in headers
    <3> Genesis \in Block /\ Genesis \in index.linked /\ index.linked \subseteq Known(index)
      BY ShapeFacts, BlockTreeAssumption DEF Shape, Rooted
    <3>2. index.validity[Genesis] >= TRANSACTIONS
      BY DEF Shape, Rooted
    <3>3. index.validity[Genesis] >= TREE
      <4>1. index.validity[Genesis] \in Validity
        BY <1>4
      <4> QED
        BY <3>2, <4>1, SMTT(30) DEF Validity, UNKNOWN, TREE, TRANSACTIONS, SCRIPTS
    <3>4. ix.flags[Genesis] = db[Genesis].flags
      BY <1>13 DEF orphaned
    <3>5. IsValid(ix, Genesis, TREE)
      BY <1>3, <1>6, <1>13, <3>3, <3>4 DEF IsValid, IsInvalid
    <3> QED
      BY <2>1, <3>5
  <2> headers \in SUBSET Block /\ headers \subseteq Known(index)
    BY <2>1 DEF Known
  <2> HIDE DEF headers
  <2>4. \E h \in headers : \A b \in headers \ {h} : Worse(ix, b, h)
    BY <1>13, <2>2, BestExists
  <2> DEFINE top == CHOOSE h \in headers : \A b \in headers \ {h} : Worse(ix, b, h)
  <2>5. top \in Known(index)
    BY <2>4
  <2>6. chain' = [tip |-> chain.tip, finalized |-> Null, header |-> top]
    BY <1>1
  <2> HIDE DEF top
  <2> QED
    BY <1>14, <2>5, <2>6 DEF ChainOf
<1>18. /\ orphaned \in SUBSET (Known(index) \ {Genesis})
       /\ \A b \in orphaned : FAILED \notin db[b].flags /\ FAILED \in db[Parent[b]].flags
  BY <1>5 DEF orphaned
<1>19. un = {b \in Known(index) \ complete : DATA \in db[b].flags}
  BY <1>5 DEF un
<1>20. Reloaded(orphaned)
  BY <1>6, <1>10, <1>15, <1>16, <1>17, <1>18, <1>19 DEF Reloaded, db, complete
<1> QED
  BY <1>20

LEMMA ShapeRestart ==
  ASSUME Counting, Shape, Restart
  PROVE  Shape' /\ index'.linked \subseteq Block
<1>1. PICK orphaned : Reloaded(orphaned)
  BY RestartEffect
<1> /\ restarts < MaxRestarts /\ restarts' = restarts + 1 /\ disk' = Flushed
    /\ ids' = [seq |-> 1, reverse |-> -1, lastPrecious |-> 0] /\ abc' = Idle /\ wanted' = TRUE
    /\ UNCHANGED <<unwind, commands>>
  BY DEF Restart
<1> /\ index.linked \in SUBSET Block /\ chain.tip \in index.linked /\ chain.tip \in Block
    /\ Known(index) \in SUBSET Block
  BY ShapeFacts
<1> \A b \in Block : DATA \in Flushed[b].flags <=> DATA \in index.flags[b]
  BY FlushedFacts
<1> \A b \in Block : DATA \in index'.flags[b] <=> DATA \in Flushed[b].flags
  <2>1. DATA # FAILED_PARENT
    BY FlagsDiffer
  <2>2. \A b \in Block : \/ index'.flags[b] = Flushed[b].flags
                         \/ index'.flags[b] = Flushed[b].flags \cup {FAILED_PARENT}
    BY <1>1 DEF Reloaded
  <2> QED
    BY <2>1, <2>2
<1> index'.linked = {b \in Block : \A a \in Ancestors[b] : DATA \in Flushed[a].flags}
  BY <1>1 DEF Reloaded
<1> index.linked \subseteq index'.linked
  <2> ASSUME NEW b \in index.linked PROVE b \in index'.linked
    <3>1. Ancestors[b] \subseteq index.linked
      BY ChainInClosed DEF Shape, Rooted
    <3>2. \A a \in Ancestors[b] : DATA \in Flushed[a].flags
      BY <3>1 DEF Shape, Rooted
    <3> QED
      BY <3>2
  <2> QED
    OBVIOUS
<1> Known(index') = Known(index)
  <2>1. index'.validity = index.validity
    BY <1>1 DEF Reloaded
  <2> QED
    BY <2>1 DEF Known
<1>8. ClosedUnderParent(index'.linked)
  <2> ASSUME NEW b \in index'.linked \ {Genesis} PROVE Parent[b] \in index'.linked
    <3> b \in Block /\ \A a \in Ancestors[b] : DATA \in Flushed[a].flags
      BY <1>1 DEF Reloaded
    <3> Parent[b] \in Block /\ Ancestors[b] = {b} \cup Ancestors[Parent[b]]
      BY AncestorsOfParent, BlockTreeAssumption
    <3>3. \A a \in Ancestors[Parent[b]] : DATA \in Flushed[a].flags
      OBVIOUS
    <3> QED
      BY <3>3
  <2> QED
    BY DEF ClosedUnderParent
<1> index'.linked \subseteq Block /\ \A b \in index'.linked : DATA \in index'.flags[b]
  <2>1. \A b \in index'.linked : b \in Block /\ DATA \in Flushed[b].flags
    BY <1>1, SelfAncestor DEF Reloaded
  <2> QED
    BY <2>1
<1>10. ~IsInvalid(index', Genesis)
  <2>1. index'.flags[Genesis] = Flushed[Genesis].flags
    BY <1>1, BlockTreeAssumption DEF Reloaded
  <2> QED
    BY <2>1, FlushedFacts DEF IsInvalid
<1>11. Rooted(index')
  <2>1. \A b \in Block : DATA \in index'.flags[b] => index'.validity[b] >= TRANSACTIONS
    BY <1>1 DEF Reloaded, Shape, Rooted
  <2>2. \A b \in index'.unlinked : DATA \in index'.flags[b]
    BY <1>1 DEF Reloaded
  <2>3. index'.cand \subseteq index'.linked
    BY <1>1 DEF Reloaded
  <2>4. Genesis \in index'.linked /\ ClosedUnderParent(Known(index'))
    BY DEF Shape, Rooted
  <2> QED
    BY <1>8, <1>10, <2>1, <2>2, <2>3, <2>4 DEF Rooted
<1>12. OnDisk(index', disk')
  <2>1. index'.validity = index.validity
    BY <1>1 DEF Reloaded
  <2>2. /\ \A b \in Block : Flushed[b].validity = index.validity[b]
        /\ Flushed[Genesis].flags \cap INVALID_MASK = {}
    BY FlushedFacts
  <2> QED
    BY <2>1, <2>2 DEF OnDisk
<1>13. EnoughWork(index', chain'.tip)
  <2>1. \A b \in index'.cand : b \in Block /\ ~Worse(index', b, chain.tip)
    BY <1>1 DEF Reloaded
  <2>2. index' \in BlockIndex /\ chain'.tip = chain.tip
    BY <1>1 DEF Reloaded
  <2> QED
    BY <2>1, <2>2, WorseOrder DEF EnoughWork
<1>14. InHand(abc', index'.linked, chain'.tip)
  BY IdleInHand
<1>15. chain'.tip \in index'.linked
  BY <1>1 DEF Reloaded
<1>16. Types'
  <2>1. ids' \in [seq: Nat, reverse: Int, lastPrecious: Nat]
    BY SMTT(30)
  <2>2. restarts' \in 0..MaxRestarts
    <3>1. restarts \in 0..MaxRestarts
      BY DEF Shape, Types
    <3> QED
      BY <3>1, ChainStateAssumption, SMTT(30)
  <2>3. disk' \in [Block -> [validity: Validity, flags: SUBSET Flag]]
    BY FlushedFacts
  <2>4. index' \in BlockIndex /\ chain' \in ChainOf(Known(index'))
    BY <1>1 DEF Reloaded
  <2>5. wanted' \in BOOLEAN /\ commands' \in 0..MaxCommands
    BY DEF Shape, Types
  <2> QED
    BY <2>1, <2>2, <2>3, <2>4, <2>5 DEF Types
<1>17. InUnwind(unwind')
  BY DEF Shape
<1> QED
  BY <1>11, <1>12, <1>13, <1>14, <1>15, <1>16, <1>17 DEF Shape

LEMMA FlushEffect ==
  ASSUME Counting, Shape, FlushBlockIndex
  PROVE  /\ index' \in BlockIndex /\ index'.validity = index.validity /\ index'.flags = index.flags
         /\ index'.seq = index.seq /\ index'.linked = index.linked /\ index'.unlinked = index.unlinked
         /\ index'.cand = index.cand /\ index'.failed = index.failed /\ index'.dirty = {}
         /\ disk' = Flushed /\ UNCHANGED <<chain, ids, abc, wanted, unwind, commands, restarts>>
<1> /\ index' = [index EXCEPT !.dirty = {}] /\ disk' = Flushed
    /\ UNCHANGED <<chain, ids, abc, wanted, unwind, commands, restarts>>
  BY DEF FlushBlockIndex
<1>2. index \in BlockIndex
  BY ShapeFacts
<1>3. {} \in SUBSET Block
  OBVIOUS
<1>4. /\ index' \in BlockIndex /\ index'.validity = index.validity /\ index'.flags = index.flags
      /\ index'.seq = index.seq /\ index'.linked = index.linked /\ index'.unlinked = index.unlinked
      /\ index'.cand = index.cand /\ index'.failed = index.failed /\ index'.dirty = {}
  BY <1>2, <1>3 DEF BlockIndex
<1> QED
  BY <1>4

LEMMA ShapeFlush ==
  ASSUME Counting, Shape, FlushBlockIndex
  PROVE  Shape'
<1> /\ index' \in BlockIndex /\ index'.validity = index.validity /\ index'.flags = index.flags
    /\ index'.linked = index.linked /\ index'.unlinked = index.unlinked
    /\ index'.cand = index.cand
    /\ disk' = Flushed /\ UNCHANGED <<chain, ids, abc, wanted, unwind, commands, restarts>>
  BY FlushEffect
<1> Known(index') = Known(index)
  BY DEF Known
<1>3. Rooted(index')
  BY DEF Shape, Rooted, IsInvalid
<1>4. OnDisk(index', disk')
  BY FlushedFacts DEF OnDisk
<1>5. disk' \in [Block -> [validity: Validity, flags: SUBSET Flag]]
  BY FlushedFacts
<1>6. Types'
  BY <1>5 DEF Shape, Types
<1> QED
  BY <1>3, <1>4, <1>6 DEF Shape, EnoughWork

-----------------------------------------------------------------------------
(* A block arrives.                                                          *)

\* AcceptBlock stores the block ...
BlockStored(b) ==
  /\ index' \in BlockIndex
  /\ b # Genesis
  /\ \A x \in Block \ {b} : index'.validity[x] = index.validity[x] /\ index'.flags[x] = index.flags[x]
  /\ index'.validity[b] >= TRANSACTIONS
  /\ \E park \in {{}, {PARKED}} : index'.flags[b] = index.flags[b] \cup {DATA} \cup park
  /\ index'.dirty = index.dirty \cup {b} /\ index'.failed = index.failed

\* ... and links it, or remembers it until its parent is.
BlockLinked(b) ==
  /\ Parent[b] \in index.linked
  /\ index'.linked = index.linked \cup LinkedWith(b)
  /\ index'.unlinked = index.unlinked \ LinkedWith(b)
  /\ index.cand \subseteq index'.cand /\ index'.cand \subseteq index.cand \cup LinkedWith(b)
  /\ \A x \in index'.cand \ index.cand : ChainWork[chain.tip] <= ChainWork[x]
  /\ \A x \in Block \ LinkedWith(b) : index'.seq[x] = index.seq[x]

BlockWaits(b) ==
  /\ Parent[b] \notin index.linked
  /\ index'.linked = index.linked
  /\ index'.unlinked = index.unlinked \cup (IF IsValid(index, Parent[b], TREE) THEN {b} ELSE {})
  /\ index'.cand = index.cand
  /\ index'.seq = index.seq

LEMMA AcceptBlockEffect ==
  ASSUME Counting, Shape, NEW b \in Block, AcceptBlock(b)
  PROVE  /\ BlockStored(b)
         /\ BlockLinked(b) \/ BlockWaits(b)
         /\ ids' \in [seq: Nat, reverse: Int, lastPrecious: Nat] /\ ids'.reverse = ids.reverse
<1> DEFINE park == IF ParkDeepReorg /\ IsDeepReorg(b) THEN {PARKED} ELSE {}
           fl == [index.flags EXCEPT ![b] = @ \cup {DATA} \cup park]
           first == [index EXCEPT !.flags[b] = @ \cup {DATA} \cup park, !.dirty = @ \cup {b}]
           stored == RaiseValidity(first, b, TRANSACTIONS)
<1>1. IF Parent[b] \in index.linked
      THEN \E order \in QueueOrders(LinkedWith(b)) :
             /\ index' = ReceivedBlockTransactions(stored, chain.tip, order)
             /\ ids' = [ids EXCEPT !.seq = @ + Cardinality({x \in LinkedWith(b) : index.seq[x] = 0})]
      ELSE /\ index' = [stored EXCEPT !.unlinked = @ \cup
                          (IF IsValid(index, Parent[b], TREE) THEN {b} ELSE {})]
           /\ ids' = ids
  BY DEF AcceptBlock
<1>2. park \in {{}, {PARKED}}
  OBVIOUS
<1>3. index \in BlockIndex /\ index.flags \in [Block -> SUBSET Flag]
  BY ShapeFacts
<1>4. DATA \notin index.flags[b] /\ ~IsInvalid(index, b)
  BY DEF AcceptBlock, BlockReaches
<1>5. b # Genesis
  BY <1>4 DEF Shape, Rooted
<1> HIDE DEF park
<1>6. fl \in [Block -> SUBSET Flag]
  <2>1. DATA \in Flag /\ PARKED \in Flag
    BY FlagsDiffer DEF Flag
  <2> QED
    BY <1>2, <1>3, <2>1
<1>7. /\ fl[b] = index.flags[b] \cup {DATA} \cup park
      /\ \A x \in Block \ {b} : fl[x] = index.flags[x]
  BY <1>3
<1>8. first = [index EXCEPT !.flags = fl, !.dirty = @ \cup {b}]
  BY <1>3 DEF BlockIndex
<1> HIDE DEF fl, first
<1>9. /\ first \in BlockIndex /\ first.flags = fl /\ first.validity = index.validity
      /\ first.seq = index.seq /\ first.linked = index.linked /\ first.unlinked = index.unlinked
      /\ first.cand = index.cand /\ first.failed = index.failed /\ first.dirty = index.dirty \cup {b}
  BY <1>3, <1>6, <1>8 DEF BlockIndex, Flag
<1>10. ~IsInvalid(first, b)
  <2>1. \A f \in INVALID_MASK : f \notin index.flags[b]
    BY <1>4 DEF IsInvalid
  <2>2. \A f \in INVALID_MASK : f \notin first.flags[b]
    BY <2>1, <1>2, <1>7, <1>9, FlagsDiffer
  <2> QED
    BY <2>2 DEF IsInvalid
<1>11. /\ stored \in BlockIndex /\ stored.flags = fl
       /\ \A x \in Block \ {b} : stored.validity[x] = index.validity[x]
       /\ stored.validity[b] >= TRANSACTIONS
       /\ stored.seq = index.seq /\ stored.linked = index.linked /\ stored.unlinked = index.unlinked
       /\ stored.cand = index.cand /\ stored.failed = index.failed /\ stored.dirty = index.dirty \cup {b}
  <2> CASE first.validity[b] >= TRANSACTIONS
    <3>1. stored = first
      BY DEF RaiseValidity
    <3> QED
      BY <1>9, <3>1
  <2> CASE ~(first.validity[b] >= TRANSACTIONS)
    <3> DEFINE va == [first.validity EXCEPT ![b] = TRANSACTIONS]
    <3>1. stored = [first EXCEPT !.validity[b] = TRANSACTIONS]
      BY <1>10 DEF RaiseValidity
    <3>2. stored = [first EXCEPT !.validity = va]
      <4> HIDE DEF stored
      <4> QED
        BY <1>9, <3>1 DEF BlockIndex
    <3> /\ va \in [Block -> Validity] /\ va[b] >= TRANSACTIONS
        /\ \A x \in Block \ {b} : va[x] = index.validity[x]
      BY <1>9, IndexFields, SMTT(30) DEF Validity, TRANSACTIONS
    <3> HIDE DEF va, stored
    <3>4. /\ stored \in BlockIndex /\ stored.validity = va /\ stored.flags = first.flags
          /\ stored.seq = first.seq /\ stored.linked = first.linked /\ stored.unlinked = first.unlinked
          /\ stored.cand = first.cand /\ stored.failed = first.failed /\ stored.dirty = first.dirty
      BY <1>9, <3>2 DEF BlockIndex, Validity
    <3> QED
      BY <1>9, <3>4
  <2> QED
    OBVIOUS
<1> HIDE DEF stored
<1>12. CASE Parent[b] \notin index.linked
  <2> index' = [stored EXCEPT !.unlinked = @ \cup (IF IsValid(index, Parent[b], TREE) THEN {b} ELSE {})]
      /\ ids' = ids
    BY <1>1, <1>12
  <2> DEFINE un == stored.unlinked \cup (IF IsValid(index, Parent[b], TREE) THEN {b} ELSE {})
  <2>2. un \in SUBSET Block
    BY <1>11, IndexFields
  <2>3. index' = [stored EXCEPT !.unlinked = un]
    BY <1>11 DEF BlockIndex
  <2>4. un = index.unlinked \cup (IF IsValid(index, Parent[b], TREE) THEN {b} ELSE {})
    BY <1>11
  <2> HIDE DEF un
  <2> /\ index' \in BlockIndex /\ index'.validity = stored.validity /\ index'.flags = stored.flags
      /\ index'.seq = stored.seq /\ index'.linked = stored.linked /\ index'.unlinked = un
      /\ index'.cand = stored.cand /\ index'.failed = stored.failed /\ index'.dirty = stored.dirty
    BY <1>11, <2>2, <2>3 DEF BlockIndex
  <2>6. BlockStored(b)
    BY <1>2, <1>5, <1>7, <1>11 DEF BlockStored
  <2>7. BlockWaits(b)
    BY <1>11, <1>12, <2>4 DEF BlockWaits
  <2> QED
    BY <2>6, <2>7 DEF Shape, Types
<1>13. CASE Parent[b] \in index.linked
  <2>1. PICK order \in QueueOrders(LinkedWith(b)) :
             /\ index' = ReceivedBlockTransactions(stored, chain.tip, order)
             /\ ids' = [ids EXCEPT !.seq = @ + Cardinality({x \in LinkedWith(b) : index.seq[x] = 0})]
    BY <1>1, <1>13
  <2> DEFINE S == LinkedWith(b)
             numbered == {x \in S : stored.seq[x] = 0}
             rank(x) == Cardinality({y \in numbered : order[y] < order[x]})
             seq == [x \in Block |-> IF x \in numbered THEN ids.seq + rank(x) ELSE stored.seq[x]]
             new == [stored EXCEPT !.seq = seq, !.linked = @ \cup S, !.unlinked = @ \ S]
             more == {x \in S : ~Worse(new, x, chain.tip)}
  <2>2. DOMAIN order = S
    BY DEF QueueOrders
  <2>3. index' = [new EXCEPT !.cand = @ \cup more]
    BY <2>1, <2>2 DEF ReceivedBlockTransactions
  <2>4. S \in SUBSET Block
    <3>1. index.unlinked \in SUBSET Block
      BY <1>3, IndexFields
    <3> QED
      BY <3>1 DEF LinkedWith
  <2> ids \in [seq: Nat, reverse: Int, lastPrecious: Nat]
    BY DEF Shape, Types
  <2>6. \A T \in SUBSET Block : Cardinality(T) \in Nat
    BY DEF Counting
  <2>7. seq \in [Block -> Int] /\ \A x \in Block \ S : seq[x] = stored.seq[x]
    <3>1. \A x : rank(x) \in Nat
      <4>1. \A x : {y \in numbered : order[y] < order[x]} \in SUBSET Block
        <5> HIDE DEF S
        <5> QED
          BY <2>4
      <4> QED
        BY <4>1, <2>6
    <3>2. stored.seq \in [Block -> Int] /\ ids.seq \in Nat
      BY <1>11, IndexFields
    <3> HIDE DEF S, rank
    <3> QED
      BY <3>1, <3>2, SMTT(30)
  <2> HIDE DEF seq
  <2>8. /\ new \in BlockIndex /\ new.validity = stored.validity /\ new.flags = stored.flags
        /\ new.seq = seq /\ new.linked = stored.linked \cup S /\ new.unlinked = stored.unlinked \ S
        /\ new.cand = stored.cand /\ new.failed = stored.failed /\ new.dirty = stored.dirty
    <3> HIDE DEF S
    <3> QED
      BY <1>11, <2>4, <2>7 DEF BlockIndex
  <2>9. more \in SUBSET S /\ \A x \in more : ChainWork[chain.tip] <= ChainWork[x]
    <3>1. chain.tip \in Block
      BY ShapeFacts
    <3> HIDE DEF new, S
    <3> QED
      BY <2>4, <2>8, <3>1, WorseOrder
  <2> HIDE DEF new, more, S
  <2>10. /\ index' \in BlockIndex /\ index'.validity = new.validity /\ index'.flags = new.flags
         /\ index'.seq = new.seq /\ index'.linked = new.linked /\ index'.unlinked = new.unlinked
         /\ index'.cand = new.cand \cup more /\ index'.failed = new.failed /\ index'.dirty = new.dirty
    BY <2>3, <2>4, <2>8, <2>9 DEF BlockIndex
  <2>11. BlockStored(b)
    <3>1. /\ index'.flags = fl /\ index'.validity = stored.validity
          /\ index'.dirty = stored.dirty /\ index'.failed = stored.failed
      BY <1>11, <2>8, <2>10
    <3> QED
      BY <1>2, <1>5, <1>7, <1>11, <2>10, <3>1 DEF BlockStored
  <2>12. BlockLinked(b)
    BY <1>11, <1>13, <2>7, <2>8, <2>9, <2>10 DEF BlockLinked, S
  <2>13. ids' \in [seq: Nat, reverse: Int, lastPrecious: Nat] /\ ids'.reverse = ids.reverse
    <3>1. {x \in LinkedWith(b) : index.seq[x] = 0} \in SUBSET Block
      BY <2>4 DEF S
    <3>2. Cardinality({x \in LinkedWith(b) : index.seq[x] = 0}) \in Nat
      BY <3>1, <2>6
    <3> DEFINE n == Cardinality({x \in LinkedWith(b) : index.seq[x] = 0})
    <3>3. ids' = [ids EXCEPT !.seq = @ + n]
      BY <2>1
    <3> HIDE DEF n
    <3> QED
      BY <3>2, <3>3, SMTT(30) DEF n
  <2> QED
    BY <2>11, <2>12, <2>13
<1> QED
  BY <1>12, <1>13

\* The chain of a block that waited for b is linked with b.
LEMMA LinkedWithClosed ==
  ASSUME Counting, Shape, NEW b \in Block, b # Genesis, Parent[b] \in index.linked
  PROVE  /\ LinkedWith(b) \in SUBSET Block
         /\ ClosedUnderParent(index.linked \cup LinkedWith(b))
<1>1. index.unlinked \in SUBSET Block
  BY ShapeFacts, IndexFields
<1> LinkedWith(b) \in SUBSET Block
  BY <1>1 DEF LinkedWith
<1> ASSUME NEW d \in LinkedWith(b), d # b, d # Genesis
    PROVE  Parent[d] \in LinkedWith(b)
  <2> d \in Block /\ b \in Ancestors[d] /\ Ancestors[d] \ Ancestors[b] \subseteq index.unlinked
    BY DEF LinkedWith
  <2> Ancestors[d] = {d} \cup Ancestors[Parent[d]] /\ Parent[d] \in Block
    BY AncestorsOfParent, BlockTreeAssumption
  <2> b \in Ancestors[Parent[d]] /\ Parent[d] \in Ancestors[d]
    BY SelfAncestor
  <2>4. Parent[d] = b \/ Parent[d] \notin Ancestors[b]
    BY AncestorsAntisymmetric
  <2> QED
    BY <2>4 DEF LinkedWith
<1>4. \A d \in LinkedWith(b) \ {Genesis} : Parent[d] \in index.linked \cup LinkedWith(b)
  OBVIOUS
<1> QED
  BY <1>4 DEF ClosedUnderParent, Shape, Rooted

LEMMA ShapeBlock ==
  ASSUME Counting, Shape, NEW b \in Block, AcceptBlock(b)
  PROVE  Shape'
<1>1. /\ BlockStored(b) /\ (BlockLinked(b) \/ BlockWaits(b))
      /\ ids' \in [seq: Nat, reverse: Int, lastPrecious: Nat]
  BY AcceptBlockEffect
<1> wanted' = TRUE /\ UNCHANGED <<chain, abc, unwind, disk, commands, restarts>>
  BY DEF AcceptBlock
<1>3. b \in Known(index)
  BY DEF AcceptBlock, BlockReaches
<1> Known(index') = Known(index)
  <2>1. index'.validity[b] # UNKNOWN
    BY <1>1, SMTT(30) DEF BlockStored, UNKNOWN, TRANSACTIONS
  <2> QED
    BY <1>1, <1>3, <2>1 DEF BlockStored, Known
<1> \A x \in Block : DATA \in index'.flags[x] <=> x = b \/ DATA \in index.flags[x]
  <2>1. DATA \in index'.flags[b]
    BY <1>1 DEF BlockStored
  <2> QED
    BY <1>1, <2>1 DEF BlockStored
<1>6. ~IsInvalid(index', Genesis)
  <2>1. index'.flags[Genesis] = index.flags[Genesis]
    BY <1>1, BlockTreeAssumption DEF BlockStored
  <2> QED
    BY <2>1 DEF IsInvalid, Shape, Rooted
<1>7. \A x \in Block : DATA \in index'.flags[x] => index'.validity[x] >= TRANSACTIONS
  BY <1>1 DEF BlockStored, Shape, Rooted
<1> /\ ClosedUnderParent(index'.linked) /\ index.linked \subseteq index'.linked
    /\ \A x \in index'.linked : DATA \in index'.flags[x]
    /\ index'.cand \subseteq index'.linked
    /\ \A x \in index'.unlinked : DATA \in index'.flags[x]
    /\ EnoughWork(index', chain.tip)
  <2> index.unlinked \in SUBSET Block /\ index.linked \in SUBSET Block
    BY ShapeFacts, IndexFields
  <2> CASE BlockLinked(b)
    <3>1. LinkedWith(b) \in SUBSET Block /\ ClosedUnderParent(index.linked \cup LinkedWith(b))
      BY <1>1, LinkedWithClosed DEF BlockStored, BlockLinked
    <3>2. \A x \in LinkedWith(b) : x = b \/ x \in index.unlinked
      BY DEF LinkedWith
    <3> \A x \in index.linked \cup index.unlinked : x \in Block /\ DATA \in index.flags[x]
      BY DEF Shape, Rooted
    <3>4. ClosedUnderParent(index'.linked) /\ index.linked \subseteq index'.linked
      BY <3>1 DEF BlockLinked
    <3>5. \A x \in index'.linked : DATA \in index'.flags[x]
      BY <3>2 DEF BlockLinked
    <3>6. index'.cand \subseteq index'.linked
      BY DEF BlockLinked, Shape, Rooted
    <3>7. \A x \in index'.unlinked : DATA \in index'.flags[x]
      BY DEF BlockLinked
    <3>8. EnoughWork(index', chain.tip)
      BY DEF BlockLinked, Shape, EnoughWork
    <3> QED
      BY <3>4, <3>5, <3>6, <3>7, <3>8
  <2> CASE BlockWaits(b)
    <3>1. \A x \in index'.unlinked : x = b \/ x \in index.unlinked
      BY DEF BlockWaits
    <3> \A x \in index.linked \cup index.unlinked : x \in Block /\ DATA \in index.flags[x]
      BY DEF Shape, Rooted
    <3>3. \A x \in index'.unlinked : DATA \in index'.flags[x]
      BY <3>1
    <3>4. \A x \in index'.linked : DATA \in index'.flags[x]
      BY DEF BlockWaits
    <3> QED
      BY <3>3, <3>4 DEF BlockWaits, Shape, Rooted, EnoughWork
  <2> QED
    BY <1>1
<1>9. Rooted(index')
  BY <1>6, <1>7 DEF Shape, Rooted
<1>10. OnDisk(index', disk')
  BY <1>1 DEF Shape, OnDisk, BlockStored
<1>11. InHand(abc', index'.linked, chain'.tip)
  BY DEF Shape, InHand
<1>12. Types'
  BY <1>1 DEF Shape, Types, BlockStored
<1> QED
  BY <1>9, <1>10, <1>11, <1>12 DEF Shape

-----------------------------------------------------------------------------
(* The operations on the index.                                              *)

\* iy comes from ix by an operation on marks and candidates.
Marks(ix, iy) ==
  /\ iy \in BlockIndex
  /\ iy.linked = ix.linked /\ iy.unlinked = ix.unlinked /\ iy.cand \subseteq ix.cand \cup ix.linked
  /\ ix.dirty \subseteq iy.dirty
  /\ iy.flags[Genesis] \cap INVALID_MASK \subseteq ix.flags[Genesis]
  /\ \A b \in Block : /\ DATA \in iy.flags[b] <=> DATA \in ix.flags[b]
                      /\ ix.validity[b] <= iy.validity[b]
                      /\ iy.validity[b] = ix.validity[b] \/ (b \in iy.dirty /\ ix.validity[b] # UNKNOWN)

LEMMA MarksReflexive ==
  ASSUME NEW ix \in BlockIndex
  PROVE  Marks(ix, ix)
BY IndexFields, SMTT(30) DEF Marks, Validity, UNKNOWN, TREE, TRANSACTIONS, SCRIPTS

LEMMA MarksTransitive ==
  ASSUME NEW ix \in BlockIndex, NEW iy, NEW iz, Marks(ix, iy), Marks(iy, iz)
  PROVE  Marks(ix, iz)
<1> iy \in BlockIndex /\ iz \in BlockIndex
  BY DEF Marks
<1>2. ASSUME NEW b \in Block
      PROVE  /\ ix.validity[b] <= iz.validity[b]
             /\ iz.validity[b] = ix.validity[b] \/ (b \in iz.dirty /\ ix.validity[b] # UNKNOWN)
  <2>1. ix.validity[b] \in Validity /\ iy.validity[b] \in Validity /\ iz.validity[b] \in Validity
    BY IndexFields
  <2> QED
    BY <2>1, SMTT(30) DEF Marks, Validity, UNKNOWN, TREE, TRANSACTIONS, SCRIPTS
<1> QED
  BY <1>2 DEF Marks

\* Such an operation keeps what is known, linked and on disk.
LEMMA MarksKeep ==
  ASSUME NEW ix \in BlockIndex, NEW iy, Marks(ix, iy), NEW d, Rooted(ix), OnDisk(ix, d)
  PROVE  Rooted(iy) /\ OnDisk(iy, d) /\ Known(iy) = Known(ix)
<1> \A b \in Block : ix.validity[b] \in Validity /\ iy.validity[b] \in Validity
  BY IndexFields DEF Marks
<1> Known(iy) = Known(ix)
  BY SMTT(30) DEF Known, Marks, Validity, UNKNOWN, TREE, TRANSACTIONS, SCRIPTS
<1>3. \A b \in Block : DATA \in iy.flags[b] => iy.validity[b] >= TRANSACTIONS
  BY SMTT(30) DEF Marks, Rooted, Validity, UNKNOWN, TREE, TRANSACTIONS, SCRIPTS
<1>4. OnDisk(iy, d)
  BY DEF OnDisk, Marks
<1>5. ix.linked \subseteq Block /\ ix.unlinked \subseteq Block
  BY IndexFields
<1>6. ~IsInvalid(iy, Genesis)
  BY DEF Rooted, Marks, IsInvalid
<1>7. Rooted(iy)
  BY <1>3, <1>5, <1>6 DEF Rooted, Marks
<1> QED
  BY <1>4, <1>7

-----------------------------------------------------------------------------
(* What the operations on the index do to its fields.                        *)

LEMMA MarkFailedFields ==
  ASSUME NEW ix \in BlockIndex, NEW b \in Block
  PROVE  LET iy == MarkFailed(ix, b)
         IN  /\ iy \in BlockIndex
             /\ iy.flags = [ix.flags EXCEPT ![b] = @ \cup {FAILED}]
             /\ iy.validity = ix.validity /\ iy.seq = ix.seq
             /\ iy.linked = ix.linked /\ iy.unlinked = ix.unlinked /\ iy.cand = ix.cand
             /\ iy.failed = ix.failed /\ iy.dirty = ix.dirty
<1> DEFINE fl == [ix.flags EXCEPT ![b] = @ \cup {FAILED}]
<1>1. fl \in [Block -> SUBSET Flag]
  BY IndexFields DEF Flag, INVALID_MASK
<1>2. MarkFailed(ix, b) = [ix EXCEPT !.flags = fl]
  BY DEF MarkFailed, BlockIndex
<1> HIDE DEF fl
<1>3. LET iy == [ix EXCEPT !.flags = fl]
      IN  /\ iy \in BlockIndex /\ iy.flags = fl
          /\ iy.validity = ix.validity /\ iy.seq = ix.seq
          /\ iy.linked = ix.linked /\ iy.unlinked = ix.unlinked /\ iy.cand = ix.cand
          /\ iy.failed = ix.failed /\ iy.dirty = ix.dirty
  BY <1>1 DEF BlockIndex, Flag
<1> QED
  BY <1>2, <1>3 DEF fl

LEMMA AddCandidatesFields ==
  ASSUME NEW ix \in BlockIndex, NEW t \in Block
  PROVE  LET iy == AddCandidates(ix, t)
         IN  /\ iy \in BlockIndex
             /\ iy.validity = ix.validity /\ iy.flags = ix.flags /\ iy.seq = ix.seq
             /\ iy.linked = ix.linked /\ iy.unlinked = ix.unlinked
             /\ iy.failed = ix.failed /\ iy.dirty = ix.dirty
             /\ iy.cand = ix.cand \cup {b \in ix.linked : /\ IsValid(ix, b, TRANSACTIONS)
                                                          /\ ~Worse(ix, b, t)}
BY DEF AddCandidates, BlockIndex

LEMMA ScriptsValidFields ==
  ASSUME NEW ix \in BlockIndex, NEW b \in Block
  PROVE  LET iy == ScriptsValid(ix, b)
         IN  /\ iy \in BlockIndex
             /\ iy.flags = ix.flags /\ iy.seq = ix.seq
             /\ iy.linked = ix.linked /\ iy.unlinked = ix.unlinked
             /\ iy.failed = ix.failed /\ iy.cand = ix.cand
             /\ iy.dirty = ix.dirty \/ iy.dirty = ix.dirty \cup {b}
             /\ iy.validity = ix.validity
                  \/ (b \in iy.dirty /\ iy.validity = [ix.validity EXCEPT ![b] = SCRIPTS])
<1>1. CASE IsValid(ix, b, SCRIPTS)
  BY <1>1 DEF ScriptsValid
<1>2. CASE ~IsValid(ix, b, SCRIPTS) /\ RaiseValidity(ix, b, SCRIPTS) = ix
  BY <1>2 DEF ScriptsValid, BlockIndex
<1>3. CASE ~IsValid(ix, b, SCRIPTS) /\ RaiseValidity(ix, b, SCRIPTS) = [ix EXCEPT !.validity[b] = SCRIPTS]
  <2> DEFINE raised == [ix EXCEPT !.validity[b] = SCRIPTS]
  <2>1. /\ raised \in BlockIndex /\ raised.validity = [ix.validity EXCEPT ![b] = SCRIPTS]
        /\ raised.flags = ix.flags /\ raised.seq = ix.seq
        /\ raised.linked = ix.linked /\ raised.unlinked = ix.unlinked
        /\ raised.failed = ix.failed /\ raised.cand = ix.cand /\ raised.dirty = ix.dirty
    BY DEF BlockIndex
  <2>2. ScriptsValid(ix, b) = [raised EXCEPT !.dirty = @ \cup {b}]
    BY <1>3 DEF ScriptsValid
  <2> HIDE DEF raised
  <2> QED
    BY <2>1, <2>2, SMTT(30) DEF BlockIndex
<1> QED
  BY <1>1, <1>2, <1>3 DEF RaiseValidity

LEMMA InvalidBlockFoundFields ==
  ASSUME NEW ix \in BlockIndex, NEW b \in Block
  PROVE  LET iy == InvalidBlockFound(ix, b)
         IN  /\ iy \in BlockIndex
             /\ iy.flags = [ix.flags EXCEPT ![b] = @ \cup {FAILED}]
             /\ iy.validity = ix.validity /\ iy.seq = ix.seq
             /\ iy.linked = ix.linked /\ iy.unlinked = ix.unlinked /\ iy.cand = ix.cand
             /\ iy.failed = ix.failed \cup {b} /\ iy.dirty = ix.dirty \cup {b}
BY DEF InvalidBlockFound, MarkFailed, BlockIndex, INVALID_MASK

\* iz is ix with the flags of UpdateFlags: "deepest" is the lowest block on
\* the chain of b that changes, or b.
Cleared(ix, iz, b, deepest, own, child, below) ==
  \A x \in Block :
    iz.flags[x] = ((ix.flags[x] \ (IF x \in Ancestors[b] THEN own ELSE {}))
                    \ (IF b \in Ancestors[x] THEN child ELSE {}))
                    \ (IF deepest \in Ancestors[x] THEN below ELSE {})

\* What UpdateFlags makes of ix.
Updated(ix, iy, t, b, own, child, below) ==
  /\ iy \in BlockIndex
  /\ iy.validity = ix.validity /\ iy.seq = ix.seq
  /\ iy.linked = ix.linked /\ iy.unlinked = ix.unlinked
  /\ iy.failed \subseteq ix.failed
  /\ \A x \in ix.failed \ iy.failed : ~IsInvalid(iy, x)
  /\ iy.dirty = ix.dirty \cup {x \in Block : iy.flags[x] # ix.flags[x]}
  /\ iy.cand = ix.cand \cup {x \in {y \in Block : iy.flags[y] # ix.flags[y]} \cap ix.linked :
                               IsValid(iy, x, TRANSACTIONS) /\ Worse(ix, t, x)}
  /\ \E deepest \in Ancestors[b] :
       /\ Cleared(ix, iy, b, deepest, own, child, below)
       /\ \A x \in Ancestors[b] : ix.flags[x] \ own # ix.flags[x] => deepest \in Ancestors[x]

LEMMA UpdateFlagsFields ==
  ASSUME Counting, NEW ix \in BlockIndex, NEW t \in Block, NEW b \in Block,
         NEW own, NEW child, NEW below
  PROVE  Updated(ix, UpdateFlags(ix, t, b, own, child, below), t, b, own, child, below)
<1> DEFINE up == [x \in Block |-> IF x \in Ancestors[b] THEN ix.flags[x] \ own ELSE ix.flags[x]]
           changed == {x \in Ancestors[b] : up[x] # ix.flags[x]}
           deepest == IF changed = {} THEN b
                      ELSE CHOOSE x \in changed : \A y \in changed : Height[x] <= Height[y]
           new == [x \in Block |-> (up[x] \ (IF b \in Ancestors[x] THEN child ELSE {}))
                                          \ (IF deepest \in Ancestors[x] THEN below ELSE {})]
           changes == {x \in Block : new[x] # ix.flags[x]}
           valid == {x \in changes : IsValid([ix EXCEPT !.flags = new], x, TRANSACTIONS)}
           iy == UpdateFlags(ix, t, b, own, child, below)
<1>1. iy = [ix EXCEPT !.flags = new, !.dirty = @ \cup changes, !.failed = @ \ valid,
                      !.cand = @ \cup {x \in valid \cap ix.linked : Worse(ix, t, x)}]
  BY DEF UpdateFlags
<1>2. deepest \in Ancestors[b] /\ (\A x \in changed : deepest \in Ancestors[x])
  <2> CASE changed = {}
    BY SelfAncestor
  <2> CASE changed # {}
    <3> HIDE DEF changed
    <3> changed \in SUBSET Ancestors[b]
      BY DEF changed
    <3>2. \E x \in changed : \A y \in changed : Height[x] <= Height[y]
      BY LowestOnChain
    <3> deepest \in changed /\ \A y \in changed : Height[deepest] <= Height[y]
      BY <3>2
    <3>4. ASSUME NEW x \in changed PROVE deepest \in Ancestors[x]
      <4>1. deepest \in Ancestors[b] /\ x \in Ancestors[b] /\ Height[deepest] <= Height[x]
        OBVIOUS
      <4> QED
        BY <4>1, LowerIsAncestor
    <3> QED
      BY <3>4
  <2> QED
    OBVIOUS
<1> \A x \in Block : new[x] = ((ix.flags[x] \ (IF x \in Ancestors[b] THEN own ELSE {}))
                         \ (IF b \in Ancestors[x] THEN child ELSE {}))
                         \ (IF deepest \in Ancestors[x] THEN below ELSE {})
  <2> HIDE DEF deepest
  <2>1. \A x \in Block : up[x] = ix.flags[x] \ (IF x \in Ancestors[b] THEN own ELSE {})
    OBVIOUS
  <2> HIDE DEF up
  <2> QED
    BY <2>1
<1>4. \A x \in Ancestors[b] : ix.flags[x] \ own # ix.flags[x] => x \in changed
  BY AncestorsInBlock
<1> HIDE DEF deepest, changed
<1> new \in [Block -> SUBSET Flag]
  <2>1. \A x \in Block : new[x] \subseteq ix.flags[x]
    OBVIOUS
  <2>2. ix.flags \in [Block -> SUBSET Flag]
    BY IndexFields
  <2>3. \A x \in Block : new[x] \in SUBSET Flag
    BY <2>1, <2>2
  <2> QED
    BY <2>3
<1> HIDE DEF new
<1> /\ iy \in BlockIndex /\ iy.flags = new
    /\ iy.validity = ix.validity /\ iy.seq = ix.seq
    /\ iy.linked = ix.linked /\ iy.unlinked = ix.unlinked
    /\ iy.failed = ix.failed \ valid /\ iy.dirty = ix.dirty \cup changes
    /\ iy.cand = ix.cand \cup {x \in valid \cap ix.linked : Worse(ix, t, x)}
  <2> HIDE DEF iy
  <2> QED
    BY <1>1 DEF BlockIndex, Flag
<1> valid = {x \in changes : IsValid(iy, x, TRANSACTIONS)}
  <2>1. ASSUME NEW x PROVE IsValid([ix EXCEPT !.flags = new], x, TRANSACTIONS) <=> IsValid(iy, x, TRANSACTIONS)
    <3> HIDE DEF iy
    <3> QED
      BY DEF IsValid, IsInvalid, BlockIndex, Flag
  <2> QED
    BY <2>1
<1>8. changes = {x \in Block : iy.flags[x] # ix.flags[x]}
  OBVIOUS
<1>9. Cleared(ix, iy, b, deepest, own, child, below)
  <2> HIDE DEF iy
  <2> QED
    BY DEF Cleared
<1>10. \A x \in ix.failed \ iy.failed : ~IsInvalid(iy, x)
  <2> HIDE DEF iy
  <2> QED
    BY DEF IsValid
<1> HIDE DEF iy, changes, valid
<1>11. iy.cand = ix.cand \cup {x \in changes \cap ix.linked : IsValid(iy, x, TRANSACTIONS) /\ Worse(ix, t, x)}
  OBVIOUS
<1> QED
  BY <1>2, <1>4, <1>8, <1>9, <1>10, <1>11 DEF iy, Updated

-----------------------------------------------------------------------------
(* The operations are operations on marks and candidates.                    *)

LEMMA MarksFrom ==
  ASSUME NEW ix \in BlockIndex, NEW iy \in BlockIndex,
         iy.validity = ix.validity, iy.linked = ix.linked, iy.unlinked = ix.unlinked,
         iy.cand \subseteq ix.cand \cup ix.linked, ix.dirty \subseteq iy.dirty,
         iy.flags[Genesis] \cap INVALID_MASK \subseteq ix.flags[Genesis],
         \A b \in Block : DATA \in iy.flags[b] <=> DATA \in ix.flags[b]
  PROVE  Marks(ix, iy)
<1>1. \A b \in Block : ix.validity[b] <= ix.validity[b]
  BY IndexFields, SMTT(30) DEF Validity, UNKNOWN, TREE, TRANSACTIONS, SCRIPTS
<1> QED
  BY <1>1 DEF Marks

\* The flags of one block grow.
LEMMA AddFlag ==
  ASSUME NEW fl \in [Block -> SUBSET Flag], NEW b \in Block, NEW f
  PROVE  \A x \in Block : [fl EXCEPT ![b] = @ \cup {f}][x] = IF x = b THEN fl[x] \cup {f} ELSE fl[x]
OBVIOUS

LEMMA MarkFailedMarks ==
  ASSUME NEW ix \in BlockIndex, NEW b \in Block \ {Genesis}
  PROVE  /\ Marks(ix, MarkFailed(ix, b))
         /\ Marks(ix, InvalidBlockFound(ix, b))
<1> ASSUME NEW iy \in BlockIndex, iy.flags = [ix.flags EXCEPT ![b] = @ \cup {FAILED}],
           iy.validity = ix.validity, iy.linked = ix.linked, iy.unlinked = ix.unlinked,
           iy.cand = ix.cand, ix.dirty \subseteq iy.dirty
    PROVE  Marks(ix, iy)
  <2> \A x \in Block : iy.flags[x] = IF x = b THEN ix.flags[x] \cup {FAILED} ELSE ix.flags[x]
    <3>1. ix.flags \in [Block -> SUBSET Flag]
      BY IndexFields
    <3> QED
      BY <3>1, AddFlag
  <2>2. \A x \in Block : DATA \in iy.flags[x] <=> DATA \in ix.flags[x]
    BY FlagsDiffer
  <2>3. iy.flags[Genesis] \cap INVALID_MASK \subseteq ix.flags[Genesis]
    BY BlockTreeAssumption
  <2>4. iy.cand \subseteq ix.cand \cup ix.linked
    OBVIOUS
  <2> QED
    BY <2>2, <2>3, <2>4, MarksFrom
<1>2. Marks(ix, MarkFailed(ix, b))
  <2>1. ix.dirty \subseteq MarkFailed(ix, b).dirty
    BY MarkFailedFields
  <2> QED
    BY <2>1, MarkFailedFields
<1>3. Marks(ix, InvalidBlockFound(ix, b))
  <2>1. ix.dirty \subseteq InvalidBlockFound(ix, b).dirty
    BY InvalidBlockFoundFields
  <2> QED
    BY <2>1, InvalidBlockFoundFields
<1> QED
  BY <1>2, <1>3

\* Only the candidates change.
LEMMA CandidatesOnly ==
  ASSUME NEW ix \in BlockIndex, NEW iy \in BlockIndex, iy.validity = ix.validity, iy.flags = ix.flags,
         iy.linked = ix.linked, iy.unlinked = ix.unlinked, iy.dirty = ix.dirty,
         iy.cand \subseteq ix.cand \cup ix.linked
  PROVE  Marks(ix, iy)
<1>1. ix.dirty \subseteq iy.dirty /\ iy.flags[Genesis] \cap INVALID_MASK \subseteq ix.flags[Genesis]
  OBVIOUS
<1> QED
  BY <1>1, MarksFrom

LEMMA CandidateMarks ==
  ASSUME NEW ix \in BlockIndex, NEW t \in Block
  PROVE  /\ Marks(ix, PruneBlockIndexCandidates(ix, t))
         /\ Marks(ix, AddCandidates(ix, t))
<1>1. PruneBlockIndexCandidates(ix, t).cand \subseteq ix.cand \cup ix.linked
  BY PruneFields
<1>2. AddCandidates(ix, t).cand \subseteq ix.cand \cup ix.linked
  BY AddCandidatesFields
<1>3. Marks(ix, PruneBlockIndexCandidates(ix, t))
  BY <1>1, CandidatesOnly, PruneFields
<1>4. Marks(ix, AddCandidates(ix, t))
  BY <1>2, CandidatesOnly, AddCandidatesFields
<1> QED
  BY <1>3, <1>4

LEMMA ScriptsValidMarks ==
  ASSUME NEW ix \in BlockIndex, NEW b \in Block, ix.validity[b] >= TRANSACTIONS
  PROVE  Marks(ix, ScriptsValid(ix, b))
<1> DEFINE iy == ScriptsValid(ix, b)
<1>1. iy \in BlockIndex
  BY ScriptsValidFields
<1>2. ASSUME NEW x \in Block
      PROVE  /\ ix.validity[x] <= iy.validity[x]
             /\ iy.validity[x] = ix.validity[x] \/ (x \in iy.dirty /\ ix.validity[x] # UNKNOWN)
  <2>1. ix.validity \in [Block -> Validity]
    BY IndexFields
  <2>2. iy.validity = ix.validity \/ (b \in iy.dirty /\ iy.validity = [ix.validity EXCEPT ![b] = SCRIPTS])
    BY ScriptsValidFields
  <2> HIDE DEF iy
  <2> QED
    BY <2>1, <2>2, SMTT(30) DEF Validity, UNKNOWN, TREE, TRANSACTIONS, SCRIPTS
<1>3. ix.dirty \subseteq iy.dirty /\ iy.cand \subseteq ix.cand \cup ix.linked
  BY ScriptsValidFields
<1> QED
  BY <1>1, <1>2, <1>3, ScriptsValidFields DEF Marks

LEMMA UpdateFlagsMarks ==
  ASSUME Counting, NEW ix \in BlockIndex, NEW t \in Block, NEW b \in Block,
         NEW own \in SUBSET (INVALID_MASK \cup PARKED_MASK),
         NEW child \in SUBSET (INVALID_MASK \cup PARKED_MASK),
         NEW below \in SUBSET (INVALID_MASK \cup PARKED_MASK)
  PROVE  Marks(ix, UpdateFlags(ix, t, b, own, child, below))
<1> DEFINE iy == UpdateFlags(ix, t, b, own, child, below)
<1> Updated(ix, iy, t, b, own, child, below)
  BY UpdateFlagsFields
<1> HIDE DEF iy
<1> PICK deepest \in Ancestors[b] : Cleared(ix, iy, b, deepest, own, child, below)
  BY DEF Updated
<1>2. /\ iy \in BlockIndex /\ iy.validity = ix.validity
      /\ iy.linked = ix.linked /\ iy.unlinked = ix.unlinked
  BY DEF Updated
<1>a. ix.dirty \subseteq iy.dirty
  BY DEF Updated
<1>b. iy.cand \subseteq ix.cand \cup ix.linked
  BY DEF Updated
<1>3. \A x \in Block : DATA \in iy.flags[x] <=> DATA \in ix.flags[x]
  BY FlagsDiffer DEF Cleared
<1>4. \A x \in Block : iy.flags[x] \subseteq ix.flags[x]
  BY DEF Cleared
<1>5. iy.flags[Genesis] \cap INVALID_MASK \subseteq ix.flags[Genesis]
  BY <1>4, BlockTreeAssumption
<1> QED
  BY <1>2, <1>a, <1>b, <1>3, <1>5, MarksFrom DEF iy

-----------------------------------------------------------------------------
(* The best candidate.                                                       *)

LEMMA BestCandidateIn ==
  ASSUME Counting, NEW ix \in BlockIndex, ix.cand # {}
  PROVE  BestCandidate(ix) \in ix.cand /\ BestCandidate(ix) \in Block
<1> ix.cand \in SUBSET Block
  BY IndexFields
<1>2. \E b \in ix.cand : \A c \in ix.cand \ {b} : Worse(ix, c, b)
  BY BestExists
<1> QED
  BY <1>2 DEF BestCandidate

\* Work grows along a chain.
LEMMA WorkOnChain ==
  ASSUME NEW b \in Block, NEW a \in Ancestors[b]
  PROVE  a = b \/ ChainWork[a] < ChainWork[b]
<1> DEFINE S == {x \in Ancestors[b] : x = b \/ ChainWork[x] < ChainWork[b]}
<1>1. S \in SUBSET Block /\ b \in S
  BY SelfAncestor, AncestorsInBlock
<1>2. ASSUME NEW x \in S \ {Genesis} PROVE Parent[x] \in S
  <2> Parent[x] \in Ancestors[b] /\ x \in Block /\ Parent[x] \in Block
    BY AncestorsClosed, AncestorsInBlock DEF ClosedUnderParent
  <2>2. ChainWork[Parent[x]] < ChainWork[x] /\ ChainWork \in [Block -> Nat]
    BY ChainStateAssumption
  <2> QED
    BY <2>2, SMTT(30)
<1>3. ClosedUnderParent(S)
  <2> HIDE DEF S
  <2> QED
    BY <1>2 DEF ClosedUnderParent
<1>4. a \in S
  <2> HIDE DEF S
  <2> QED
    BY <1>1, <1>3, ChainInClosed
<1> QED
  BY <1>4

-----------------------------------------------------------------------------
(* Marks and their causes.                                                   *)

LEMMA CausedFrom ==
  ASSUME NEW fl, NEW fm, NEW mask, NEW own, Caused(fl, mask, own),
         \A a \in Block : own \in fl[a] => \E c \in Ancestors[a] : own \in fm[c],
         \A x \in Block : fm[x] \cap mask # {}
                            => fl[x] \cap mask # {} \/ \E c \in Ancestors[x] : own \in fm[c]
  PROVE  Caused(fm, mask, own)
<1> ASSUME NEW x \in Block, fl[x] \cap mask # {}
    PROVE  \E c \in Ancestors[x] : own \in fm[c]
  <2> PICK a \in Ancestors[x] : own \in fl[a]
    BY DEF Caused
  <2>2. a \in Block /\ Ancestors[a] \subseteq Ancestors[x]
    BY AncestorsTransitive
  <2> QED
    BY <2>2
<1> QED
  BY DEF Caused

\* An operation that leaves this kind of mark alone.
LEMMA CausedSame ==
  ASSUME NEW fl, NEW fm, NEW mask, NEW own \in mask, Caused(fl, mask, own),
         \A x \in Block : \A f \in mask : f \in fm[x] <=> f \in fl[x]
  PROVE  Caused(fm, mask, own)
BY AncestorsInBlock DEF Caused

\* A block gets its own mark.
LEMMA CausedAdd ==
  ASSUME NEW fl, NEW fm, NEW mask, NEW own \in mask, Caused(fl, mask, own), NEW b \in Block,
         \A x \in Block \ {b} : \A f \in mask : f \in fm[x] <=> f \in fl[x],
         \A f \in mask \ {own} : f \in fm[b] => f \in fl[b],
         own \in fl[b] => own \in fm[b]
  PROVE  Caused(fm, mask, own)
<1>1. \A a \in Block : own \in fl[a] => own \in fm[a]
  OBVIOUS
<1>2. \A x \in Block : x \in Ancestors[x]
  BY SelfAncestor
<1>3. \A x \in Block : fm[x] \cap mask # {} => fl[x] \cap mask # {} \/ own \in fm[x]
  OBVIOUS
<1> QED
  BY <1>1, <1>2, <1>3, CausedFrom

\* UpdateFlags clears the marks of every descendant of a block it cleared.
LEMMA UpdatedCaused ==
  ASSUME NEW ix, NEW iy, NEW t, NEW b \in Block, NEW mask, NEW own, NEW up, mask = {own, up},
         NEW child, up \in child, Updated(ix, iy, t, b, mask, child, {up}),
         Caused(ix.flags, mask, own)
  PROVE  Caused(iy.flags, mask, own)
<1> PICK deepest \in Ancestors[b] :
      /\ Cleared(ix, iy, b, deepest, mask, child, {up})
      /\ \A x \in Ancestors[b] : ix.flags[x] \ mask # ix.flags[x] => deepest \in Ancestors[x]
  BY DEF Updated
<1> ASSUME NEW x \in Block, iy.flags[x] \cap mask # {}
    PROVE  \E c \in Ancestors[x] : own \in iy.flags[c]
  <2>1. ix.flags[x] \cap mask # {}
    BY DEF Cleared
  <2> PICK a \in Ancestors[x] : own \in ix.flags[a]
    BY <2>1 DEF Caused
  <2> a \in Block /\ Ancestors[a] \subseteq Ancestors[x] /\ x \in Ancestors[x]
    BY AncestorsTransitive, SelfAncestor
  <2> CASE own \in iy.flags[a]
    OBVIOUS
  <2> CASE a \in Ancestors[b]
    <3>1. ix.flags[a] \ mask # ix.flags[a]
      OBVIOUS
    <3>2. deepest \in Ancestors[x]
      BY <3>1
    <3>3. up \notin iy.flags[x]
      BY <3>2 DEF Cleared
    <3> QED
      BY <3>3
  <2> CASE b \in Ancestors[a]
    <3>1. up \notin iy.flags[x]
      BY DEF Cleared
    <3> QED
      BY <3>1
  <2>7. own \in iy.flags[a] \/ a \in Ancestors[b] \/ b \in Ancestors[a] \/ own \in {up}
    <3>1. iy.flags[a] = ((ix.flags[a] \ (IF a \in Ancestors[b] THEN mask ELSE {}))
                           \ (IF b \in Ancestors[a] THEN child ELSE {}))
                           \ (IF deepest \in Ancestors[a] THEN {up} ELSE {})
      BY DEF Cleared
    <3> QED
      BY <3>1
  <2> CASE own = up
    OBVIOUS
  <2> QED
    BY <2>7
<1> QED
  BY DEF Caused

-----------------------------------------------------------------------------
(* What the operations on the pointers of the active chain do.               *)

LEMMA InvalidChainFoundIn ==
  ASSUME NEW K \in SUBSET Block, ClosedUnderParent(K), NEW ch \in ChainOf(K), NEW b \in Block,
         b = Genesis => ch.finalized = Null
  PROVE  /\ InvalidChainFound(ch, b) \in ChainOf(K)
         /\ InvalidChainFound(ch, b).tip = ch.tip
         /\ InvalidChainFound(ch, b).finalized
              = IF ch.finalized # Null /\ b \in Ancestors[ch.finalized] THEN Parent[b] ELSE ch.finalized
<1> ch.tip \in K /\ ch.header \in K /\ ch.finalized \in K \cup {Null}
  BY DEF ChainOf
<1>2. ch.finalized # Null /\ b \in Ancestors[ch.finalized] => Parent[b] \in K
  <2> SUFFICES ASSUME ch.finalized # Null, b \in Ancestors[ch.finalized] PROVE Parent[b] \in K
    OBVIOUS
  <2>2. Ancestors[ch.finalized] \subseteq K
    BY ChainInClosed
  <2> QED
    BY <2>2 DEF ClosedUnderParent
<1> QED
  BY <1>2 DEF ChainOf, InvalidChainFound

LEMMA DisconnectedIn ==
  ASSUME NEW K \in SUBSET Block, ClosedUnderParent(K), NEW ch \in ChainOf(K), ch.tip # Genesis
  PROVE  /\ Disconnected(ch) \in ChainOf(K)
         /\ Disconnected(ch).tip = Parent[ch.tip]
         /\ Disconnected(ch).finalized = IF ch.finalized = ch.tip THEN Parent[ch.tip] ELSE ch.finalized
<1>1. Parent[ch.tip] \in K
  BY DEF ChainOf, ClosedUnderParent
<1> QED
  BY <1>1 DEF ChainOf, Disconnected

LEMMA FinalizeBlockInternalIn ==
  ASSUME NEW K \in SUBSET Block, NEW ch \in ChainOf(K), NEW f \in K
  PROVE  /\ FinalizeBlockInternal(ch, f) \in ChainOf(K)
         /\ FinalizeBlockInternal(ch, f).tip = ch.tip
         /\ FinalizeBlockInternal(ch, f).finalized
              = IF ch.finalized # Null /\ f \in Ancestors[ch.finalized] THEN ch.finalized ELSE f
BY DEF ChainOf, FinalizeBlockInternal

LEMMA SetTip ==
  ASSUME NEW K, NEW ch \in ChainOf(K), NEW t \in K
  PROVE  /\ [ch EXCEPT !.tip = t] \in ChainOf(K)
         /\ [ch EXCEPT !.tip = t].tip = t
         /\ [ch EXCEPT !.tip = t].finalized = ch.finalized
BY DEF ChainOf

LEMMA BeginStepInHand ==
  ASSUME Counting, NEW L \in SUBSET Block, NEW t \in Block, NEW a \in Activating, a.start \in Block,
         NEW m \in L, m \notin Ancestors[t]
  PROVE  /\ InHand(BeginStep(a, t, m), L, t)
         /\ BeginStep(a, t, m).mostWork = m /\ BeginStep(a, t, m).pc = "step"
         /\ BeginStep(a, t, m).start = a.start
<1> DEFINE c == LastCommonAncestor(m, t)
<1>1. c \in Ancestors[m] /\ c \in Ancestors[t]
  BY LastCommonAncestorShared
<1>2. NextTowards(c, m) \in Block \ {Genesis}
  BY <1>1, NextTowardsExists
<1> HIDE DEF c
<1>3. BeginStep(a, t, m) = [a EXCEPT !.pc = "step", !.mostWork = m, !.old = t, !.low = NextTowards(c, m)]
  BY DEF BeginStep, c
<1>4. BeginStep(a, t, m) = [pc |-> "step", mostWork |-> m, start |-> a.start, old |-> t,
                            low |-> NextTowards(c, m)]
  BY <1>3 DEF Activating
<1> QED
  BY <1>2, <1>4, SMTT(30) DEF InHand, Activating

LEMMA EndStepInHand ==
  ASSUME Counting, NEW L \in SUBSET Block, NEW t \in Block, NEW a \in Activating, a.start \in Block, NEW ix,
         NEW m \in L \cup {Null}, m # Null => m = t \/ m \notin Ancestors[t]
  PROVE  /\ InHand(EndStep(a, ix, t, m), L, t)
         /\ EndStep(a, ix, t, m).mostWork \in {m, Null}
<1> CASE t = m
  BY IdleInHand DEF EndStep
<1> CASE t # m /\ ~Worse(ix, t, a.start)
  <2>1. EndStep(a, ix, t, m) = [Idle EXCEPT !.pc = "unlocked", !.mostWork = m]
    BY DEF EndStep
  <2>2. Idle \in Activating /\ m \in Block \cup {Null}
    BY IdleInHand DEF InHand
  <2> DEFINE h == [Idle EXCEPT !.pc = "unlocked", !.mostWork = m]
  <2> h \in Activating /\ h.pc = "unlocked" /\ h.mostWork = m
    BY <2>2 DEF Activating
  <2> HIDE DEF h
  <2>4. m # Null => m \in L /\ m \notin Ancestors[t]
    OBVIOUS
  <2>5. InHand(h, L, t)
    BY <2>4 DEF InHand
  <2> QED
    BY <2>1, <2>5 DEF h
<1> CASE t # m /\ Worse(ix, t, a.start) /\ m = Null
  <2>1. EndStep(a, ix, t, m) = [a EXCEPT !.pc = "find", !.mostWork = Null]
    BY DEF EndStep
  <2> DEFINE h == [a EXCEPT !.pc = "find", !.mostWork = Null]
  <2> h \in Activating /\ h.pc = "find" /\ h.mostWork = Null /\ h.start = a.start
    BY DEF Activating
  <2> HIDE DEF h
  <2>3. InHand(h, L, t)
    BY DEF InHand
  <2> QED
    BY <2>1, <2>3 DEF h
<1> CASE t # m /\ Worse(ix, t, a.start) /\ m # Null
  <2> EndStep(a, ix, t, m) = BeginStep(a, t, m) /\ m \in L /\ m \notin Ancestors[t]
    BY DEF EndStep
  <2>2. InHand(BeginStep(a, t, m), L, t) /\ BeginStep(a, t, m).mostWork = m
    BY BeginStepInHand, ZenonT(60)
  <2> QED
    BY <2>2
<1> QED
  OBVIOUS

\* The tip moves down.
LEMMA LowerTipInHand ==
  ASSUME NEW t \in Block, NEW u \in Ancestors[t], NEW a, NEW L, InHand(a, L, t)
  PROVE  InHand(a, L, u)
BY AncestorsTransitive DEF InHand

-----------------------------------------------------------------------------
(* Shape is inductive.                                                       *)

\* What an operation on marks leaves to be shown.
LEMMA ShapeMarks ==
  ASSUME Counting, Shape, Marks(index, index'), chain' \in ChainOf(Known(index)), chain'.tip \in index.linked,
         EnoughWork(index', chain'.tip), InHand(abc', index.linked, chain'.tip),
         ids' \in [seq: Nat, reverse: Int, lastPrecious: Nat], wanted' \in BOOLEAN, InUnwind(unwind'),
         disk' = disk, commands' \in 0..MaxCommands, restarts' = restarts
  PROVE  Shape'
<1> Rooted(index') /\ OnDisk(index', disk) /\ Known(index') = Known(index)
  BY ShapeFacts, MarksKeep DEF Shape
<1> index' \in BlockIndex /\ index'.linked = index.linked
  BY DEF Marks
<1>3. Types'
  BY DEF Types, Shape
<1> QED
  BY <1>3 DEF Shape

\* The same, when the operator issues no command.
LEMMA ShapeNoCommand ==
  ASSUME Counting, Shape, Marks(index, index'), chain' \in ChainOf(Known(index)), chain'.tip \in index.linked,
         EnoughWork(index', chain'.tip), InHand(abc', index.linked, chain'.tip),
         wanted' \in BOOLEAN, InUnwind(unwind'), UNCHANGED <<ids, disk, commands, restarts>>
  PROVE  Shape'
<1>1. ids' \in [seq: Nat, reverse: Int, lastPrecious: Nat] /\ commands' \in 0..MaxCommands
  BY DEF Shape, Types
<1> QED
  BY <1>1, ShapeMarks

LEMMA RejectsEffect ==
  ASSUME index \in BlockIndex, NEW b \in Block, AcceptBlockHeader_Rejects(b)
  PROVE  \E f \in FailedBelow(b) :
           /\ index' \in BlockIndex
           /\ index'.validity = index.validity /\ index'.seq = index.seq
           /\ index'.linked = index.linked /\ index'.unlinked = index.unlinked
           /\ index'.cand = index.cand /\ index'.failed = index.failed
           /\ index'.dirty = index.dirty \cup (Ancestors[Parent[b]] \ Ancestors[f])
           /\ \A x \in Block : index'.flags[x] = IF x \in Ancestors[Parent[b]] \ Ancestors[f]
                                                 THEN index.flags[x] \cup {FAILED_PARENT}
                                                 ELSE index.flags[x]
<1>1. PICK f \in FailedBelow(b) :
        LET between == Ancestors[Parent[b]] \ Ancestors[f]
        IN  index' = [index EXCEPT !.flags = [x \in Block |-> IF x \in between
                                                             THEN @[x] \cup {FAILED_PARENT}
                                                             ELSE @[x]],
                                   !.dirty = @ \cup between]
  BY DEF AcceptBlockHeader_Rejects
<1> DEFINE between == Ancestors[Parent[b]] \ Ancestors[f]
           fl == [x \in Block |-> IF x \in between THEN index.flags[x] \cup {FAILED_PARENT}
                                  ELSE index.flags[x]]
<1>2. index' = [index EXCEPT !.flags = fl, !.dirty = @ \cup between]
  BY <1>1 DEF BlockIndex
<1>3. between \in SUBSET Block
  <2>1. Parent[b] \in Block
    BY DEF AcceptBlockHeader_Rejects, HeaderReaches, Known
  <2> QED
    BY <2>1, AncestorsInBlock
<1>4. fl \in [Block -> SUBSET Flag]
  <2>1. index.flags \in [Block -> SUBSET Flag] /\ FAILED_PARENT \in Flag
    BY IndexFields, FlagsDiffer DEF Flag
  <2> HIDE DEF between
  <2> QED
    BY <2>1
<1>5. \A x \in Block : fl[x] = IF x \in between THEN index.flags[x] \cup {FAILED_PARENT} ELSE index.flags[x]
  OBVIOUS
<1> HIDE DEF fl, between
<1>6. /\ index' \in BlockIndex /\ index'.flags = fl
      /\ index'.validity = index.validity /\ index'.seq = index.seq
      /\ index'.linked = index.linked /\ index'.unlinked = index.unlinked
      /\ index'.cand = index.cand /\ index'.failed = index.failed
      /\ index'.dirty = index.dirty \cup between
  BY <1>2, <1>3, <1>4 DEF BlockIndex, Flag
<1> QED
  BY <1>5, <1>6 DEF between

LEMMA FailsEffect ==
  ASSUME index \in BlockIndex, NEW b \in Block, AcceptBlock_Fails(b)
  PROVE  /\ index' \in BlockIndex
         /\ index'.flags = [index.flags EXCEPT ![b] = @ \cup {FAILED}]
         /\ index'.validity = index.validity /\ index'.seq = index.seq
         /\ index'.linked = index.linked /\ index'.unlinked = index.unlinked
         /\ index'.cand = index.cand /\ index'.failed = index.failed
         /\ index'.dirty = index.dirty \cup {b}
<1> DEFINE iy == MarkFailed(index, b)
<1>1. /\ iy \in BlockIndex
      /\ iy.flags = [index.flags EXCEPT ![b] = @ \cup {FAILED}]
      /\ iy.validity = index.validity /\ iy.seq = index.seq
      /\ iy.linked = index.linked /\ iy.unlinked = index.unlinked /\ iy.cand = index.cand
      /\ iy.failed = index.failed /\ iy.dirty = index.dirty
  BY MarkFailedFields
<1>2. index' = [iy EXCEPT !.dirty = @ \cup {b}]
  BY DEF AcceptBlock_Fails
<1> HIDE DEF iy
<1> QED
  BY <1>1, <1>2 DEF BlockIndex

LEMMA ShapeRejects ==
  ASSUME Counting, Shape, NEW b \in Block, AcceptBlockHeader_Rejects(b)
  PROVE  Shape'
<1> index \in BlockIndex /\ UNCHANGED <<chain, ids, abc, wanted, unwind, disk, commands, restarts>>
  BY ShapeFacts DEF AcceptBlockHeader_Rejects
<1> PICK f \in FailedBelow(b) :
         /\ index' \in BlockIndex
         /\ index'.validity = index.validity
         /\ index'.linked = index.linked /\ index'.unlinked = index.unlinked
         /\ index'.cand = index.cand
         /\ index'.dirty = index.dirty \cup (Ancestors[Parent[b]] \ Ancestors[f])
         /\ \A x \in Block : index'.flags[x] = IF x \in Ancestors[Parent[b]] \ Ancestors[f]
                                               THEN index.flags[x] \cup {FAILED_PARENT}
                                               ELSE index.flags[x]
  BY RejectsEffect
<1>3. Genesis \in Block /\ Genesis \in Ancestors[f]
  <2>1. f \in Block
    BY IndexFields DEF FailedBelow
  <2> QED
    BY <2>1, GenesisInAncestors, BlockTreeAssumption
<1>4. index'.flags[Genesis] \cap INVALID_MASK \subseteq index.flags[Genesis]
  BY <1>3
<1>5. \A x \in Block : DATA \in index'.flags[x] <=> DATA \in index.flags[x]
  BY FlagsDiffer
<1>6. index'.cand \subseteq index.cand \cup index.linked /\ index.dirty \subseteq index'.dirty
  OBVIOUS
<1>7. Marks(index, index')
  BY <1>4, <1>5, <1>6, MarksFrom
<1>8. EnoughWork(index', chain'.tip)
  BY DEF EnoughWork, Shape
<1> QED
  BY <1>7, <1>8, ShapeFacts, ShapeNoCommand DEF Shape, Types

LEMMA ShapeFails ==
  ASSUME Counting, Shape, NEW b \in Block, AcceptBlock_Fails(b)
  PROVE  Shape'
<1> index \in BlockIndex /\ UNCHANGED <<chain, ids, abc, wanted, unwind, disk, commands, restarts>>
  BY ShapeFacts DEF AcceptBlock_Fails
<1> /\ index' \in BlockIndex
    /\ index'.flags = [index.flags EXCEPT ![b] = @ \cup {FAILED}]
    /\ index'.validity = index.validity
    /\ index'.linked = index.linked /\ index'.unlinked = index.unlinked
    /\ index'.cand = index.cand /\ index'.dirty = index.dirty \cup {b}
  BY FailsEffect
<1>3. Genesis \in Block /\ b # Genesis
  BY ChainStateAssumption, BlockTreeAssumption DEF AcceptBlock_Fails
<1> \A x \in Block : index'.flags[x] = IF x = b THEN index.flags[x] \cup {FAILED} ELSE index.flags[x]
  BY ShapeFacts, AddFlag
<1>5. index'.flags[Genesis] \cap INVALID_MASK \subseteq index.flags[Genesis]
  BY <1>3
<1>6. \A x \in Block : DATA \in index'.flags[x] <=> DATA \in index.flags[x]
  BY FlagsDiffer
<1>7. index'.cand \subseteq index.cand \cup index.linked /\ index.dirty \subseteq index'.dirty
  OBVIOUS
<1>8. Marks(index, index')
  BY <1>5, <1>6, <1>7, MarksFrom
<1>9. EnoughWork(index', chain'.tip)
  BY DEF EnoughWork, Shape
<1> QED
  BY <1>8, <1>9, ShapeFacts, ShapeNoCommand DEF Shape, Types

LEMMA HeaderEffect ==
  ASSUME Counting, index \in BlockIndex, NEW b \in Block, AcceptBlockHeader(b)
  PROVE  /\ index' \in BlockIndex
         /\ index'.validity = [index.validity EXCEPT ![b] = TREE]
         /\ index'.flags = index.flags /\ index'.seq = index.seq
         /\ index'.linked = index.linked /\ index'.unlinked = index.unlinked
         /\ index'.cand = index.cand /\ index'.failed = index.failed
         /\ index'.dirty = index.dirty \cup {b}
<1>1. index' = [index EXCEPT !.validity[b] = TREE, !.dirty = @ \cup {b}]
  BY DEF AcceptBlockHeader
<1>2. [index.validity EXCEPT ![b] = TREE] \in [Block -> Validity]
  BY IndexFields DEF Validity
<1> DEFINE va == [index.validity EXCEPT ![b] = TREE]
<1>3. index' = [index EXCEPT !.validity = va, !.dirty = @ \cup {b}]
  BY <1>1 DEF BlockIndex
<1> HIDE DEF va
<1>4. /\ index' \in BlockIndex /\ index'.validity = va
      /\ index'.flags = index.flags /\ index'.seq = index.seq
      /\ index'.linked = index.linked /\ index'.unlinked = index.unlinked
      /\ index'.cand = index.cand /\ index'.failed = index.failed
      /\ index'.dirty = index.dirty \cup {b}
  BY <1>2, <1>3 DEF BlockIndex, Validity, va
<1> QED
  BY <1>4 DEF va

LEMMA ShapeHeader ==
  ASSUME Counting, Shape, NEW b \in Block, AcceptBlockHeader(b)
  PROVE  Shape'
<1>1. index \in BlockIndex /\ UNCHANGED <<ids, abc, wanted, unwind, disk, commands, restarts>>
  BY ShapeFacts DEF AcceptBlockHeader
<1> /\ index' \in BlockIndex
    /\ index'.validity = [index.validity EXCEPT ![b] = TREE]
    /\ index'.flags = index.flags
    /\ index'.linked = index.linked /\ index'.unlinked = index.unlinked
    /\ index'.cand = index.cand
    /\ index'.dirty = index.dirty \cup {b}
  BY <1>1, HeaderEffect
<1> b \notin Known(index) /\ Parent[b] \in Known(index)
  BY DEF AcceptBlockHeader, HeaderReaches
<1> \A x \in Block : index'.validity[x] = IF x = b THEN TREE ELSE index.validity[x]
  BY <1>1, IndexFields
<1> Known(index') = Known(index) \cup {b}
  BY SMTT(30) DEF Known, TREE, UNKNOWN
<1>6. ClosedUnderParent(Known(index'))
  BY ShapeFacts DEF ClosedUnderParent
<1>7. index.validity[b] = UNKNOWN
  BY DEF Known
<1>8. DATA \notin index.flags[b]
  BY <1>7, SMTT(30) DEF Shape, Rooted, UNKNOWN, TRANSACTIONS
<1>9. \A x \in Block : DATA \in index'.flags[x] => index'.validity[x] >= TRANSACTIONS
  BY <1>8 DEF Shape, Rooted
<1>10. Rooted(index')
  BY <1>6, <1>9 DEF Shape, Rooted, IsInvalid
<1>11. OnDisk(index', disk')
  BY <1>1 DEF Shape, OnDisk
<1> chain' \in ChainOf(Known(index')) /\ chain'.tip = chain.tip
  <2>1. chain' = [chain EXCEPT !.header = IF ChainWork[@] < ChainWork[b] THEN b ELSE @]
    BY DEF AcceptBlockHeader
  <2>2. chain \in ChainOf(Known(index))
    BY ShapeFacts
  <2> QED
    BY <2>1, <2>2 DEF ChainOf
<1>13. Types'
  BY <1>1 DEF Shape, Types
<1>14. EnoughWork(index', chain'.tip) /\ InHand(abc', index'.linked, chain'.tip) /\ chain'.tip \in index'.linked
  BY <1>1 DEF EnoughWork, Shape
<1> QED
  BY <1>1, <1>10, <1>11, <1>13, <1>14 DEF Shape

\* What FindMostWorkChain makes of the index when it looks at the candidate b.
Looked(ix, b) ==
  /\ ix \in BlockIndex /\ Marks(index, ix)
  /\ ix.validity = index.validity /\ ix.seq = index.seq
  /\ ix.linked = index.linked /\ ix.unlinked = index.unlinked
  /\ ix.failed \subseteq index.failed
  /\ \A x \in index.failed \ ix.failed : ~IsInvalid(ix, x)
  /\ index.cand \subseteq ix.cand
  /\ \A x \in ix.cand \ index.cand : /\ x \in index.linked /\ IsValid(ix, x, TRANSACTIONS)
                                     /\ Worse(index, chain.tip, x)
  /\ \A x \in Block : \A f \in INVALID_MASK :
       f \in ix.flags[x] <=> f \in index.flags[x] \/ (x = b /\ f = FAILED /\ Conflicts(b))
  /\ \A x \in Block : \/ ix.flags[x] = index.flags[x] \/ x \in ix.dirty
                      \/ x = b /\ Conflicts(b)
  /\ Caused(index.flags, PARKED_MASK, PARKED) => Caused(ix.flags, PARKED_MASK, PARKED)

LEMMA MasksAreFlags ==
  /\ PARKED_MASK \in SUBSET (INVALID_MASK \cup PARKED_MASK)
  /\ {PARKED_PARENT} \in SUBSET (INVALID_MASK \cup PARKED_MASK)
  /\ INVALID_MASK \in SUBSET (INVALID_MASK \cup PARKED_MASK)
  /\ {FAILED_PARENT} \in SUBSET (INVALID_MASK \cup PARKED_MASK)
  /\ {PARKED_PARENT} \in SUBSET PARKED_MASK /\ PARKED_MASK \in SUBSET PARKED_MASK
BY DEF PARKED_MASK, INVALID_MASK

\* Unparking leaves the marks of invalid blocks alone.
LEMMA UnparkKeeps ==
  ASSUME Counting, NEW ix \in BlockIndex, NEW iy, NEW t \in Block, NEW b \in Block,
         NEW own \in SUBSET PARKED_MASK, NEW child \in SUBSET PARKED_MASK, NEW below \in SUBSET PARKED_MASK,
         Updated(ix, iy, t, b, own, child, below)
  PROVE  \A x \in Block : \A f \in INVALID_MASK : f \in iy.flags[x] <=> f \in ix.flags[x]
<1>1. PICK deepest \in Ancestors[b] : Cleared(ix, iy, b, deepest, own, child, below)
  BY DEF Updated
<1>2. \A f \in INVALID_MASK : f \notin own /\ f \notin child /\ f \notin below
  BY FlagsDiffer
<1> QED
  BY <1>1, <1>2 DEF Cleared

LEMMA ConflictsAboveGenesis ==
  ASSUME Counting, Shape, NEW b \in Block, Conflicts(b)
  PROVE  b # Genesis /\ chain.finalized \in Block
BY ShapeFacts, GenesisInAncestors DEF Conflicts, AreOnTheSameFork

LEMMA ExaminedEffect ==
  ASSUME Counting, Shape, NEW b \in Block
  PROVE  Looked(Examined(b), b)
<1> DEFINE ix == IF Conflicts(b) THEN MarkFailed(index, b) ELSE index
           enough == /\ AutomaticUnparking
                     /\ ChainWork[b] > RequiredWork(chain.tip, LastCommonAncestor(b, chain.tip))
           parked == {x \in PathTo(b) : IsOnParkedChain(ix, x)}
           above == {x \in parked : \A y \in PathTo(b) : Height[y] > Height[x] => ~IsInvalid(ix, y)}
           h == Highest(above)
<1>1. Examined(b) = IF enough /\ above # {} THEN UnparkBlock(ix, chain.tip, h) ELSE ix
  BY DEF Examined
<1> index \in BlockIndex /\ chain.tip \in Block /\ index.flags \in [Block -> SUBSET Flag]
  BY ShapeFacts
<1> Looked(ix, b)
  <2> CASE ~Conflicts(b)
    <3>1. ix = index
      OBVIOUS
    <3>2. Marks(index, index)
      BY MarksReflexive
    <3> QED
      BY <3>1, <3>2 DEF Looked
  <2> CASE Conflicts(b)
    <3>1. ix = MarkFailed(index, b)
      OBVIOUS
    <3>2. b # Genesis
      BY ConflictsAboveGenesis
    <3>3. Marks(index, MarkFailed(index, b))
      BY <3>2, MarkFailedMarks
    <3> \A x \in Block : MarkFailed(index, b).flags[x]
                           = IF x = b THEN index.flags[x] \cup {FAILED} ELSE index.flags[x]
      <4>1. MarkFailed(index, b).flags = [index.flags EXCEPT ![b] = @ \cup {FAILED}]
        BY MarkFailedFields
      <4> QED
        BY <4>1, AddFlag
    <3> DEFINE iy == MarkFailed(index, b)
    <3>5. /\ iy \in BlockIndex /\ iy.validity = index.validity /\ iy.seq = index.seq
          /\ iy.linked = index.linked /\ iy.unlinked = index.unlinked /\ iy.cand = index.cand
          /\ iy.failed = index.failed /\ iy.dirty = index.dirty
      BY MarkFailedFields
    <3> HIDE DEF iy
    <3>6. \A x \in Block : \A f \in INVALID_MASK :
            f \in iy.flags[x] <=> f \in index.flags[x] \/ (x = b /\ f = FAILED)
      BY DEF iy
    <3>7. \A x \in Block : iy.flags[x] = index.flags[x] \/ x = b
      BY DEF iy
    <3>8. Caused(index.flags, PARKED_MASK, PARKED) => Caused(iy.flags, PARKED_MASK, PARKED)
      <4>1. \A x \in Block : \A f \in PARKED_MASK : f \in iy.flags[x] <=> f \in index.flags[x]
        BY FlagsDiffer DEF iy
      <4> QED
        BY <4>1, FlagsDiffer, CausedSame
    <3>9. Looked(iy, b)
      BY <3>3, <3>5, <3>6, <3>7, <3>8 DEF Looked, iy
    <3> QED
      BY <3>1, <3>9 DEF iy
  <2> QED
    OBVIOUS
<1> ASSUME above # {} PROVE Looked(UnparkBlock(ix, chain.tip, h), b)
  <2>1. above \in SUBSET Ancestors[b]
    BY DEF PathTo
  <2>2. \E x \in above : \A y \in above : Height[y] <= Height[x]
    <3> HIDE DEF above
    <3> QED
      BY <2>1, HighestOnChain
  <2> h \in Block
    <3> HIDE DEF above
    <3>1. h \in above
      BY <2>2 DEF Highest
    <3> QED
      BY <2>1, <3>1, AncestorsInBlock
  <2> HIDE DEF h, above, ix
  <2> ix \in BlockIndex
    BY DEF Looked
  <2> DEFINE iy == UnparkBlock(ix, chain.tip, h)
  <2> /\ Updated(ix, iy, chain.tip, h, PARKED_MASK, {PARKED_PARENT}, {PARKED_PARENT})
      /\ Marks(ix, iy)
    <3>1. Updated(ix, iy, chain.tip, h, PARKED_MASK, {PARKED_PARENT}, {PARKED_PARENT})
      BY UpdateFlagsFields DEF UnparkBlock
    <3>2. Marks(ix, iy)
      BY UpdateFlagsMarks, MasksAreFlags DEF UnparkBlock
    <3> QED
      BY <3>1, <3>2
  <2> HIDE DEF iy
  <2> \A x \in Block : \A f \in INVALID_MASK : f \in iy.flags[x] <=> f \in ix.flags[x]
    BY UnparkKeeps, MasksAreFlags
  <2> \A x \in Block : IsInvalid(iy, x) <=> IsInvalid(ix, x)
    BY DEF IsInvalid
  <2>8. Marks(index, iy)
    BY MarksTransitive DEF Looked
  <2> iy.seq = index.seq /\ \A x : Worse(ix, chain.tip, x) <=> Worse(index, chain.tip, x)
    <3>1. iy.seq = index.seq /\ ix.seq = index.seq
      BY DEF Looked, Updated
    <3> QED
      BY <3>1 DEF Worse
  <2> /\ iy \in BlockIndex /\ iy.validity = index.validity
      /\ iy.linked = index.linked /\ iy.unlinked = index.unlinked
    BY DEF Looked, Updated
  <2>11. /\ iy.failed \subseteq index.failed
         /\ \A x \in index.failed \ iy.failed : ~IsInvalid(iy, x)
    <3>1. index.failed \in SUBSET Block
      BY IndexFields
    <3> QED
      BY <3>1 DEF Looked, Updated
  <2>12. /\ index.cand \subseteq iy.cand
         /\ \A x \in iy.cand \ index.cand : /\ x \in index.linked /\ IsValid(iy, x, TRANSACTIONS)
                                            /\ Worse(index, chain.tip, x)
    <3>1. \A x \in Block : IsValid(iy, x, TRANSACTIONS) <=> IsValid(ix, x, TRANSACTIONS)
      BY DEF IsValid, Looked
    <3>2. \A x \in iy.cand \ ix.cand : /\ x \in ix.linked /\ IsValid(iy, x, TRANSACTIONS)
                                       /\ Worse(ix, chain.tip, x)
      BY DEF Updated
    <3>3. ix.cand \subseteq iy.cand
      BY DEF Updated
    <3>4. index.linked \in SUBSET Block
      BY ShapeFacts
    <3> QED
      BY <3>1, <3>2, <3>3, <3>4 DEF Looked
  <2>13. \A x \in Block : \A f \in INVALID_MASK :
           f \in iy.flags[x] <=> f \in index.flags[x] \/ (x = b /\ f = FAILED /\ Conflicts(b))
    BY DEF Looked
  <2>14. \A x \in Block : \/ iy.flags[x] = index.flags[x] \/ x \in iy.dirty
                          \/ x = b /\ Conflicts(b)
    BY DEF Looked, Updated
  <2>15. Caused(index.flags, PARKED_MASK, PARKED) => Caused(iy.flags, PARKED_MASK, PARKED)
    <3>1. Caused(index.flags, PARKED_MASK, PARKED) => Caused(ix.flags, PARKED_MASK, PARKED)
      BY DEF Looked
    <3>2. PARKED_MASK = {PARKED, PARKED_PARENT} /\ PARKED_PARENT \in {PARKED_PARENT}
      BY DEF PARKED_MASK
    <3> QED
      BY <3>1, <3>2, UpdatedCaused
  <2>16. Looked(iy, b)
    BY <2>8, <2>11, <2>12, <2>13, <2>14, <2>15 DEF Looked
  <2> QED
    BY <2>16 DEF iy
<1> HIDE DEF ix, enough, above, h
<1> QED
  BY <1>1

\* The best candidate is the tip or not on its chain.
LEMMA BestCandidateAbove ==
  ASSUME Counting, Shape, index.cand # {}
  PROVE  LET b == BestCandidate(index)
         IN  /\ b \in Block /\ b \in index.linked /\ b \in index.cand
             /\ b = chain.tip \/ b \notin Ancestors[chain.tip]
<1> DEFINE b == BestCandidate(index)
<1> index \in BlockIndex /\ chain.tip \in Block
  BY ShapeFacts
<1> b \in index.cand /\ b \in Block
  BY BestCandidateIn
<1> HIDE DEF b
<1> b \in index.linked /\ ChainWork[chain.tip] <= ChainWork[b]
  BY DEF Shape, Rooted, EnoughWork
<1>4. b = chain.tip \/ b \notin Ancestors[chain.tip]
  <2>1. b \in Ancestors[chain.tip] => b = chain.tip \/ ChainWork[b] < ChainWork[chain.tip]
    BY WorkOnChain
  <2>2. ChainWork[b] \in Nat /\ ChainWork[chain.tip] \in Nat
    BY ChainStateAssumption
  <2> QED
    BY <2>1, <2>2, SMTT(30)
<1> QED
  BY <1>4 DEF b

LEMMA LookedEnoughWork ==
  ASSUME Counting, Shape, NEW ix, NEW b, Looked(ix, b)
  PROVE  EnoughWork(ix, chain.tip)
<1> index \in BlockIndex /\ chain.tip \in Block /\ index.linked \in SUBSET Block
  BY ShapeFacts
<1>2. \A x \in ix.cand \ index.cand : x \in Block /\ Worse(index, chain.tip, x)
  BY DEF Looked
<1>3. \A x \in ix.cand \ index.cand : ChainWork[chain.tip] <= ChainWork[x]
  BY <1>2, WorseOrder
<1> QED
  BY <1>3 DEF Shape, EnoughWork

\* The pointers of the active chain after FindMostWorkChain looked at b.
LEMMA LookedChain ==
  ASSUME Counting, Shape, NEW b \in Block,
         chain' = IF Conflicts(b) THEN InvalidChainFound(chain, b) ELSE chain
  PROVE  /\ chain' \in ChainOf(Known(index)) /\ chain'.tip = chain.tip
         /\ chain'.finalized = chain.finalized
<1> CASE ~Conflicts(b)
  BY ShapeFacts
<1> CASE Conflicts(b)
  <2>1. b # Genesis /\ b \notin Ancestors[chain.finalized]
    BY ConflictsAboveGenesis DEF Conflicts, AreOnTheSameFork
  <2>2. /\ InvalidChainFound(chain, b) \in ChainOf(Known(index))
        /\ InvalidChainFound(chain, b).tip = chain.tip
        /\ InvalidChainFound(chain, b).finalized = chain.finalized
    BY <2>1, ShapeFacts, InvalidChainFoundIn, ZenonT(60)
  <2> QED
    BY <2>2
<1> QED
  OBVIOUS

LEMMA ShapeFind ==
  ASSUME Counting, Shape, FindMostWorkChain
  PROVE  Shape'
<1> abc.pc = "find" /\ UNCHANGED <<ids, wanted, unwind, disk, commands, restarts>>
  BY DEF FindMostWorkChain
<1> wanted \in BOOLEAN /\ InUnwind(unwind) /\ abc.start \in Block
  BY DEF Shape, Types, InHand
<1> CASE index.cand = {}
  <2> abc' = Idle /\ UNCHANGED <<index, chain>>
    BY DEF FindMostWorkChain
  <2>2. Marks(index, index') /\ EnoughWork(index', chain'.tip)
    BY ShapeFacts, MarksReflexive DEF Shape
  <2>3. InHand(abc', index.linked, chain'.tip)
    BY IdleInHand
  <2> QED
    BY <2>2, <2>3, ShapeFacts, ShapeNoCommand
<1> CASE index.cand # {}
  <2> DEFINE b == BestCandidate(index)
  <2> /\ index' = Examined(b)
      /\ chain' = IF Conflicts(b) THEN InvalidChainFound(chain, b) ELSE chain
      /\ abc' = IF b = chain.tip THEN Idle ELSE BeginStep(abc, chain.tip, b)
    BY DEF FindMostWorkChain
  <2> /\ b \in Block /\ b \in index.linked
      /\ b = chain.tip \/ b \notin Ancestors[chain.tip]
    BY BestCandidateAbove
  <2> HIDE DEF b
  <2>3. Looked(index', b)
    BY ExaminedEffect
  <2> chain' \in ChainOf(Known(index)) /\ chain'.tip = chain.tip
    BY LookedChain
  <2>5. Marks(index, index') /\ EnoughWork(index', chain'.tip)
    BY <2>3, LookedEnoughWork DEF Looked
  <2>6. InHand(abc', index.linked, chain'.tip)
    <3> CASE b = chain.tip
      BY IdleInHand
    <3> CASE b # chain.tip
      BY BeginStepInHand, ShapeFacts
    <3> QED
      OBVIOUS
  <2> QED
    BY <2>5, <2>6, ShapeFacts, ShapeNoCommand
<1> QED
  OBVIOUS

\* FindMostWorkChain drops the candidate b because of the block "bad".
Dropped(ix, b, bad) ==
  /\ Looked(ix, b)
  /\ bad \in PathTo(b) /\ (IsInvalid(ix, bad) \/ IsOnParkedChain(ix, bad))
  /\ \A y \in Unusable(ix, b) : Height[y] <= Height[bad]
  /\ index' \in BlockIndex
  /\ index'.validity = ix.validity /\ index'.seq = ix.seq
  /\ index'.linked = ix.linked /\ index'.unlinked = ix.unlinked
  /\ index'.failed = ix.failed /\ index'.dirty = ix.dirty
  /\ index'.cand = ix.cand \ ((Ancestors[b] \ Ancestors[bad]) \cup {bad})
  /\ \A x \in Block :
       index'.flags[x] = IF x \in Ancestors[b] \ Ancestors[bad]
                         THEN (ix.flags[x] \ {FAILED_PARENT, PARKED_PARENT})
                                \cup (IF IsInvalid(ix, bad) THEN {FAILED_PARENT} ELSE {})
                                \cup (IF IsOnParkedChain(ix, bad) THEN {PARKED_PARENT} ELSE {})
                         ELSE ix.flags[x]

LEMMA DropsEffect ==
  ASSUME Counting, Shape, FindMostWorkChain_Rejects
  PROVE  \E b \in Block : \E ix, bad :
           /\ b \in index.cand /\ b \in index.linked
           /\ b = chain.tip \/ b \notin Ancestors[chain.tip]
           /\ ix = Examined(b) /\ Dropped(ix, b, bad)
           /\ chain' = IF Conflicts(b) THEN InvalidChainFound(chain, b) ELSE chain
<1> DEFINE b == BestCandidate(index)
           ix == Examined(b)
           bad == Highest(Unusable(ix, b))
           above == Ancestors[b] \ Ancestors[bad]
           marks == (IF IsInvalid(ix, bad) THEN {FAILED_PARENT} ELSE {})
                      \cup (IF IsOnParkedChain(ix, bad) THEN {PARKED_PARENT} ELSE {})
           fl == [x \in Block |-> IF x \in above
                                  THEN (ix.flags[x] \ {FAILED_PARENT, PARKED_PARENT}) \cup marks
                                  ELSE ix.flags[x]]
<1>1. /\ Unusable(ix, b) # {}
      /\ index' = [ix EXCEPT !.flags = [x \in Block |->
                                IF x \in above
                                THEN (@[x] \ {FAILED_PARENT, PARKED_PARENT}) \cup marks
                                ELSE @[x]],
                             !.cand = @ \ (above \cup {bad})]
      /\ chain' = IF Conflicts(b) THEN InvalidChainFound(chain, b) ELSE chain
  BY DEF FindMostWorkChain_Rejects
<1> /\ b \in Block /\ b \in index.linked /\ b \in index.cand
    /\ b = chain.tip \/ b \notin Ancestors[chain.tip]
  BY BestCandidateAbove DEF FindMostWorkChain_Rejects
<1> HIDE DEF b
<1> Looked(ix, b)
  BY ExaminedEffect
<1>4. ix = Examined(b)
  OBVIOUS
<1> HIDE DEF ix
<1>5. /\ bad \in PathTo(b) /\ (IsInvalid(ix, bad) \/ IsOnParkedChain(ix, bad))
      /\ \A y \in Unusable(ix, b) : Height[y] <= Height[bad]
  <2>1. Unusable(ix, b) \in SUBSET Ancestors[b]
    BY DEF Unusable, PathTo
  <2>2. \E x \in Unusable(ix, b) : \A y \in Unusable(ix, b) : Height[y] <= Height[x]
    BY <1>1, <2>1, HighestOnChain
  <2>3. bad \in Unusable(ix, b) /\ \A y \in Unusable(ix, b) : Height[y] <= Height[bad]
    BY <2>2 DEF Highest
  <2> QED
    BY <2>3 DEF Unusable
<1> HIDE DEF bad
<1> ix \in BlockIndex /\ ix.flags \in [Block -> SUBSET Flag]
  BY IndexFields DEF Looked
<1>7. marks \in SUBSET Flag
  BY FlagsDiffer DEF Flag
<1> HIDE DEF marks, above
<1>8. fl \in [Block -> SUBSET Flag]
  BY <1>7
<1>9. index' = [ix EXCEPT !.flags = fl, !.cand = @ \ (above \cup {bad})]
  BY <1>1 DEF BlockIndex
<1>10. \A x \in Block : fl[x] = IF x \in above
                                THEN (ix.flags[x] \ {FAILED_PARENT, PARKED_PARENT}) \cup marks
                                ELSE ix.flags[x]
  OBVIOUS
<1> HIDE DEF fl
<1> /\ index' \in BlockIndex /\ index'.flags = fl
    /\ index'.validity = ix.validity /\ index'.seq = ix.seq
    /\ index'.linked = ix.linked /\ index'.unlinked = ix.unlinked
    /\ index'.failed = ix.failed /\ index'.dirty = ix.dirty
    /\ index'.cand = ix.cand \ (above \cup {bad})
  BY <1>8, <1>9 DEF BlockIndex, Flag
<1>12. \A x \in Block :
         index'.flags[x] = IF x \in above
                           THEN (ix.flags[x] \ {FAILED_PARENT, PARKED_PARENT})
                                  \cup (IF IsInvalid(ix, bad) THEN {FAILED_PARENT} ELSE {})
                                  \cup (IF IsOnParkedChain(ix, bad) THEN {PARKED_PARENT} ELSE {})
                           ELSE ix.flags[x]
  <2>1. \A S, T, U : (S \cup T) \cup U = S \cup (T \cup U)
    OBVIOUS
  <2> QED
    BY <1>10, <2>1 DEF marks
<1>13. Dropped(ix, b, bad)
  BY <1>5, <1>12 DEF Dropped, above
<1> QED
  BY <1>1, <1>4, <1>13

LEMMA DroppedMarks ==
  ASSUME Counting, Shape, NEW b \in Block, NEW ix, NEW bad, Dropped(ix, b, bad)
  PROVE  Marks(index, index') /\ EnoughWork(index', chain.tip)
<1> ix \in BlockIndex /\ Marks(index, ix) /\ index \in BlockIndex
  BY ShapeFacts DEF Dropped, Looked
<1>2. bad \in Block /\ Genesis \in Ancestors[bad] /\ Genesis \in Block
  <2>1. bad \in Block
    BY AncestorsInBlock DEF Dropped, PathTo
  <2> QED
    BY <2>1, GenesisInAncestors, BlockTreeAssumption
<1>3. index'.flags[Genesis] \cap INVALID_MASK \subseteq ix.flags[Genesis]
  BY <1>2 DEF Dropped
<1>4. \A x \in Block : DATA \in index'.flags[x] <=> DATA \in ix.flags[x]
  BY FlagsDiffer DEF Dropped
<1>5. index'.cand \subseteq ix.cand \cup ix.linked /\ ix.dirty \subseteq index'.dirty
  BY DEF Dropped
<1>6. Marks(ix, index')
  BY <1>3, <1>4, <1>5, MarksFrom DEF Dropped
<1>7. EnoughWork(ix, chain.tip)
  BY LookedEnoughWork DEF Dropped
<1>8. EnoughWork(index', chain.tip)
  BY <1>7 DEF EnoughWork, Dropped
<1> QED
  BY <1>6, <1>8, MarksTransitive

LEMMA ShapeDrops ==
  ASSUME Counting, Shape, FindMostWorkChain_Rejects
  PROVE  Shape'
<1> PICK b, ix, bad : /\ b \in Block /\ Dropped(ix, b, bad)
                      /\ chain' = IF Conflicts(b) THEN InvalidChainFound(chain, b) ELSE chain
  BY DropsEffect
<1> UNCHANGED <<ids, abc, wanted, unwind, disk, commands, restarts>>
  BY DEF FindMostWorkChain_Rejects
<1> chain' \in ChainOf(Known(index)) /\ chain'.tip = chain.tip
  BY LookedChain
<1>4. Marks(index, index') /\ EnoughWork(index', chain'.tip)
  BY DroppedMarks
<1>5. wanted' \in BOOLEAN /\ InUnwind(unwind') /\ InHand(abc', index.linked, chain'.tip)
  BY DEF Shape, Types
<1> QED
  BY <1>4, <1>5, ShapeFacts, ShapeNoCommand

LEMMA ShapeActivate ==
  ASSUME Counting, Shape, ActivateBestChain
  PROVE  Shape'
<1> /\ abc.pc = "idle" /\ wanted' = FALSE /\ abc' = [abc EXCEPT !.pc = "unlocked"]
    /\ UNCHANGED <<index, chain, ids, unwind, disk, commands, restarts>>
  BY DEF ActivateBestChain
<1>2. Marks(index, index') /\ EnoughWork(index', chain'.tip) /\ InUnwind(unwind')
  BY ShapeFacts, MarksReflexive DEF Shape
<1>3. abc' \in Activating /\ abc'.pc = "unlocked" /\ abc'.mostWork = abc.mostWork
  BY ShapeFacts DEF Activating
<1>4. abc.mostWork = Null
  BY DEF Shape, InHand
<1>5. InHand(abc', index.linked, chain'.tip)
  BY <1>3, <1>4 DEF InHand
<1> QED
  BY <1>2, <1>5, ShapeFacts, ShapeNoCommand

LEMMA ShapeLock ==
  ASSUME Counting, Shape, ActivateBestChain_Lock
  PROVE  Shape'
<1> DEFINE locked == [abc EXCEPT !.start = chain.tip]
<1>1. /\ abc' = IF abc.mostWork = Null THEN [locked EXCEPT !.pc = "find"]
                ELSE IF abc.mostWork = chain.tip THEN Idle
                ELSE BeginStep(locked, chain.tip, abc.mostWork)
      /\ UNCHANGED <<index, chain, ids, wanted, unwind, disk, commands, restarts>>
  BY DEF ActivateBestChain_Lock
<1>2. Marks(index, index') /\ EnoughWork(index', chain'.tip) /\ InUnwind(unwind') /\ wanted' \in BOOLEAN
  BY <1>1, ShapeFacts, MarksReflexive DEF Shape, Types
<1> abc \in Activating /\ chain.tip \in Block
  BY ShapeFacts
<1> locked \in Activating /\ locked.start = chain.tip /\ locked.mostWork = abc.mostWork
  BY DEF Activating
<1> HIDE DEF locked
<1>5. InHand(abc', index.linked, chain'.tip)
  <2>1. CASE abc.mostWork = Null
    <3>1. abc' = [locked EXCEPT !.pc = "find"]
      BY <1>1, <2>1
    <3>2. abc' \in Activating /\ abc'.pc = "find" /\ abc'.mostWork = Null /\ abc'.start = chain.tip
      BY <2>1, <3>1 DEF Activating
    <3> QED
      BY <3>2 DEF InHand
  <2>2. CASE abc.mostWork # Null /\ abc.mostWork = chain.tip
    BY <1>1, <2>2, IdleInHand
  <2>3. CASE abc.mostWork # Null /\ abc.mostWork # chain.tip
    <3>1. abc' = BeginStep(locked, chain.tip, abc.mostWork) /\ chain' = chain
      BY <1>1, <2>3
    <3>2. abc.mostWork \in index.linked /\ abc.mostWork \notin Ancestors[chain.tip]
      BY <2>3 DEF Shape, InHand
    <3> QED
      BY <3>1, <3>2, ShapeFacts, BeginStepInHand
  <2> QED
    BY <2>1, <2>2, <2>3
<1> QED
  BY <1>1, <1>2, <1>5, ShapeFacts, ShapeNoCommand

\* The tip moves down to its parent.
LEMMA DisconnectShape ==
  ASSUME Counting, Shape, chain.tip # Genesis, chain' = Disconnected(chain)
  PROVE  /\ chain' \in ChainOf(Known(index)) /\ chain'.tip = Parent[chain.tip]
         /\ chain'.tip \in index.linked /\ chain'.tip \in Ancestors[chain.tip]
         /\ InHand(abc, index.linked, chain'.tip) /\ EnoughWork(index, chain'.tip)
<1> chain' \in ChainOf(Known(index)) /\ chain'.tip = Parent[chain.tip]
  BY ShapeFacts, DisconnectedIn
<1> chain'.tip \in index.linked
  BY DEF Shape, Rooted, ClosedUnderParent
<1> chain.tip \in Block /\ chain'.tip \in Block
  BY ShapeFacts
<1> chain'.tip \in Ancestors[chain.tip]
  BY AncestorsOfParent, SelfAncestor
<1>5. InHand(abc, index.linked, chain'.tip)
  BY LowerTipInHand DEF Shape
<1>6. EnoughWork(index, chain'.tip)
  <2>1. ChainWork[chain'.tip] < ChainWork[chain.tip] /\ ChainWork \in [Block -> Nat]
    BY ChainStateAssumption
  <2>2. \A b \in index.cand : b \in Block /\ ChainWork[chain.tip] <= ChainWork[b]
    BY ShapeFacts DEF Shape, EnoughWork
  <2>3. \A b \in index.cand : ChainWork[chain'.tip] <= ChainWork[b]
    BY <2>1, <2>2, SMTT(30)
  <2> QED
    BY <2>3 DEF EnoughWork
<1> QED
  BY <1>5, <1>6

LEMMA ShapeStepDown ==
  ASSUME Counting, Shape, ActivateBestChainStep_DisconnectTip
  PROVE  Shape'
<1> /\ abc.pc = "step" /\ chain.tip \notin Ancestors[abc.mostWork] /\ chain' = Disconnected(chain)
    /\ UNCHANGED <<index, ids, abc, wanted, unwind, disk, commands, restarts>>
  BY DEF ActivateBestChainStep_DisconnectTip
<1>2. abc.mostWork \in Block
  BY DEF Shape, InHand
<1>3. chain.tip # Genesis
  BY <1>2, GenesisInAncestors
<1> /\ chain' \in ChainOf(Known(index)) /\ chain'.tip \in index.linked
    /\ InHand(abc, index.linked, chain'.tip) /\ EnoughWork(index, chain'.tip)
  BY <1>3, DisconnectShape
<1>5. Marks(index, index') /\ InUnwind(unwind') /\ wanted' \in BOOLEAN
  BY ShapeFacts, MarksReflexive DEF Shape, Types
<1>6. InHand(abc', index.linked, chain'.tip) /\ EnoughWork(index', chain'.tip)
  OBVIOUS
<1> QED
  BY <1>5, <1>6, ShapeNoCommand

\* The block to connect is the next one on the way to the chosen block.
LEMMA ToConnectFacts ==
  ASSUME Counting, Shape, NEW b \in Block, ToConnect(b)
  PROVE  /\ abc.pc = "step" /\ abc.mostWork \in Block /\ abc.mostWork # Null
         /\ abc.mostWork \in index.linked /\ abc.start \in Block /\ abc.low \in Block \ {Genesis}
         /\ b \in Ancestors[abc.mostWork] /\ b # Genesis /\ Parent[b] = chain.tip
         /\ b \in index.linked /\ b \in Known(index)
         /\ abc.mostWork = b \/ abc.mostWork \notin Ancestors[b]
         /\ DATA \in index.flags[b] /\ index.validity[b] >= TRANSACTIONS
<1> abc.pc = "step" /\ chain.tip \in Ancestors[abc.mostWork] /\ b = NextTowards(chain.tip, abc.mostWork)
  BY DEF ToConnect
<1> /\ abc.mostWork \in Block /\ abc.start \in Block /\ abc.low \in Block \ {Genesis}
    /\ abc.mostWork \in index.linked /\ abc.mostWork \notin Ancestors[chain.tip]
    /\ abc.mostWork # Null
  BY NullOutside DEF Shape, InHand
<1>3. chain.tip # abc.mostWork
  BY SelfAncestor
<1> b \in Ancestors[abc.mostWork] /\ b # Genesis /\ Parent[b] = chain.tip
  BY <1>3, NextTowardsExists
<1> b \in index.linked /\ b \in Known(index)
  <2>1. Ancestors[abc.mostWork] \subseteq index.linked
    BY ChainInClosed, ShapeFacts DEF Shape, Rooted
  <2> QED
    BY <2>1, ShapeFacts
<1>6. abc.mostWork = b \/ abc.mostWork \notin Ancestors[b]
  BY AncestorsAntisymmetric
<1>7. DATA \in index.flags[b] /\ index.validity[b] >= TRANSACTIONS
  BY DEF Shape, Rooted
<1> QED
  BY <1>6, <1>7

LEMMA ShapeConnect ==
  ASSUME Counting, Shape, NEW b \in Block, ConnectTip(b)
  PROVE  Shape'
<1> ToConnect(b) /\ UNCHANGED <<ids, wanted, unwind, disk, commands, restarts>>
  BY DEF ConnectTip
<1> /\ abc.mostWork \in index.linked /\ abc.mostWork \in Block /\ abc.mostWork # Null
    /\ abc.start \in Block /\ b \in Ancestors[abc.mostWork]
    /\ b \in index.linked /\ b \in Known(index) /\ index.validity[b] >= TRANSACTIONS
    /\ abc.mostWork = b \/ abc.mostWork \notin Ancestors[b]
    /\ abc.low \in Block \ {Genesis} /\ abc.pc = "step"
  BY ToConnectFacts
<1> index \in BlockIndex /\ index.linked \in SUBSET Block /\ abc \in Activating
  BY ShapeFacts
<1> DEFINE ix == ScriptsValid(index, b)
<1> Marks(index, ix) /\ ix \in BlockIndex
  BY ScriptsValidMarks, ScriptsValidFields
<1> index' = PruneBlockIndexCandidates(ix, b)
  BY DEF ConnectTip
<1> HIDE DEF ix
<1>6. Marks(index, index')
  <2>1. Marks(ix, index')
    BY CandidateMarks
  <2> QED
    BY <2>1, MarksTransitive
<1>7. EnoughWork(index', b)
  <2>1. index'.cand = {x \in ix.cand : ~Worse(ix, x, b)} /\ ix.cand \in SUBSET Block
    BY PruneFields, IndexFields
  <2> QED
    BY <2>1, WorseOrder DEF EnoughWork
<1>8. chain' \in ChainOf(Known(index)) /\ chain'.tip = b
  <2> PICK f \in FindBlockToFinalize(chain, b) :
        chain' = [(IF f = Null THEN chain ELSE FinalizeBlockInternal(chain, f)) EXCEPT !.tip = b]
    BY DEF ConnectTip
  <2> DEFINE ch == IF f = Null THEN chain ELSE FinalizeBlockInternal(chain, f)
  <2>2. ch \in ChainOf(Known(index))
    <3>1. f # Null => f \in Known(index)
      <4>1. f # Null => f \in Ancestors[b]
        BY DEF FindBlockToFinalize
      <4>2. Ancestors[b] \subseteq Known(index)
        BY ShapeFacts, ChainInClosed
      <4> QED
        BY <4>1, <4>2
    <3> QED
      BY <3>1, ShapeFacts, FinalizeBlockInternalIn
  <2> HIDE DEF ch
  <2>3. chain' = [ch EXCEPT !.tip = b]
    BY DEF ch
  <2> QED
    BY <2>2, <2>3, SetTip, SMTT(30)
<1>9. InHand(abc', index.linked, b)
  <2> CASE ChainWork[b] > ChainWork[abc.old] \/ b = abc.mostWork
    <3>1. abc' = EndStep(abc, index, b, abc.mostWork)
      BY DEF ConnectTip
    <3> QED
      BY <3>1, EndStepInHand
  <2> CASE /\ ~(ChainWork[b] > ChainWork[abc.old] \/ b = abc.mostWork)
           /\ Height[b] - Height[abc.low] + 1 = BatchSize
    <3>1. abc' = [abc EXCEPT !.low = NextTowards(b, abc.mostWork)]
      BY DEF ConnectTip
    <3> NextTowards(b, abc.mostWork) \in Block \ {Genesis}
      BY NextTowardsExists
    <3> DEFINE n == NextTowards(b, abc.mostWork)
    <3> HIDE DEF n
    <3>3. /\ abc' \in Activating /\ abc'.low = n /\ abc'.mostWork = abc.mostWork
          /\ abc'.start = abc.start /\ abc'.old = abc.old /\ abc'.pc = abc.pc
      BY <3>1 DEF Activating, n
    <3>4. InHand(abc, index.linked, chain.tip)
      BY DEF Shape
    <3> QED
      BY <3>3, <3>4 DEF InHand, n
  <2> CASE /\ ~(ChainWork[b] > ChainWork[abc.old] \/ b = abc.mostWork)
           /\ Height[b] - Height[abc.low] + 1 # BatchSize
    <3>1. abc' = abc
      BY DEF ConnectTip
    <3> QED
      BY <3>1 DEF InHand, Shape
  <2> QED
    OBVIOUS
<1>10. wanted' \in BOOLEAN /\ InUnwind(unwind')
  BY DEF Shape, Types
<1> QED
  BY <1>6, <1>7, <1>8, <1>9, <1>10, ShapeNoCommand

LEMMA ShapeConnectInvalid ==
  ASSUME Counting, Shape, NEW b \in Block, ConnectTip_Invalid(b)
  PROVE  Shape'
<1> /\ ToConnect(b) /\ index' = InvalidBlockFound(index, b)
    /\ chain' = InvalidChainFound(InvalidChainFound(chain, b), abc.low)
    /\ abc' = EndStep(abc, index, chain.tip, Null)
    /\ UNCHANGED <<ids, wanted, unwind, disk, commands, restarts>>
  BY DEF ConnectTip_Invalid
<1> abc.start \in Block /\ b # Genesis /\ abc.low \in Block \ {Genesis}
  BY ToConnectFacts
<1> index \in BlockIndex /\ index.linked \in SUBSET Block /\ abc \in Activating /\ chain.tip \in Block
  BY ShapeFacts
<1>4. Marks(index, index')
  BY MarkFailedMarks
<1> chain' \in ChainOf(Known(index)) /\ chain'.tip = chain.tip
  <2> DEFINE ch == InvalidChainFound(chain, b)
  <2>1. ch \in ChainOf(Known(index)) /\ ch.tip = chain.tip
    BY ShapeFacts, InvalidChainFoundIn
  <2> HIDE DEF ch
  <2>2. chain' = InvalidChainFound(ch, abc.low)
    BY DEF ch
  <2>3. Known(index) \in SUBSET Block /\ ClosedUnderParent(Known(index))
    BY ShapeFacts
  <2> QED
    BY <2>1, <2>2, <2>3, InvalidChainFoundIn, SMTT(30)
<1>6. EnoughWork(index', chain'.tip)
  BY InvalidBlockFoundFields DEF EnoughWork, Shape
<1>7. InHand(abc', index.linked, chain'.tip)
  BY EndStepInHand
<1>8. wanted' \in BOOLEAN /\ InUnwind(unwind')
  BY DEF Shape, Types
<1> QED
  BY <1>4, <1>6, <1>7, <1>8, ShapeFacts, ShapeNoCommand

LEMMA ShapeCannotFinalize ==
  ASSUME Counting, Shape, NEW b \in Block, ConnectTip_CannotFinalize(b)
  PROVE  Shape'
<1>1. /\ ToConnect(b) /\ index' = ScriptsValid(index, b)
      /\ abc' = EndStep(abc, index, chain.tip, Null)
      /\ UNCHANGED <<chain, ids, wanted, unwind, disk, commands, restarts>>
  BY DEF ConnectTip_CannotFinalize
<1>2. abc.start \in Block /\ index.validity[b] >= TRANSACTIONS
  BY <1>1, ToConnectFacts
<1>3. index \in BlockIndex /\ index.linked \in SUBSET Block /\ abc \in Activating /\ chain.tip \in Block
  BY ShapeFacts
<1>4. Marks(index, index')
  BY <1>1, <1>2, <1>3, ScriptsValidMarks
<1>5. EnoughWork(index', chain'.tip)
  BY <1>1, <1>3, ScriptsValidFields, ZenonT(60) DEF EnoughWork, Shape
<1>6. InHand(abc', index.linked, chain'.tip)
  BY <1>1, <1>2, <1>3, EndStepInHand
<1>7. wanted' \in BOOLEAN /\ InUnwind(unwind')
  BY <1>1 DEF Shape, Types
<1> QED
  BY <1>1, <1>4, <1>5, <1>6, <1>7, ShapeFacts, ShapeNoCommand

LEMMA CommandFacts ==
  ASSUME Counting, Shape, NEW b \in Block, NEW c, Command(c, b)
  PROVE  /\ CsMainFree /\ c \in Commands /\ b \in Known(index) /\ b # Genesis
         /\ commands' \in 0..MaxCommands
<1>1. commands \in 0..MaxCommands /\ commands < MaxCommands /\ commands' = commands + 1
  BY DEF Shape, Types, Command
<1>2. commands' \in 0..MaxCommands
  BY <1>1, ChainStateAssumption, SMTT(30)
<1> QED
  BY <1>2 DEF Command

LEMMA ShapeUnwind ==
  ASSUME Counting, Shape, NEW b \in Block, NEW c, UnwindBlock(c, b)
  PROVE  Shape'
<1> /\ Command(c, b)
    /\ unwind' = [pc |-> "walk", target |-> b, mark |-> b,
                  own |-> IF c = "invalidate" THEN FAILED ELSE PARKED]
    /\ UNCHANGED <<index, chain, ids, abc, wanted, disk, restarts>>
  BY DEF UnwindBlock
<1> b # Genesis /\ commands' \in 0..MaxCommands
  BY CommandFacts
<1>3. InUnwind(unwind')
  BY DEF InUnwind
<1>4. Marks(index, index') /\ EnoughWork(index', chain'.tip) /\ wanted' \in BOOLEAN
  BY ShapeFacts, MarksReflexive DEF Shape, Types
<1>5. InHand(abc', index.linked, chain'.tip) /\ ids' \in [seq: Nat, reverse: Int, lastPrecious: Nat]
  BY DEF Shape, Types
<1> QED
  BY <1>3, <1>4, <1>5, ShapeFacts, ShapeMarks

LEMMA ShapeLeave ==
  ASSUME Counting, Shape, UnwindBlock_Leave
  PROVE  Shape'
<1> /\ unwind.pc = "walk" /\ unwind' = [unwind EXCEPT !.pc = "mark"]
    /\ UNCHANGED <<index, chain, ids, abc, wanted, disk, commands, restarts>>
  BY DEF UnwindBlock_Leave
<1>2. InUnwind(unwind)
  BY DEF Shape
<1>3. InUnwind(unwind')
  BY <1>2 DEF InUnwind
<1>4. Marks(index, index') /\ EnoughWork(index', chain'.tip) /\ wanted' \in BOOLEAN
  BY ShapeFacts, MarksReflexive DEF Shape, Types
<1>5. InHand(abc', index.linked, chain'.tip)
  BY DEF Shape
<1> QED
  BY <1>3, <1>4, <1>5, ShapeFacts, ShapeNoCommand

\* UnwindBlock marks the tip it disconnects and corrects the mark above.
Unwound(t, m, own) ==
  LET corrected == t = Parent[m] /\ own \in index.flags[m]
  IN  /\ index' \in BlockIndex
      /\ index'.validity = index.validity /\ index'.seq = index.seq
      /\ index'.linked = index.linked /\ index'.unlinked = index.unlinked
      /\ index'.failed = index.failed
      /\ index'.cand = index.cand \cup {Parent[t]}
      /\ index'.dirty = index.dirty \cup {t} \cup (IF corrected THEN {m} ELSE {})
      /\ \A x \in Block : index'.flags[x] = IF x = t THEN index.flags[x] \cup {own}
                                            ELSE IF x = m /\ corrected
                                            THEN (index.flags[x] \ {own}) \cup {OfParent(own)}
                                            ELSE index.flags[x]

LEMMA UnwindFacts ==
  ASSUME Counting, Shape, unwind.pc # "idle"
  PROVE  /\ unwind.mark \in Block /\ unwind.mark # Genesis /\ unwind.own \in {FAILED, PARKED}
         /\ unwind.target \in Block /\ unwind.target # Genesis
         /\ unwind.own \in Flag /\ OfParent(unwind.own) \in Flag
         /\ unwind.own \in INVALID_MASK \cup PARKED_MASK
         /\ OfParent(unwind.own) \in INVALID_MASK \cup PARKED_MASK
<1> InUnwind(unwind)
  BY DEF Shape
<1> unwind.own \in {FAILED, PARKED}
  BY DEF InUnwind
<1>3. /\ unwind.own \in INVALID_MASK \cup PARKED_MASK
      /\ OfParent(unwind.own) \in INVALID_MASK \cup PARKED_MASK
  BY FlagsDiffer DEF OfParent
<1>4. \A f \in INVALID_MASK \cup PARKED_MASK : f \in Flag
  BY DEF Flag
<1> QED
  BY <1>3, <1>4 DEF InUnwind

LEMMA UnwoundEffect ==
  ASSUME Counting, Shape, UnwindBlock_Disconnect
  PROVE  Unwound(chain.tip, unwind.mark, unwind.own) /\ chain.tip # Genesis
<1> DEFINE t == chain.tip
           m == unwind.mark
           own == unwind.own
           up == OfParent(own)
           corrected == t = Parent[m] /\ own \in index.flags[m]
           marked == [index EXCEPT !.flags[t] = @ \cup {own}, !.dirty = @ \cup {t},
                                   !.cand = @ \cup {Parent[t]}]
           f1 == [index.flags EXCEPT ![t] = @ \cup {own}]
           f2 == [f1 EXCEPT ![m] = (@ \ {own}) \cup {up}]
<1>1. /\ unwind.pc = "walk" /\ unwind.target \in Ancestors[t]
      /\ index' = IF corrected
                  THEN [marked EXCEPT !.flags[m] = (@ \ {own}) \cup {OfParent(own)}, !.dirty = @ \cup {m}]
                  ELSE marked
  BY DEF UnwindBlock_Disconnect
<1>2. /\ m \in Block /\ m # Genesis /\ own \in Flag /\ up \in Flag
      /\ unwind.target # Genesis
  BY <1>1, UnwindFacts
<1>3. /\ index \in BlockIndex /\ t \in Block /\ index.flags \in [Block -> SUBSET Flag]
      /\ index.linked \in SUBSET Block
  BY ShapeFacts
<1>4. t # Genesis
  BY <1>1, <1>2, GenesisAncestors
<1>5. Parent[t] \in Block
  BY <1>3, <1>4, BlockTreeAssumption
<1>6. t = Parent[m] => m # t
  <2>1. Height[m] = Height[Parent[m]] + 1 /\ Height[m] \in Nat /\ Height[t] \in Nat
    BY <1>2, <1>3, BlockTreeAssumption
  <2> QED
    BY <2>1, SMTT(30)
<1> HIDE DEF m, own, up, t
<1>7. f1 \in [Block -> SUBSET Flag] /\ f2 \in [Block -> SUBSET Flag]
  <2>1. f1 \in [Block -> SUBSET Flag]
    BY <1>2, <1>3
  <2> HIDE DEF f1
  <2> QED
    BY <1>2, <2>1
<1> \A x \in Block : f1[x] = IF x = t THEN index.flags[x] \cup {own} ELSE index.flags[x]
  BY <1>3, AddFlag
<1>9. marked = [index EXCEPT !.flags = f1, !.dirty = @ \cup {t}, !.cand = @ \cup {Parent[t]}]
  BY <1>3 DEF BlockIndex
<1>10. \A x \in Block : f2[x] = IF x = m THEN (f1[x] \ {own}) \cup {up} ELSE f1[x]
  <2> HIDE DEF f1
  <2> QED
    BY <1>2, <1>7
<1> HIDE DEF f1, marked
<1>11. /\ marked \in BlockIndex /\ marked.flags = f1 /\ marked.validity = index.validity
       /\ marked.seq = index.seq /\ marked.linked = index.linked /\ marked.unlinked = index.unlinked
       /\ marked.failed = index.failed /\ marked.cand = index.cand \cup {Parent[t]}
       /\ marked.dirty = index.dirty \cup {t}
  BY <1>3, <1>5, <1>7, <1>9 DEF BlockIndex, Flag
<1> CASE corrected
  <2>1. index' = [marked EXCEPT !.flags = f2, !.dirty = @ \cup {m}]
    <3>1. index' = [marked EXCEPT !.flags[m] = (@ \ {own}) \cup {up}, !.dirty = @ \cup {m}]
      BY <1>1 DEF up
    <3>2. f2 = [marked.flags EXCEPT ![m] = (@ \ {own}) \cup {up}]
      BY <1>11
    <3> HIDE DEF f2
    <3> QED
      BY <1>11, <3>1, <3>2 DEF BlockIndex
  <2> HIDE DEF f2
  <2> /\ index' \in BlockIndex /\ index'.flags = f2 /\ index'.validity = marked.validity
      /\ index'.seq = marked.seq /\ index'.linked = marked.linked /\ index'.unlinked = marked.unlinked
      /\ index'.failed = marked.failed /\ index'.cand = marked.cand
      /\ index'.dirty = marked.dirty \cup {m}
    BY <1>2, <1>7, <1>11, <2>1 DEF BlockIndex, Flag
  <2>3. \A x \in Block : index'.flags[x] = IF x = t THEN index.flags[x] \cup {own}
                                           ELSE IF x = m /\ corrected
                                           THEN (index.flags[x] \ {own}) \cup {up}
                                           ELSE index.flags[x]
    BY <1>6, <1>10
  <2>4. index'.dirty = index.dirty \cup {t} \cup (IF corrected THEN {m} ELSE {})
    BY <1>11
  <2> QED
    BY <1>4, <1>11, <2>3, <2>4 DEF Unwound, m, own, up, t
<1> CASE ~corrected
  <2> index' = marked
    BY <1>1
  <2>2. \A x \in Block : index'.flags[x] = IF x = t THEN index.flags[x] \cup {own}
                                           ELSE IF x = m /\ corrected
                                           THEN (index.flags[x] \ {own}) \cup {up}
                                           ELSE index.flags[x]
    BY <1>11
  <2>3. index'.dirty = index.dirty \cup {t} \cup (IF corrected THEN {m} ELSE {})
    BY <1>11
  <2> QED
    BY <1>4, <1>11, <2>2, <2>3 DEF Unwound, m, own, up, t
<1> QED
  OBVIOUS

LEMMA ShapeUnwound ==
  ASSUME Counting, Shape, UnwindBlock_Disconnect
  PROVE  Shape' /\ Marks(index, index')
<1>1. /\ unwind.pc = "walk" /\ chain' = Disconnected(chain)
      /\ unwind' = [unwind EXCEPT !.mark = chain.tip]
      /\ UNCHANGED <<ids, abc, wanted, disk, commands, restarts>>
  BY DEF UnwindBlock_Disconnect
<1> DEFINE m == unwind.mark
           own == unwind.own
           t == chain.tip
<1> Unwound(t, m, own) /\ chain.tip # Genesis
  BY UnwoundEffect
<1> /\ chain' \in ChainOf(Known(index)) /\ chain'.tip \in index.linked /\ chain'.tip = Parent[t]
    /\ InHand(abc, index.linked, chain'.tip) /\ EnoughWork(index, chain'.tip)
  BY <1>1, DisconnectShape
<1> /\ m # Genesis /\ own \in INVALID_MASK \cup PARKED_MASK
    /\ OfParent(own) \in INVALID_MASK \cup PARKED_MASK
  BY <1>1, UnwindFacts
<1> index \in BlockIndex /\ chain.tip \in Block
  BY ShapeFacts
<1>6. InUnwind(unwind')
  BY <1>1 DEF InUnwind, Shape
<1> HIDE DEF m, own, t
<1>7. DATA # own /\ DATA # OfParent(own)
  BY FlagsDiffer
<1>8. \A x \in Block : DATA \in index'.flags[x] <=> DATA \in index.flags[x]
  BY <1>7, ZenonT(60) DEF Unwound
<1>9. index'.flags[Genesis] \cap INVALID_MASK \subseteq index.flags[Genesis]
  <2>1. index'.flags[Genesis] = index.flags[Genesis]
    BY BlockTreeAssumption DEF Unwound, t
  <2> QED
    BY <2>1
<1>10. index'.cand \subseteq index.cand \cup index.linked /\ index.dirty \subseteq index'.dirty
  BY DEF Unwound
<1>11. Marks(index, index')
  BY <1>8, <1>9, <1>10, MarksFrom DEF Unwound
<1>12. EnoughWork(index', chain'.tip)
  <2>1. ChainWork[chain'.tip] <= ChainWork[chain'.tip]
    <3>1. ChainWork[chain'.tip] \in Nat
      BY ShapeFacts, ChainStateAssumption
    <3> QED
      BY <3>1, SMTT(30)
  <2> QED
    BY <2>1, ZenonT(60) DEF EnoughWork, Unwound
<1>13. wanted' \in BOOLEAN /\ InHand(abc', index.linked, chain'.tip)
  BY <1>1 DEF Shape, Types
<1> QED
  BY <1>1, <1>6, <1>11, <1>12, <1>13, ShapeNoCommand

\* UnwindBlock ends by marking the block.
Marked(m, own) ==
  /\ index' \in BlockIndex
  /\ index'.validity = index.validity /\ index'.seq = index.seq
  /\ index'.linked = index.linked /\ index'.unlinked = index.unlinked
  /\ index'.failed = (IF own = FAILED THEN index.failed \cup {m} ELSE index.failed)
  /\ index'.dirty = index.dirty \cup {m}
  /\ index.cand \subseteq index'.cand
  /\ \A x \in index'.cand \ index.cand : x \in index.linked /\ ~Worse(index, x, chain.tip)
  /\ \A x \in Block : index'.flags[x] = IF x = m THEN index.flags[x] \cup {own} ELSE index.flags[x]

LEMMA MarkedEffect ==
  ASSUME Counting, Shape, UnwindBlock_Mark, unwind.mark \notin Ancestors[chain.tip]
  PROVE  Marked(unwind.mark, unwind.own)
<1> DEFINE m == unwind.mark
           own == unwind.own
           fl == [index.flags EXCEPT ![m] = @ \cup {own}]
           fa == IF own = FAILED THEN index.failed \cup {m} ELSE index.failed
           marked == [index EXCEPT !.flags[m] = @ \cup {own}, !.dirty = @ \cup {m},
                                   !.failed = IF own = FAILED THEN @ \cup {m} ELSE @]
<1>1. unwind.pc = "mark" /\ index' = AddCandidates(marked, chain.tip)
  BY DEF UnwindBlock_Mark
<1>2. m \in Block /\ own \in Flag
  BY <1>1, UnwindFacts
<1>3. index \in BlockIndex /\ chain.tip \in Block /\ index.flags \in [Block -> SUBSET Flag]
  BY ShapeFacts
<1> HIDE DEF m, own
<1>4. fl \in [Block -> SUBSET Flag]
  BY <1>2, <1>3
<1>5. \A x \in Block : fl[x] = IF x = m THEN index.flags[x] \cup {own} ELSE index.flags[x]
  BY <1>2, <1>3, AddFlag
<1>6. fa \in SUBSET Block
  BY <1>2, <1>3, IndexFields
<1>7. marked = [index EXCEPT !.flags = fl, !.dirty = @ \cup {m}, !.failed = fa]
  BY <1>3 DEF BlockIndex
<1> HIDE DEF fl, marked
<1>8. /\ marked \in BlockIndex /\ marked.flags = fl /\ marked.validity = index.validity
      /\ marked.seq = index.seq /\ marked.linked = index.linked /\ marked.unlinked = index.unlinked
      /\ marked.failed = fa /\ marked.cand = index.cand /\ marked.dirty = index.dirty \cup {m}
  <2> HIDE DEF fa
  <2> QED
    BY <1>2, <1>3, <1>4, <1>6, <1>7 DEF BlockIndex, Flag
<1>9. /\ index' \in BlockIndex
      /\ index'.validity = marked.validity /\ index'.flags = marked.flags /\ index'.seq = marked.seq
      /\ index'.linked = marked.linked /\ index'.unlinked = marked.unlinked
      /\ index'.failed = marked.failed /\ index'.dirty = marked.dirty
      /\ index'.cand = marked.cand \cup {b \in marked.linked : /\ IsValid(marked, b, TRANSACTIONS)
                                                               /\ ~Worse(marked, b, chain.tip)}
  BY <1>1, <1>3, <1>8, AddCandidatesFields
<1>10. \A x : Worse(marked, x, chain.tip) <=> Worse(index, x, chain.tip)
  BY <1>8 DEF Worse
<1>11. /\ index.cand \subseteq index'.cand
       /\ \A x \in index'.cand \ index.cand : x \in index.linked /\ ~Worse(index, x, chain.tip)
  BY <1>8, <1>9, <1>10
<1>12. /\ index'.validity = index.validity /\ index'.seq = index.seq
       /\ index'.linked = index.linked /\ index'.unlinked = index.unlinked
       /\ index'.failed = fa /\ index'.dirty = index.dirty \cup {m} /\ index'.flags = fl
  <2> HIDE DEF fa
  <2> QED
    BY <1>8, <1>9
<1>13. index' \in BlockIndex
  BY <1>9
<1> QED
  BY <1>5, <1>11, <1>12, <1>13 DEF Marked, m, own

LEMMA ShapeMark ==
  ASSUME Counting, Shape, UnwindBlock_Mark
  PROVE  Shape' /\ Marks(index, index')
<1> /\ unwind.pc = "mark" /\ unwind' = NotUnwinding /\ wanted' = TRUE
    /\ UNCHANGED <<ids, abc, disk, commands, restarts>>
  BY DEF UnwindBlock_Mark
<1> InUnwind(unwind')
  BY DEF InUnwind, NotUnwinding
<1> /\ index \in BlockIndex /\ chain.tip \in Block /\ chain \in ChainOf(Known(index))
    /\ InHand(abc, index.linked, chain.tip) /\ chain.tip \in index.linked
    /\ EnoughWork(index, chain.tip) /\ index.linked \in SUBSET Block
  BY ShapeFacts DEF Shape
<1> DEFINE m == unwind.mark
           own == unwind.own
<1> CASE m \in Ancestors[chain.tip]
  <2> UNCHANGED <<index, chain>>
    BY DEF UnwindBlock_Mark
  <2>2. Marks(index, index') /\ EnoughWork(index', chain'.tip) /\ InHand(abc', index.linked, chain'.tip)
    BY MarksReflexive
  <2> QED
    BY <2>2, ShapeNoCommand
<1> CASE m \notin Ancestors[chain.tip]
  <2> Marked(m, own) /\ chain' = IF own = FAILED THEN InvalidChainFound(chain, m) ELSE chain
    BY MarkedEffect DEF UnwindBlock_Mark
  <2> m \in Block /\ m # Genesis /\ own \in INVALID_MASK \cup PARKED_MASK
    BY UnwindFacts
  <2> HIDE DEF m, own
  <2> chain' \in ChainOf(Known(index)) /\ chain'.tip = chain.tip
    BY ShapeFacts, InvalidChainFoundIn
  <2>4. \A x \in Block : DATA \in index'.flags[x] <=> DATA \in index.flags[x]
    <3>1. DATA # own
      BY FlagsDiffer
    <3> QED
      BY <3>1 DEF Marked
  <2>5. index'.flags[Genesis] \cap INVALID_MASK \subseteq index.flags[Genesis]
    <3>1. index'.flags[Genesis] = index.flags[Genesis]
      BY BlockTreeAssumption DEF Marked
    <3> QED
      BY <3>1
  <2>6. index'.cand \subseteq index.cand \cup index.linked /\ index.dirty \subseteq index'.dirty
    BY DEF Marked
  <2>7. Marks(index, index')
    BY <2>4, <2>5, <2>6, MarksFrom DEF Marked
  <2>8. EnoughWork(index', chain'.tip)
    <3>1. \A x \in index'.cand \ index.cand : x \in Block /\ ~Worse(index, x, chain.tip)
      BY DEF Marked
    <3>2. \A x \in index'.cand \ index.cand : ChainWork[chain.tip] <= ChainWork[x]
      BY <3>1, WorseOrder
    <3> QED
      BY <3>2 DEF EnoughWork
  <2>9. InHand(abc', index.linked, chain'.tip)
    OBVIOUS
  <2> QED
    BY <2>7, <2>8, <2>9, ShapeNoCommand
<1> QED
  OBVIOUS

LEMMA UpdatedEnoughWork ==
  ASSUME Counting, NEW ix \in BlockIndex, NEW t \in Block, EnoughWork(ix, t), NEW iy, NEW b,
         NEW own, NEW child, NEW below, Updated(ix, iy, t, b, own, child, below)
  PROVE  EnoughWork(iy, t)
<1>1. \A x \in iy.cand : x \in ix.cand \/ (x \in Block /\ Worse(ix, t, x))
  BY DEF Updated
<1>2. \A x \in Block : Worse(ix, t, x) => ChainWork[t] <= ChainWork[x]
  BY WorseOrder
<1> QED
  BY <1>1, <1>2 DEF EnoughWork

LEMMA ShapeReconsider ==
  ASSUME Counting, Shape, NEW b \in Block, ReconsiderBlock(b)
  PROVE  Shape'
<1> /\ Command("reconsider", b) /\ index' = ResetBlockFailureFlags(index, chain.tip, b)
    /\ chain' = [chain EXCEPT !.finalized = IF @ = Null THEN Null ELSE LastCommonAncestor(b, @)]
    /\ wanted' = TRUE /\ UNCHANGED <<ids, abc, unwind, disk, restarts>>
  BY DEF ReconsiderBlock
<1>2. commands' \in 0..MaxCommands
  BY CommandFacts
<1> index \in BlockIndex /\ chain.tip \in Block /\ chain \in ChainOf(Known(index))
  BY ShapeFacts
<1>4. Marks(index, index')
  BY UpdateFlagsMarks, MasksAreFlags DEF ResetBlockFailureFlags
<1>5. Updated(index, index', chain.tip, b, INVALID_MASK, INVALID_MASK, {FAILED_PARENT})
  BY UpdateFlagsFields DEF ResetBlockFailureFlags
<1>6. EnoughWork(index', chain.tip)
  BY <1>5, UpdatedEnoughWork DEF Shape
<1> chain' \in ChainOf(Known(index)) /\ chain'.tip = chain.tip
  <2>1. chain.finalized # Null => LastCommonAncestor(b, chain.finalized) \in Known(index)
    <3>1. SUFFICES ASSUME chain.finalized # Null
                   PROVE  LastCommonAncestor(b, chain.finalized) \in Known(index)
      OBVIOUS
    <3> chain.finalized \in Block /\ chain.finalized \in Known(index)
      BY <3>1 DEF ChainOf, Known
    <3>3. LastCommonAncestor(b, chain.finalized) \in Ancestors[chain.finalized]
      BY LastCommonAncestorShared
    <3> QED
      BY <3>3, ShapeFacts, ChainInClosed
  <2> QED
    BY <2>1 DEF ChainOf
<1>8. ids' \in [seq: Nat, reverse: Int, lastPrecious: Nat] /\ InUnwind(unwind')
      /\ InHand(abc', index.linked, chain'.tip) /\ EnoughWork(index', chain'.tip) /\ chain'.tip \in index.linked
  BY <1>6 DEF Shape, Types
<1> QED
  BY <1>2, <1>4, <1>8, ShapeMarks

LEMMA ShapeUnpark ==
  ASSUME Counting, Shape, NEW b \in Block, Unpark(b)
  PROVE  /\ Shape' /\ Marks(index, index')
         /\ Updated(index, index', chain.tip, b, PARKED_MASK, PARKED_MASK, {PARKED_PARENT})
<1> /\ Command("unpark", b) /\ index' = UnparkBlockAndChildren(index, chain.tip, b)
    /\ wanted' = TRUE /\ UNCHANGED <<chain, ids, abc, unwind, disk, restarts>>
  BY DEF Unpark
<1>2. commands' \in 0..MaxCommands
  BY CommandFacts
<1> index \in BlockIndex /\ chain.tip \in Block /\ chain \in ChainOf(Known(index))
  BY ShapeFacts
<1>4. Marks(index, index')
  BY UpdateFlagsMarks, MasksAreFlags DEF UnparkBlockAndChildren
<1> Updated(index, index', chain.tip, b, PARKED_MASK, PARKED_MASK, {PARKED_PARENT})
  BY UpdateFlagsFields DEF UnparkBlockAndChildren
<1>6. EnoughWork(index', chain.tip)
  BY UpdatedEnoughWork DEF Shape
<1>7. ids' \in [seq: Nat, reverse: Int, lastPrecious: Nat] /\ InUnwind(unwind')
      /\ InHand(abc', index.linked, chain'.tip) /\ EnoughWork(index', chain'.tip) /\ chain'.tip \in index.linked
      /\ chain' \in ChainOf(Known(index)) /\ wanted' \in BOOLEAN /\ disk' = disk /\ restarts' = restarts
  BY <1>6 DEF Shape, Types
<1> QED
  BY <1>2, <1>4, <1>7, ShapeMarks

\* preciousblock changes the order of the candidates and unparks the block.
LEMMA PreciousEffect ==
  ASSUME Counting, Shape, NEW b \in Block, PreciousBlock(b)
  PROVE  \E i1, i2 \in BlockIndex :
           /\ i1.validity = index.validity /\ i1.flags = index.flags
           /\ i1.linked = index.linked /\ i1.unlinked = index.unlinked
           /\ i1.failed = index.failed /\ i1.dirty = index.dirty /\ i1.cand \subseteq index.cand
           /\ \A x \in Block : i1.seq[x] = index.seq[x] \/ i1.seq[x] \in {-1, ids.reverse}
           /\ Updated(i1, i2, chain.tip, b, PARKED_MASK, {PARKED_PARENT}, {PARKED_PARENT})
           /\ index' \in BlockIndex
           /\ index'.validity = i2.validity /\ index'.flags = i2.flags /\ index'.seq = i2.seq
           /\ index'.linked = i2.linked /\ index'.unlinked = i2.unlinked
           /\ index'.failed = i2.failed /\ index'.dirty = i2.dirty
           /\ index'.cand \subseteq i2.cand \cup i2.linked
           /\ EnoughWork(index', chain.tip)
<1> DEFINE id == IF ChainWork[chain.tip] > ids.lastPrecious THEN -1 ELSE ids.reverse
           se == [index.seq EXCEPT ![b] = id]
           i1 == [index EXCEPT !.cand = @ \ {b}, !.seq[b] = id]
           i2 == UnparkBlock(i1, chain.tip, b)
           i3 == [i2 EXCEPT !.cand = @ \cup {b}]
<1>1. /\ ChainWork[b] >= ChainWork[chain.tip]
      /\ index' = IF IsValid(i2, b, TRANSACTIONS) /\ b \in i2.linked
                  THEN PruneBlockIndexCandidates(i3, chain.tip)
                  ELSE i2
  BY DEF PreciousBlock
<1> /\ index \in BlockIndex /\ chain.tip \in Block /\ index.cand \in SUBSET Block
    /\ EnoughWork(index, chain.tip)
  BY ShapeFacts DEF Shape
<1>3. id \in {-1, ids.reverse} /\ ids.reverse \in Int
  BY DEF Shape, Types
<1> HIDE DEF id
<1> se \in [Block -> Int] /\ \A x \in Block : se[x] = index.seq[x] \/ se[x] \in {-1, ids.reverse}
  <2>1. index.seq \in [Block -> Int]
    BY IndexFields
  <2> QED
    BY <1>3, <2>1, SMTT(30)
<1>5. i1 = [index EXCEPT !.cand = @ \ {b}, !.seq = se]
  BY DEF BlockIndex
<1> HIDE DEF i1, se
<1> /\ i1 \in BlockIndex /\ i1.validity = index.validity /\ i1.flags = index.flags
    /\ i1.linked = index.linked /\ i1.unlinked = index.unlinked
    /\ i1.failed = index.failed /\ i1.dirty = index.dirty /\ i1.cand = index.cand \ {b} /\ i1.seq = se
  BY <1>5 DEF BlockIndex
<1>7. EnoughWork(i1, chain.tip)
  BY DEF EnoughWork
<1> Updated(i1, i2, chain.tip, b, PARKED_MASK, {PARKED_PARENT}, {PARKED_PARENT})
  BY UpdateFlagsFields DEF UnparkBlock
<1> HIDE DEF i2
<1> i2 \in BlockIndex /\ EnoughWork(i2, chain.tip)
  <2>1. i2 \in BlockIndex
    BY DEF Updated
  <2>2. EnoughWork(i2, chain.tip)
    BY <1>7, UpdatedEnoughWork
  <2> QED
    BY <2>1, <2>2
<1>10. /\ i1.cand \subseteq index.cand
       /\ \A x \in Block : i1.seq[x] = index.seq[x] \/ i1.seq[x] \in {-1, ids.reverse}
  OBVIOUS
<1>11. /\ index' \in BlockIndex
       /\ index'.validity = i2.validity /\ index'.flags = i2.flags /\ index'.seq = i2.seq
       /\ index'.linked = i2.linked /\ index'.unlinked = i2.unlinked
       /\ index'.failed = i2.failed /\ index'.dirty = i2.dirty
       /\ index'.cand \subseteq i2.cand \cup i2.linked
       /\ EnoughWork(index', chain.tip)
  <2> CASE ~(IsValid(i2, b, TRANSACTIONS) /\ b \in i2.linked)
    <3>1. index' = i2
      BY <1>1
    <3>2. i2.cand \subseteq i2.cand \cup i2.linked
      OBVIOUS
    <3> QED
      BY <3>1, <3>2
  <2> CASE IsValid(i2, b, TRANSACTIONS) /\ b \in i2.linked
    <3> index' = PruneBlockIndexCandidates(i3, chain.tip)
      BY <1>1
    <3> /\ i3 \in BlockIndex /\ i3.validity = i2.validity /\ i3.flags = i2.flags /\ i3.seq = i2.seq
        /\ i3.linked = i2.linked /\ i3.unlinked = i2.unlinked
        /\ i3.failed = i2.failed /\ i3.dirty = i2.dirty /\ i3.cand = i2.cand \cup {b}
      BY DEF BlockIndex
    <3> HIDE DEF i3
    <3>3. /\ index' \in BlockIndex
          /\ index'.validity = i3.validity /\ index'.flags = i3.flags /\ index'.seq = i3.seq
          /\ index'.linked = i3.linked /\ index'.unlinked = i3.unlinked
          /\ index'.failed = i3.failed /\ index'.dirty = i3.dirty
      BY PruneFields
    <3> index'.cand = {x \in i3.cand : ~Worse(i3, x, chain.tip)}
      BY PruneFields
    <3>5. index'.cand \subseteq i2.cand \cup i2.linked
      OBVIOUS
    <3>6. EnoughWork(index', chain.tip)
      <4>1. i3.cand \in SUBSET Block
        BY IndexFields
      <4> QED
        BY <4>1, WorseOrder DEF EnoughWork
    <3> QED
      BY <3>3, <3>5, <3>6
  <2> QED
    OBVIOUS
<1> QED
  BY <1>10, <1>11

LEMMA ShapePrecious ==
  ASSUME Counting, Shape, NEW b \in Block, PreciousBlock(b)
  PROVE  Shape' /\ Marks(index, index')
<1> /\ Command("precious", b) /\ wanted' = TRUE
    /\ ids' = [ids EXCEPT !.reverse = (IF ChainWork[chain.tip] > ids.lastPrecious THEN -1 ELSE ids.reverse) - 1,
                          !.lastPrecious = ChainWork[chain.tip]]
    /\ UNCHANGED <<chain, abc, unwind, disk, restarts>>
  BY DEF PreciousBlock
<1>2. commands' \in 0..MaxCommands
  BY CommandFacts
<1> index \in BlockIndex /\ chain.tip \in Block /\ chain \in ChainOf(Known(index))
  BY ShapeFacts
<1> PICK i1 \in BlockIndex, i2 \in BlockIndex :
         /\ i1.validity = index.validity /\ i1.flags = index.flags
         /\ i1.linked = index.linked /\ i1.unlinked = index.unlinked
         /\ i1.dirty = index.dirty /\ i1.cand \subseteq index.cand
         /\ Updated(i1, i2, chain.tip, b, PARKED_MASK, {PARKED_PARENT}, {PARKED_PARENT})
         /\ index' \in BlockIndex
         /\ index'.validity = i2.validity /\ index'.flags = i2.flags
         /\ index'.linked = i2.linked /\ index'.unlinked = i2.unlinked
         /\ index'.dirty = i2.dirty
         /\ index'.cand \subseteq i2.cand \cup i2.linked
         /\ EnoughWork(index', chain.tip)
  BY PreciousEffect, ZenonT(60)
<1>5. Marks(index, index')
  <2>1. Marks(index, i1)
    <3>1. i1.cand \subseteq index.cand \cup index.linked
      OBVIOUS
    <3> QED
      BY <3>1, CandidatesOnly
  <2>2. Marks(i1, i2)
    <3> PICK deepest \in Ancestors[b] :
          Cleared(i1, i2, b, deepest, PARKED_MASK, {PARKED_PARENT}, {PARKED_PARENT})
      BY DEF Updated
    <3>2. \A x \in Block : i2.flags[x] \subseteq i1.flags[x]
      BY DEF Cleared
    <3>3. i2.flags[Genesis] \cap INVALID_MASK \subseteq i1.flags[Genesis]
      BY <3>2, BlockTreeAssumption
    <3>4. \A x \in Block : DATA \in i2.flags[x] <=> DATA \in i1.flags[x]
      BY FlagsDiffer, ZenonT(60) DEF Cleared
    <3>5. i2.cand \subseteq i1.cand \cup i1.linked /\ i1.dirty \subseteq i2.dirty
      BY DEF Updated
    <3> QED
      BY <3>3, <3>4, <3>5, MarksFrom DEF Updated
  <2>3. Marks(i2, index')
    BY CandidatesOnly
  <2> QED
    BY <2>1, <2>2, <2>3, MarksTransitive
<1>6. ids' \in [seq: Nat, reverse: Int, lastPrecious: Nat]
  <2> ids \in [seq: Nat, reverse: Int, lastPrecious: Nat]
    BY DEF Shape, Types
  <2> ChainWork[chain.tip] \in Nat
    BY ChainStateAssumption
  <2> DEFINE r == (IF ChainWork[chain.tip] > ids.lastPrecious THEN -1 ELSE ids.reverse) - 1
  <2>3. r \in Int
    BY SMTT(30)
  <2>4. ids' = [ids EXCEPT !.reverse = r, !.lastPrecious = ChainWork[chain.tip]]
    OBVIOUS
  <2> HIDE DEF r
  <2> QED
    BY <2>3, <2>4
<1>7. InUnwind(unwind')
      /\ InHand(abc', index.linked, chain'.tip) /\ EnoughWork(index', chain'.tip) /\ chain'.tip \in index.linked
      /\ chain' \in ChainOf(Known(index)) /\ wanted' \in BOOLEAN /\ disk' = disk /\ restarts' = restarts
  BY DEF Shape, Types
<1> QED
  BY <1>2, <1>5, <1>6, <1>7, ShapeMarks

\* finalizeblock unwinds and marks the active chain above the block "fork" it
\* shares with the finalized block; "low" is the lowest block that is undone.
Undone(ix, fork, low) ==
  LET undone == Ancestors[chain.tip] \ Ancestors[fork]
  IN  /\ fork \in Ancestors[chain.tip] /\ fork # chain.tip
      /\ low \in Ancestors[chain.tip] /\ low \in Block \ {Genesis} /\ Parent[low] = fork
      /\ index' \in BlockIndex
      /\ index'.validity = ix.validity /\ index'.seq = ix.seq
      /\ index'.linked = ix.linked /\ index'.unlinked = ix.unlinked
      /\ index'.failed = ix.failed \cup {low} /\ index'.dirty = ix.dirty \cup undone
      /\ \A x \in index'.cand \ ix.cand : x \in ix.linked /\ ChainWork[fork] <= ChainWork[x]
      /\ \A x \in Block : index'.flags[x] = IF x \notin undone THEN ix.flags[x]
                                            ELSE IF x = low THEN ix.flags[x] \cup {FAILED}
                                            ELSE (ix.flags[x] \ {FAILED}) \cup {FAILED_PARENT}

\* The parents of the blocks above "fork" are on the chain of t, at or above it.
LEMMA UndoneParents ==
  ASSUME Counting, NEW t \in Block, NEW fork \in Ancestors[t], NEW x \in Ancestors[t] \ Ancestors[fork]
  PROVE  x \in Block \ {Genesis} /\ Parent[x] \in Ancestors[t] /\ fork \in Ancestors[Parent[x]]
<1> x \in Block /\ fork \in Block
  BY AncestorsInBlock
<1> x # Genesis
  BY GenesisInAncestors
<1>3. fork \in Ancestors[x] /\ fork # x
  BY AncestorsLinear, SelfAncestor
<1>4. Parent[x] \in Ancestors[t]
  BY AncestorsClosed DEF ClosedUnderParent
<1>5. fork \in Ancestors[Parent[x]]
  BY <1>3, AncestorsOfParent
<1> QED
  BY <1>4, <1>5

LEMMA FinalizeEffect ==
  ASSUME Counting, Shape, NEW b \in Block, FinalizeBlock(b)
  PROVE  \E ix \in BlockIndex :
           /\ ix = index \/ Updated(index, ix, chain.tip, b, PARKED_MASK, {PARKED_PARENT}, {PARKED_PARENT})
           /\ Marks(index, ix) /\ EnoughWork(ix, chain.tip)
           /\ \/ index' = ix /\ chain' = FinalizeBlockInternal(chain, b)
              \/ \E fork, low \in Block :
                   /\ Undone(ix, fork, low)
                   /\ chain' = InvalidChainFound([FinalizeBlockInternal(chain, b) EXCEPT !.tip = fork], low)
<1> DEFINE final == FinalizeBlockInternal(chain, b)
           ix == IF IsOnParkedChain(index, b) THEN UnparkBlock(index, chain.tip, b) ELSE index
           fork == LastCommonAncestor(b, chain.tip)
           low == NextTowards(fork, chain.tip)
           undone == Ancestors[chain.tip] \ Ancestors[fork]
           fl == [x \in Block |-> IF x \notin undone THEN ix.flags[x]
                                  ELSE IF x = low THEN ix.flags[x] \cup {FAILED}
                                  ELSE (ix.flags[x] \ {FAILED}) \cup {FAILED_PARENT}]
           parents == {Parent[x] : x \in undone}
           marked == [ix EXCEPT !.flags = [x \in Block |->
                                  IF x \notin undone THEN @[x]
                                  ELSE IF x = low THEN @[x] \cup {FAILED}
                                  ELSE (@[x] \ {FAILED}) \cup {FAILED_PARENT}],
                                !.dirty = @ \cup undone,
                                !.cand = @ \cup {Parent[x] : x \in undone},
                                !.failed = @ \cup {low}]
<1>1. IF undone = {} \/ b \in Ancestors[chain.tip]
      THEN index' = ix /\ chain' = final
      ELSE /\ index' = AddCandidates(marked, fork)
           /\ chain' = InvalidChainFound([final EXCEPT !.tip = fork], low)
  BY DEF FinalizeBlock
<1>2. /\ index \in BlockIndex /\ chain.tip \in Block /\ EnoughWork(index, chain.tip)
      /\ chain.tip \in index.linked
  BY ShapeFacts DEF Shape
<1>3. /\ ix = index \/ Updated(index, ix, chain.tip, b, PARKED_MASK, {PARKED_PARENT}, {PARKED_PARENT})
      /\ Marks(index, ix)
  <2> CASE IsOnParkedChain(index, b)
    <3>1. ix = UnparkBlock(index, chain.tip, b)
      OBVIOUS
    <3>2. Updated(index, UnparkBlock(index, chain.tip, b), chain.tip, b,
                  PARKED_MASK, {PARKED_PARENT}, {PARKED_PARENT})
      BY <1>2, UpdateFlagsFields DEF UnparkBlock
    <3>3. Marks(index, UnparkBlock(index, chain.tip, b))
      BY <1>2, UpdateFlagsMarks, MasksAreFlags DEF UnparkBlock
    <3> QED
      BY <3>1, <3>2, <3>3
  <2> CASE ~IsOnParkedChain(index, b)
    BY <1>2, MarksReflexive
  <2> QED
    OBVIOUS
<1> HIDE DEF ix
<1>4. ix \in BlockIndex /\ EnoughWork(ix, chain.tip) /\ ix.linked = index.linked
  <2>1. ix \in BlockIndex /\ ix.linked = index.linked
    BY <1>3 DEF Marks
  <2>2. EnoughWork(ix, chain.tip)
    BY <1>2, <1>3, UpdatedEnoughWork
  <2> QED
    BY <2>1, <2>2
<1>5. CASE undone = {} \/ b \in Ancestors[chain.tip]
  BY <1>1, <1>3, <1>4, <1>5
<1>6. CASE ~(undone = {} \/ b \in Ancestors[chain.tip])
  <2>1. /\ index' = AddCandidates(marked, fork)
        /\ chain' = InvalidChainFound([final EXCEPT !.tip = fork], low)
    BY <1>1, <1>6
  <2> fork \in Ancestors[chain.tip] /\ fork \in Block
    BY <1>2, LastCommonAncestorShared
  <2> HIDE DEF fork
  <2>3. fork # chain.tip
    BY <1>6
  <2>4. low \in Ancestors[chain.tip] /\ low \in Block \ {Genesis} /\ Parent[low] = fork
    BY <1>2, <2>3, NextTowardsExists
  <2> HIDE DEF low
  <2>5. undone \in SUBSET Block
    BY <1>2, AncestorsInBlock
  <2>6. Ancestors[chain.tip] \subseteq index.linked
    BY <1>2, ChainInClosed, ShapeFacts DEF Shape, Rooted
  <2>7. parents \in SUBSET Block /\ \A x \in parents : x \in index.linked /\ ChainWork[fork] <= ChainWork[x]
    <3>1. ASSUME NEW y \in undone
          PROVE  Parent[y] \in Block /\ Parent[y] \in index.linked /\ ChainWork[fork] <= ChainWork[Parent[y]]
      <4> y \in Block /\ Parent[y] \in Ancestors[chain.tip] /\ fork \in Ancestors[Parent[y]]
        BY <1>2, UndoneParents
      <4> Parent[y] \in index.linked /\ Parent[y] \in Block
        BY <1>2, <2>6, AncestorsInBlock
      <4>3. fork = Parent[y] \/ ChainWork[fork] < ChainWork[Parent[y]]
        BY WorkOnChain
      <4>4. ChainWork[fork] \in Nat /\ ChainWork[Parent[y]] \in Nat
        BY ChainStateAssumption
      <4>5. ChainWork[fork] <= ChainWork[Parent[y]]
        BY <4>3, <4>4, SMTT(30)
      <4> QED
        BY <4>5
    <3> HIDE DEF undone
    <3> QED
      BY <3>1
  <2>8. fl \in [Block -> SUBSET Flag]
    <3>1. ix.flags \in [Block -> SUBSET Flag] /\ FAILED \in Flag /\ FAILED_PARENT \in Flag
      BY <1>4, IndexFields, FlagsDiffer DEF Flag
    <3> HIDE DEF undone
    <3> QED
      BY <3>1
  <2>9. marked = [ix EXCEPT !.flags = fl, !.dirty = @ \cup undone, !.cand = @ \cup parents,
                            !.failed = @ \cup {low}]
    <3> HIDE DEF undone, parents
    <3> QED
      BY <1>4 DEF BlockIndex, parents
  <2>10. \A x \in Block : fl[x] = IF x \notin undone THEN ix.flags[x]
                                  ELSE IF x = low THEN ix.flags[x] \cup {FAILED}
                                  ELSE (ix.flags[x] \ {FAILED}) \cup {FAILED_PARENT}
    OBVIOUS
  <2> HIDE DEF undone, parents, marked, fl
  <2> /\ marked \in BlockIndex /\ marked.flags = fl /\ marked.validity = ix.validity
      /\ marked.seq = ix.seq /\ marked.linked = ix.linked /\ marked.unlinked = ix.unlinked
      /\ marked.failed = ix.failed \cup {low} /\ marked.cand = ix.cand \cup parents
      /\ marked.dirty = ix.dirty \cup undone
    BY <1>4, <2>4, <2>5, <2>7, <2>8, <2>9 DEF BlockIndex, Flag
  <2> /\ index' \in BlockIndex
      /\ index'.validity = marked.validity /\ index'.flags = marked.flags /\ index'.seq = marked.seq
      /\ index'.linked = marked.linked /\ index'.unlinked = marked.unlinked
      /\ index'.failed = marked.failed /\ index'.dirty = marked.dirty
      /\ index'.cand = marked.cand \cup {x \in marked.linked : /\ IsValid(marked, x, TRANSACTIONS)
                                                               /\ ~Worse(marked, x, fork)}
    BY <2>1, AddCandidatesFields, ZenonT(60)
  <2>13. \A x \in index'.cand \ ix.cand : x \in ix.linked /\ ChainWork[fork] <= ChainWork[x]
    <3>1. \A x \in index'.cand \ ix.cand :
            x \in parents \/ (x \in ix.linked /\ ~Worse(marked, x, fork))
      OBVIOUS
    <3>2. \A x \in ix.linked : ~Worse(marked, x, fork) => ChainWork[fork] <= ChainWork[x]
      <4>1. ix.linked \in SUBSET Block
        BY <1>4, IndexFields
      <4> QED
        BY <4>1, WorseOrder
    <3> QED
      BY <1>4, <2>7, <3>1, <3>2
  <2>14. Undone(ix, fork, low)
    BY <2>3, <2>4, <2>10, <2>13 DEF Undone, undone
  <2> QED
    BY <1>3, <1>4, <2>1, <2>4, <2>14
<1> QED
  BY <1>5, <1>6

LEMMA ShapeFinalize ==
  ASSUME Counting, Shape, NEW b \in Block, FinalizeBlock(b)
  PROVE  Shape' /\ Marks(index, index')
<1> Command("finalize", b) /\ wanted' = TRUE /\ UNCHANGED <<ids, abc, unwind, disk, restarts>>
  BY DEF FinalizeBlock
<1> commands' \in 0..MaxCommands /\ b \in Known(index)
  BY CommandFacts
<1> PICK ix \in BlockIndex :
         /\ Marks(index, ix) /\ EnoughWork(ix, chain.tip)
         /\ \/ index' = ix /\ chain' = FinalizeBlockInternal(chain, b)
            \/ \E fork, low \in Block :
                 /\ Undone(ix, fork, low)
                 /\ chain' = InvalidChainFound([FinalizeBlockInternal(chain, b) EXCEPT !.tip = fork], low)
  BY FinalizeEffect
<1> /\ index \in BlockIndex /\ chain.tip \in Block /\ chain \in ChainOf(Known(index))
    /\ Known(index) \in SUBSET Block /\ ClosedUnderParent(Known(index))
    /\ chain.tip \in index.linked /\ index.linked \subseteq Known(index)
    /\ InHand(abc, index.linked, chain.tip)
  BY ShapeFacts DEF Shape
<1> DEFINE final == FinalizeBlockInternal(chain, b)
<1> final \in ChainOf(Known(index)) /\ final.tip = chain.tip
  BY FinalizeBlockInternalIn, SMTT(30)
<1> HIDE DEF final
<1> ids' \in [seq: Nat, reverse: Int, lastPrecious: Nat] /\ InUnwind(unwind')
    /\ wanted' \in BOOLEAN /\ disk' = disk /\ restarts' = restarts /\ abc' = abc
  BY DEF Shape, Types
<1> CASE index' = ix /\ chain' = final
  <2>1. Marks(index, index') /\ EnoughWork(index', chain'.tip) /\ InHand(abc', index.linked, chain'.tip)
        /\ chain' \in ChainOf(Known(index)) /\ chain'.tip \in index.linked
    OBVIOUS
  <2> QED
    BY <2>1, ShapeMarks
<1> ASSUME NEW fork \in Block, NEW low \in Block, Undone(ix, fork, low),
           chain' = InvalidChainFound([final EXCEPT !.tip = fork], low)
    PROVE  Shape' /\ Marks(index, index')
  <2> fork \in Ancestors[chain.tip] /\ low # Genesis
    BY DEF Undone
  <2> fork \in index.linked /\ fork \in Known(index)
    <3>1. Ancestors[chain.tip] \subseteq index.linked
      BY ChainInClosed, ShapeFacts DEF Shape, Rooted
    <3> QED
      BY <3>1
  <2> DEFINE ch == [final EXCEPT !.tip = fork]
  <2>3. ch \in ChainOf(Known(index)) /\ ch.tip = fork
    BY SetTip, SMTT(30)
  <2> HIDE DEF ch
  <2> chain' \in ChainOf(Known(index)) /\ chain'.tip = fork
    <3>1. chain' = InvalidChainFound(ch, low)
      BY DEF ch
    <3> QED
      BY <2>3, <3>1, InvalidChainFoundIn, SMTT(30)
  <2>5. InHand(abc', index.linked, chain'.tip)
    BY LowerTipInHand
  <2>6. EnoughWork(index', chain'.tip)
    <3>1. fork = chain.tip \/ ChainWork[fork] < ChainWork[chain.tip]
      BY WorkOnChain
    <3>2. ix.cand \in SUBSET Block /\ ChainWork \in [Block -> Nat]
      BY IndexFields, ChainStateAssumption
    <3>3. \A x \in ix.cand : ChainWork[fork] <= ChainWork[x]
      BY <3>1, <3>2, SMTT(30) DEF EnoughWork
    <3> QED
      BY <3>3 DEF EnoughWork, Undone
  <2>7. Marks(ix, index')
    <3>1. Genesis \in Block /\ Genesis \in Ancestors[fork]
      BY GenesisInAncestors, BlockTreeAssumption
    <3>2. index'.flags[Genesis] = ix.flags[Genesis]
      BY <3>1 DEF Undone
    <3>3. index'.flags[Genesis] \cap INVALID_MASK \subseteq ix.flags[Genesis]
      BY <3>2
    <3>4. \A x \in Block : DATA \in index'.flags[x] <=> DATA \in ix.flags[x]
      <4>1. DATA # FAILED /\ DATA # FAILED_PARENT
        BY FlagsDiffer
      <4>2. \A x \in Block : \/ index'.flags[x] = ix.flags[x]
                             \/ index'.flags[x] = ix.flags[x] \cup {FAILED}
                             \/ index'.flags[x] = (ix.flags[x] \ {FAILED}) \cup {FAILED_PARENT}
        BY DEF Undone
      <4> QED
        BY <4>1, <4>2, ZenonT(60)
    <3>5. index'.cand \subseteq ix.cand \cup ix.linked /\ ix.dirty \subseteq index'.dirty
      BY DEF Undone
    <3> QED
      BY <3>3, <3>4, <3>5, MarksFrom DEF Undone
  <2>8. Marks(index, index')
    BY <2>7, MarksTransitive
  <2> QED
    BY <2>5, <2>6, <2>8, ShapeMarks
<1> QED
  BY DEF final

LEMMA ShapeStutter ==
  ASSUME Shape, UNCHANGED vars
  PROVE  Shape'
<1>1. UNCHANGED <<index, chain, ids, abc, wanted, unwind, disk, commands, restarts>>
  BY DEF vars
<1> QED
  BY <1>1 DEF Shape, Types, Rooted, OnDisk, EnoughWork, InHand, InUnwind, Known, IsInvalid

LEMMA ShapeStep ==
  ASSUME Counting, Shape, [Next]_vars
  PROVE  Shape'
<1> CASE Arrival
  BY ShapeHeader, ShapeRejects, ShapeBlock, ShapeFails DEF Arrival
<1> CASE Activation
  BY ShapeActivate, ShapeLock, ShapeFind, ShapeDrops, ShapeStepDown, ShapeConnect,
     ShapeConnectInvalid, ShapeCannotFinalize DEF Activation
<1> CASE Operator
  BY ShapeUnwind, ShapeReconsider, ShapeUnpark, ShapePrecious, ShapeFinalize DEF Operator
<1> CASE Unwinding
  BY ShapeUnwound, ShapeLeave, ShapeMark DEF Unwinding
<1> CASE FlushBlockIndex
  BY ShapeFlush
<1> CASE Restart
  BY ShapeRestart
<1> CASE UNCHANGED vars
  BY ShapeStutter
<1> QED
  BY DEF Next

-----------------------------------------------------------------------------
(* Marks have a cause.                                                       *)

LEMMA CausesFailed ==
  ASSUME Causes, index.flags \in [Block -> SUBSET Flag], NEW b \in Block,
         index'.flags = [index.flags EXCEPT ![b] = @ \cup {FAILED}]
  PROVE  Causes'
<1> \A x \in Block : index'.flags[x] = IF x = b THEN index.flags[x] \cup {FAILED} ELSE index.flags[x]
  BY AddFlag
<1>2. /\ \A g \in INVALID_MASK \ {FAILED} : g \in index'.flags[b] => g \in index.flags[b]
      /\ FAILED \in index.flags[b] => FAILED \in index'.flags[b]
  OBVIOUS
<1>3. \A x \in Block : \A g \in PARKED_MASK : g \in index'.flags[x] <=> g \in index.flags[x]
  BY FlagsDiffer
<1>4. Caused(index'.flags, INVALID_MASK, FAILED)
  BY <1>2, FlagsDiffer, CausedAdd DEF Causes
<1>5. Caused(index'.flags, PARKED_MASK, PARKED)
  BY <1>3, FlagsDiffer, CausedSame DEF Causes
<1> QED
  BY <1>4, <1>5 DEF Causes

\* A mark that AcceptBlockHeader, chain selection or the operator adds comes
\* with a block on the chain that carries its own mark, and whoever removes
\* that block's own mark removes the marks it caused.
LEMMA CausesArrival ==
  ASSUME Counting, Shape, Causes, FailedBlocksFailed, Arrival
  PROVE  Causes'
<1> CASE \E b \in Block : AcceptBlockHeader(b)
  BY ShapeFacts, HeaderEffect DEF Causes
<1> ASSUME NEW b \in Block, AcceptBlockHeader_Rejects(b)
    PROVE  Causes'
  <2> PICK f \in FailedBelow(b) :
        \A x \in Block : index'.flags[x] = IF x \in Ancestors[Parent[b]] \ Ancestors[f]
                                           THEN index.flags[x] \cup {FAILED_PARENT}
                                           ELSE index.flags[x]
    BY ShapeFacts, RejectsEffect
  <2> FAILED \in index.flags[f] /\ Parent[b] \in Block /\ f \in Ancestors[Parent[b]]
    <3> HeaderReaches(b)
      BY DEF AcceptBlockHeader_Rejects
    <3>2. Parent[b] \in Block
      BY DEF HeaderReaches, Known
    <3>3. f \in Ancestors[Parent[b]]
      BY DEF FailedBelow
    <3> QED
      BY <3>2, <3>3 DEF FailedBlocksFailed
  <2>3. FAILED \in index'.flags[f] /\ f \in Block
    BY AncestorsInBlock, SelfAncestor
  <2>4. \A x \in Ancestors[Parent[b]] \ Ancestors[f] : f \in Ancestors[x]
    BY AncestorsLinear
  <2>5. \A a \in Block : FAILED \in index.flags[a] => a \in Ancestors[a] /\ FAILED \in index'.flags[a]
    BY SelfAncestor
  <2>6. \A x \in Block : index'.flags[x] \cap INVALID_MASK # {}
                           => \/ index.flags[x] \cap INVALID_MASK # {}
                              \/ \E c \in Ancestors[x] : FAILED \in index'.flags[c]
    BY <2>3, <2>4
  <2>7. Caused(index'.flags, INVALID_MASK, FAILED)
    BY <2>5, <2>6, CausedFrom DEF Causes
  <2>8. \A x \in Block : \A g \in PARKED_MASK : g \in index'.flags[x] <=> g \in index.flags[x]
    BY FlagsDiffer
  <2>9. Caused(index'.flags, PARKED_MASK, PARKED)
    BY <2>8, FlagsDiffer, CausedSame DEF Causes
  <2> QED
    BY <2>7, <2>9 DEF Causes
<1> ASSUME NEW b \in Block, AcceptBlock(b)
    PROVE  Causes'
  <2> PICK park \in {{}, {PARKED}} :
        /\ index'.flags[b] = index.flags[b] \cup {DATA} \cup park
        /\ \A x \in Block \ {b} : index'.flags[x] = index.flags[x]
    BY AcceptBlockEffect DEF BlockStored
  <2>2. \A g \in INVALID_MASK : g \in index'.flags[b] <=> g \in index.flags[b]
    BY FlagsDiffer
  <2>3. /\ \A g \in PARKED_MASK \ {PARKED} : g \in index'.flags[b] => g \in index.flags[b]
        /\ PARKED \in index.flags[b] => PARKED \in index'.flags[b]
    BY FlagsDiffer
  <2>4. Caused(index'.flags, INVALID_MASK, FAILED)
    BY <2>2, FlagsDiffer, CausedSame DEF Causes
  <2>5. Caused(index'.flags, PARKED_MASK, PARKED)
    BY <2>3, FlagsDiffer, CausedAdd DEF Causes
  <2> QED
    BY <2>4, <2>5 DEF Causes
<1> ASSUME NEW b \in Block, AcceptBlock_Fails(b)
    PROVE  Causes'
  <2>1. index'.flags = [index.flags EXCEPT ![b] = @ \cup {FAILED}]
    BY ShapeFacts, FailsEffect
  <2> QED
    BY <2>1, ShapeFacts, CausesFailed
<1> QED
  BY DEF Arrival

LEMMA CausesActivation ==
  ASSUME Counting, Shape, Causes, Activation
  PROVE  Causes'
<1> CASE \/ ActivateBestChain \/ ActivateBestChain_Lock \/ ActivateBestChainStep_DisconnectTip
  <2>1. index' = index
    BY DEF ActivateBestChain, ActivateBestChain_Lock, ActivateBestChainStep_DisconnectTip
  <2> QED
    BY <2>1 DEF Causes
<1> ASSUME NEW b \in Block, NEW ix, Looked(ix, b)
    PROVE  Caused(ix.flags, INVALID_MASK, FAILED) /\ Caused(ix.flags, PARKED_MASK, PARKED)
  <2>1. \A x \in Block : \A f \in INVALID_MASK :
          f \in ix.flags[x] <=> f \in index.flags[x] \/ (x = b /\ f = FAILED /\ Conflicts(b))
    BY DEF Looked
  <2>2. Caused(ix.flags, INVALID_MASK, FAILED)
    BY <2>1, FlagsDiffer, CausedAdd DEF Causes
  <2> QED
    BY <2>2 DEF Looked, Causes
<1> CASE FindMostWorkChain
  <2> CASE index.cand = {}
    BY DEF FindMostWorkChain, Causes
  <2> CASE index.cand # {}
    <3> BestCandidate(index) \in Block /\ index' = Examined(BestCandidate(index))
      BY BestCandidateAbove DEF FindMostWorkChain
    <3>2. Looked(index', BestCandidate(index))
      BY ExaminedEffect
    <3> QED
      BY <3>2 DEF Causes
  <2> QED
    OBVIOUS
<1> CASE FindMostWorkChain_Rejects
  <2> PICK b, ix, bad : b \in Block /\ Dropped(ix, b, bad)
    BY DropsEffect
  <2> Caused(ix.flags, INVALID_MASK, FAILED) /\ Caused(ix.flags, PARKED_MASK, PARKED)
    BY DEF Dropped
  <2> bad \in Ancestors[b] /\ bad \in Block
    BY AncestorsInBlock DEF Dropped, PathTo
  <2> \A x \in Ancestors[b] \ Ancestors[bad] : Ancestors[bad] \subseteq Ancestors[x]
    <3>1. ASSUME NEW x \in Ancestors[b] \ Ancestors[bad] PROVE x \in Block /\ bad \in Ancestors[x]
      BY AncestorsLinear, AncestorsInBlock
    <3> QED
      BY <3>1, AncestorsTransitive
  <2>5. \A x \in Block :
        index'.flags[x] = IF x \in Ancestors[b] \ Ancestors[bad]
                          THEN (ix.flags[x] \ {FAILED_PARENT, PARKED_PARENT})
                                 \cup (IF IsInvalid(ix, bad) THEN {FAILED_PARENT} ELSE {})
                                 \cup (IF IsOnParkedChain(ix, bad) THEN {PARKED_PARENT} ELSE {})
                          ELSE ix.flags[x]
    BY DEF Dropped
  <2>6. /\ FAILED # FAILED_PARENT /\ FAILED # PARKED_PARENT /\ PARKED # FAILED_PARENT
        /\ PARKED # PARKED_PARENT
        /\ FAILED_PARENT \notin PARKED_MASK /\ PARKED_PARENT \notin INVALID_MASK
    BY FlagsDiffer
  <2> \A x \in Block : /\ FAILED \in index'.flags[x] <=> FAILED \in ix.flags[x]
                       /\ PARKED \in index'.flags[x] <=> PARKED \in ix.flags[x]
    BY <2>5, <2>6
  <2>8. Caused(index'.flags, INVALID_MASK, FAILED)
    <3>1. IsInvalid(ix, bad) => \E c \in Ancestors[bad] : FAILED \in ix.flags[c]
      BY DEF Caused, IsInvalid
    <3>2. IsInvalid(ix, bad) => \A x \in Ancestors[b] \ Ancestors[bad] :
                                  \E c \in Ancestors[x] : FAILED \in index'.flags[c]
      BY <3>1, AncestorsInBlock
    <3>3. \A x \in Block : index'.flags[x] \cap INVALID_MASK # {}
                             => \/ ix.flags[x] \cap INVALID_MASK # {}
                                \/ IsInvalid(ix, bad) /\ x \in Ancestors[b] \ Ancestors[bad]
      BY <2>5, <2>6
    <3>4. \A a \in Block : FAILED \in ix.flags[a] => \E c \in Ancestors[a] : FAILED \in index'.flags[c]
      BY SelfAncestor
    <3>5. \A x \in Block : index'.flags[x] \cap INVALID_MASK # {}
                             => \/ ix.flags[x] \cap INVALID_MASK # {}
                                \/ \E c \in Ancestors[x] : FAILED \in index'.flags[c]
      BY <3>2, <3>3
    <3> QED
      BY <3>4, <3>5, CausedFrom
  <2>9. Caused(index'.flags, PARKED_MASK, PARKED)
    <3>1. IsOnParkedChain(ix, bad) => \E c \in Ancestors[bad] : PARKED \in ix.flags[c]
      BY DEF Caused, IsOnParkedChain
    <3>2. IsOnParkedChain(ix, bad) => \A x \in Ancestors[b] \ Ancestors[bad] :
                                        \E c \in Ancestors[x] : PARKED \in index'.flags[c]
      BY <3>1, AncestorsInBlock
    <3>3. \A x \in Block : index'.flags[x] \cap PARKED_MASK # {}
                             => \/ ix.flags[x] \cap PARKED_MASK # {}
                                \/ IsOnParkedChain(ix, bad) /\ x \in Ancestors[b] \ Ancestors[bad]
      BY <2>5, <2>6
    <3>4. \A a \in Block : PARKED \in ix.flags[a] => \E c \in Ancestors[a] : PARKED \in index'.flags[c]
      BY SelfAncestor
    <3>5. \A x \in Block : index'.flags[x] \cap PARKED_MASK # {}
                             => \/ ix.flags[x] \cap PARKED_MASK # {}
                                \/ \E c \in Ancestors[x] : PARKED \in index'.flags[c]
      BY <3>2, <3>3
    <3> QED
      BY <3>4, <3>5, CausedFrom
  <2> QED
    BY <2>8, <2>9 DEF Causes
<1> ASSUME NEW b \in Block, ConnectTip(b) \/ ConnectTip_CannotFinalize(b)
    PROVE  Causes'
  <2> DEFINE iy == ScriptsValid(index, b)
  <2> iy \in BlockIndex /\ iy.flags = index.flags
    BY ShapeFacts, ScriptsValidFields
  <2>2. index' = iy \/ index' = PruneBlockIndexCandidates(iy, b)
    BY DEF ConnectTip, ConnectTip_CannotFinalize
  <2> HIDE DEF iy
  <2>3. PruneBlockIndexCandidates(iy, b).flags = iy.flags
    BY PruneFields
  <2>4. index'.flags = index.flags
    BY <2>2, <2>3
  <2> QED
    BY <2>4 DEF Causes
<1> ASSUME NEW b \in Block, ConnectTip_Invalid(b)
    PROVE  Causes'
  <2>1. index'.flags = [index.flags EXCEPT ![b] = @ \cup {FAILED}]
    BY ShapeFacts, InvalidBlockFoundFields DEF ConnectTip_Invalid
  <2> QED
    BY <2>1, ShapeFacts, CausesFailed
<1> QED
  BY DEF Activation

LEMMA CausesUnwinding ==
  ASSUME Counting, Shape, Causes, Unwinding
  PROVE  Causes'
<1> DEFINE m == unwind.mark
           own == unwind.own
           t == chain.tip
<1> CASE UnwindBlock_Leave
  BY DEF UnwindBlock_Leave, Causes
<1> CASE UnwindBlock_Disconnect
  <2> unwind.pc # "idle" /\ t \in Block
    BY ShapeFacts DEF UnwindBlock_Disconnect
  <2> m \in Block /\ m # Genesis /\ own \in {FAILED, PARKED}
    BY UnwindFacts
  <2> \A x \in Block : index'.flags[x] = IF x = t THEN index.flags[x] \cup {own}
                                         ELSE IF x = m /\ t = Parent[m] /\ own \in index.flags[m]
                                         THEN (index.flags[x] \ {own}) \cup {OfParent(own)}
                                         ELSE index.flags[x]
    BY UnwoundEffect DEF Unwound
  <2>4. t = Parent[m] => t \in Ancestors[m]
    BY AncestorsOfParent, SelfAncestor
  <2> HIDE DEF m, own, t
  <2> ASSUME NEW mask, own \in mask, Caused(index.flags, mask, own)
      PROVE  Caused(index'.flags, mask, own)
    <3>1. \A a \in Block : own \in index.flags[a] => \E c \in Ancestors[a] : own \in index'.flags[c]
      BY <2>4, SelfAncestor
    <3>2. \A x \in Block : index'.flags[x] \cap mask # {}
                             => \/ index.flags[x] \cap mask # {}
                                \/ \E c \in Ancestors[x] : own \in index'.flags[c]
      BY SelfAncestor
    <3> QED
      BY <3>1, <3>2, CausedFrom
  <2> ASSUME NEW mask, own \notin mask, OfParent(own) \notin mask, NEW f \in mask, Caused(index.flags, mask, f)
      PROVE  Caused(index'.flags, mask, f)
    <3>1. \A x \in Block : \A g \in mask : g \in index'.flags[x] <=> g \in index.flags[x]
      OBVIOUS
    <3> QED
      BY <3>1, CausedSame
  <2> CASE own = FAILED
    <3>1. own \in INVALID_MASK /\ own \notin PARKED_MASK /\ OfParent(own) \notin PARKED_MASK
          /\ PARKED \in PARKED_MASK
      BY FlagsDiffer DEF OfParent
    <3> QED
      BY <3>1 DEF Causes
  <2> CASE own = PARKED
    <3>1. own \in PARKED_MASK /\ own \notin INVALID_MASK /\ OfParent(own) \notin INVALID_MASK
          /\ FAILED \in INVALID_MASK
      BY FlagsDiffer DEF OfParent
    <3> QED
      BY <3>1 DEF Causes
  <2> QED
    OBVIOUS
<1> CASE UnwindBlock_Mark
  <2> CASE m \in Ancestors[t]
    BY DEF UnwindBlock_Mark, Causes
  <2> CASE m \notin Ancestors[t]
    <3>1. unwind.pc # "idle"
      BY DEF UnwindBlock_Mark
    <3> m \in Block /\ own \in {FAILED, PARKED}
      BY <3>1, UnwindFacts
    <3> \A x \in Block : index'.flags[x] = IF x = m THEN index.flags[x] \cup {own} ELSE index.flags[x]
      BY MarkedEffect DEF Marked
    <3> HIDE DEF m, own, t
    <3> ASSUME NEW mask, NEW f \in mask, f = own \/ own \notin mask, Caused(index.flags, mask, f)
        PROVE  Caused(index'.flags, mask, f)
      <4>1. \A x \in Block \ {m} : \A g \in mask : g \in index'.flags[x] <=> g \in index.flags[x]
        OBVIOUS
      <4>2. /\ \A g \in mask \ {f} : g \in index'.flags[m] => g \in index.flags[m]
            /\ f \in index.flags[m] => f \in index'.flags[m]
        OBVIOUS
      <4> QED
        BY <4>1, <4>2, CausedAdd
    <3>5. Caused(index'.flags, INVALID_MASK, FAILED)
      BY FlagsDiffer DEF Causes
    <3>6. Caused(index'.flags, PARKED_MASK, PARKED)
      BY FlagsDiffer DEF Causes
    <3> QED
      BY <3>5, <3>6 DEF Causes
  <2> QED
    OBVIOUS
<1> QED
  BY DEF Unwinding

LEMMA CausesOperator ==
  ASSUME Counting, Shape, Causes, Operator
  PROVE  Causes'
<1> index \in BlockIndex /\ chain.tip \in Block
  BY ShapeFacts
<1> ASSUME NEW ix \in BlockIndex, ix.flags = index.flags, NEW iy, NEW b \in Block,
           NEW child, child = PARKED_MASK \/ child = {PARKED_PARENT},
           Updated(ix, iy, chain.tip, b, PARKED_MASK, child, {PARKED_PARENT})
    PROVE  Caused(iy.flags, INVALID_MASK, FAILED) /\ Caused(iy.flags, PARKED_MASK, PARKED)
  <2>1. PARKED_MASK = {PARKED, PARKED_PARENT}
    BY DEF PARKED_MASK
  <2> PARKED_PARENT \in child /\ child \in SUBSET PARKED_MASK
    BY FlagsDiffer
  <2>2. Caused(iy.flags, PARKED_MASK, PARKED)
    BY <2>1, UpdatedCaused DEF Causes
  <2>3. \A x \in Block : \A f \in INVALID_MASK : f \in iy.flags[x] <=> f \in ix.flags[x]
    BY MasksAreFlags, UnparkKeeps
  <2>4. Caused(iy.flags, INVALID_MASK, FAILED)
    BY <2>3, FlagsDiffer, CausedSame DEF Causes
  <2> QED
    BY <2>2, <2>4
<1> CASE \E b \in Block : \E c \in Commands : UnwindBlock(c, b)
  BY DEF UnwindBlock, Causes
<1> ASSUME NEW b \in Block, ReconsiderBlock(b)
    PROVE  Causes'
  <2> Updated(index, index', chain.tip, b, INVALID_MASK, INVALID_MASK, {FAILED_PARENT})
    BY UpdateFlagsFields DEF ReconsiderBlock, ResetBlockFailureFlags
  <2>2. INVALID_MASK = {FAILED, FAILED_PARENT} /\ FAILED_PARENT \in INVALID_MASK
    BY DEF INVALID_MASK
  <2>3. Caused(index'.flags, INVALID_MASK, FAILED)
    BY <2>2, UpdatedCaused DEF Causes
  <2>4. PICK deepest \in Ancestors[b] :
          Cleared(index, index', b, deepest, INVALID_MASK, INVALID_MASK, {FAILED_PARENT})
    BY DEF Updated
  <2>5. \A x \in Block : \A f \in PARKED_MASK : f \in index'.flags[x] <=> f \in index.flags[x]
    BY <2>4, FlagsDiffer DEF Cleared
  <2>6. Caused(index'.flags, PARKED_MASK, PARKED)
    BY <2>5, FlagsDiffer, CausedSame DEF Causes
  <2> QED
    BY <2>3, <2>6 DEF Causes
<1> ASSUME NEW b \in Block, Unpark(b)
    PROVE  Causes'
  <2>1. Updated(index, index', chain.tip, b, PARKED_MASK, PARKED_MASK, {PARKED_PARENT})
    BY UpdateFlagsFields DEF Unpark, UnparkBlockAndChildren
  <2> QED
    BY <2>1 DEF Causes
<1> ASSUME NEW b \in Block, PreciousBlock(b)
    PROVE  Causes'
  <2> PICK i1, i2 \in BlockIndex :
        /\ i1.flags = index.flags /\ index'.flags = i2.flags
        /\ Updated(i1, i2, chain.tip, b, PARKED_MASK, {PARKED_PARENT}, {PARKED_PARENT})
    BY PreciousEffect
  <2>2. Caused(i2.flags, INVALID_MASK, FAILED) /\ Caused(i2.flags, PARKED_MASK, PARKED)
    OBVIOUS
  <2> QED
    BY <2>2 DEF Causes
<1> ASSUME NEW b \in Block, FinalizeBlock(b)
    PROVE  Causes'
  <2> PICK ix \in BlockIndex :
        /\ ix = index \/ Updated(index, ix, chain.tip, b, PARKED_MASK, {PARKED_PARENT}, {PARKED_PARENT})
        /\ index' = ix \/ \E fork, low \in Block : Undone(ix, fork, low)
    BY FinalizeEffect
  <2> Caused(ix.flags, INVALID_MASK, FAILED) /\ Caused(ix.flags, PARKED_MASK, PARKED)
    BY DEF Causes
  <2> ASSUME NEW fork \in Block, NEW low \in Block, Undone(ix, fork, low)
      PROVE  Causes'
    <3> DEFINE undone == Ancestors[chain.tip] \ Ancestors[fork]
    <3> /\ fork \in Ancestors[chain.tip] /\ fork # chain.tip
        /\ low \in Ancestors[chain.tip] /\ low # Genesis /\ Parent[low] = fork
        /\ \A x \in Block : index'.flags[x] = IF x \notin undone THEN ix.flags[x]
                                              ELSE IF x = low THEN ix.flags[x] \cup {FAILED}
                                              ELSE (ix.flags[x] \ {FAILED}) \cup {FAILED_PARENT}
      BY DEF Undone
    <3>2. low \notin Ancestors[fork]
      <4>1. Height[low] = Height[fork] + 1 /\ Height[low] \in Nat /\ Height[fork] \in Nat
        BY BlockTreeAssumption
      <4>2. low \in Ancestors[fork] => low = fork \/ Height[low] < Height[fork]
        BY AncestorsLower
      <4> QED
        BY <4>1, <4>2, SMTT(30)
    <3> \A x \in undone : low \in Ancestors[x]
      <4>1. Ancestors[low] = Ancestors[fork] \cup {low}
        BY AncestorsOfParent
      <4>2. \A x \in undone : low \in Ancestors[x] \/ x \in Ancestors[low]
        BY AncestorsLinear
      <4> QED
        BY <4>1, <4>2, SelfAncestor
    <3> FAILED \in index'.flags[low]
      BY <3>2
    <3> HIDE DEF undone
    <3>5. \A a \in Block : FAILED \in ix.flags[a] => \E c \in Ancestors[a] : FAILED \in index'.flags[c]
      BY SelfAncestor
    <3>6. \A x \in Block : index'.flags[x] \cap INVALID_MASK # {}
                             => \/ ix.flags[x] \cap INVALID_MASK # {}
                                \/ \E c \in Ancestors[x] : FAILED \in index'.flags[c]
      OBVIOUS
    <3>7. Caused(index'.flags, INVALID_MASK, FAILED)
      BY <3>5, <3>6, CausedFrom
    <3>8. \A x \in Block : \A f \in PARKED_MASK : f \in index'.flags[x] <=> f \in ix.flags[x]
      BY FlagsDiffer, ZenonT(60)
    <3>9. Caused(index'.flags, PARKED_MASK, PARKED)
      BY <3>8, FlagsDiffer, CausedSame
    <3> QED
      BY <3>7, <3>9 DEF Causes
  <2> QED
    BY DEF Causes
<1> QED
  BY DEF Operator

LEMMA CausesStep ==
  ASSUME Counting, Shape, Causes, FailedBlocksFailed, MaxRestarts = 0, [Next]_vars
  PROVE  Causes'
<1>1. ~(restarts < MaxRestarts)
  <2>1. restarts \in 0..MaxRestarts
    BY DEF Shape, Types
  <2> QED
    BY <2>1, SMTT(30)
<1> CASE FlushBlockIndex \/ Restart
  BY <1>1 DEF FlushBlockIndex, Restart
<1> CASE UNCHANGED vars
  BY DEF vars, Causes
<1> QED
  BY CausesArrival, CausesActivation, CausesOperator, CausesUnwinding DEF Next
=============================================================================
