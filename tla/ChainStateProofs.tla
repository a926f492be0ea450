--------------------------- MODULE ChainStateProofs ---------------------------
(***************************************************************************)
(* The block index and the active chain.  The operator's commands break     *)
(* much of what holds without them (README, section 6), so each invariant   *)
(* comes with the commands that keep it.  Shape and Causes are those of     *)
(* ChainShapeProofs;                                                        *)
(*   Final     the finalized block is on every chain that is active or      *)
(*             about to be, unless the operator finalizes blocks;           *)
(*   Valid     no block of such a chain is marked invalid,                  *)
(*   Linking   blocks are linked as soon as they can be: these two if the   *)
(*             operator uses no command that marks blocks as invalid or     *)
(*             removes such marks.                                          *)
(***************************************************************************)
EXTENDS ChainShapeProofs

\* Zenon proves most steps of this module; the others name their prover.
USE ZenonT(30)

\* Commands that leave the marks of invalid blocks alone.
Harmless == {"park", "unpark", "precious"}

Final ==
  chain.finalized # Null =>
    /\ chain.finalized \in Ancestors[chain.tip]
    /\ abc.mostWork # Null => chain.finalized \in Ancestors[abc.mostWork]

\* FAILED is set and will survive a restart.
Durable(ix, d, b) == FAILED \in ix.flags[b] /\ (b \in ix.dirty \/ FAILED \in d[b].flags)

Valid ==
  /\ \A b \in Ancestors[chain.tip] : ~IsInvalid(index, b)
  /\ abc.mostWork # Null => \A b \in Ancestors[abc.mostWork] : ~IsInvalid(index, b)
  /\ \A b \in index.failed : b \in index.linked /\ Durable(index, disk, b)
  /\ \A b \in Block \ index.dirty : disk[b].flags \cap INVALID_MASK \subseteq index.flags[b]
  /\ unwind.pc # "idle" => unwind.own = PARKED

\* The chain of b has a block without data that will never be accepted: it is
\* marked invalid, and the block that failed below it stays marked in a restart.
Stuck(ix, d, b) ==
  \E a \in Ancestors[b] : /\ DATA \notin ix.flags[a] /\ IsInvalid(ix, a)
                          /\ \E c \in Ancestors[a] : Durable(ix, d, c)

Linking ==
  /\ \A b \in Block \ index.linked :
       /\ DATA \in index.flags[b] => b \in index.unlinked \/ Stuck(index, disk, b)
       /\ IsInvalid(index, b) => Stuck(index, disk, b)
       /\ b \notin index.dirty => disk[b].flags = index.flags[b]
       /\ index.seq[b] <= 0
  /\ \A b \in index.unlinked : b # Genesis /\ Parent[b] \notin index.linked
  /\ ids.reverse < 0

-----------------------------------------------------------------------------
(* Finalization.                                                             *)

\* Finalization stays or moves down its chain, and the chosen block is kept
\* or forgotten.
LEMMA FinalBelow ==
  ASSUME Shape, Final, chain'.tip = chain.tip, abc'.mostWork \in {abc.mostWork, Null},
         chain'.finalized # Null => /\ chain.finalized # Null
                                    /\ chain'.finalized \in Ancestors[chain.finalized]
  PROVE  Final'
<1>1. chain.tip \in Block
  BY ShapeFacts
<1>2. abc.mostWork # Null => abc.mostWork \in Block
  BY ShapeFacts DEF Shape, InHand
<1> CASE chain'.finalized = Null
  BY DEF Final
<1> CASE chain'.finalized # Null
  <2> chain.finalized \in Ancestors[chain.tip] /\ chain'.finalized \in Ancestors[chain.finalized]
    BY DEF Final
  <2>2. chain'.finalized \in Ancestors[chain'.tip]
    BY <1>1, AncestorsTransitive
  <2> ASSUME abc'.mostWork # Null
      PROVE  chain'.finalized \in Ancestors[abc'.mostWork]
    <3> abc'.mostWork = abc.mostWork
      OBVIOUS
    <3>2. chain.finalized \in Ancestors[abc.mostWork]
      BY DEF Final
    <3> QED
      BY <1>2, <3>2, AncestorsTransitive
  <2> QED
    BY <2>2 DEF Final
<1> QED
  OBVIOUS

LEMMA FinalSame ==
  ASSUME Shape, Final, chain'.tip = chain.tip, chain'.finalized = chain.finalized,
         abc'.mostWork \in {abc.mostWork, Null}
  PROVE  Final'
<1>1. chain.finalized \in Block \cup {Null}
  BY ShapeFacts
<1> QED
  BY <1>1, FinalBelow, SelfAncestor

\* InvalidChainFound moves finalization down.
LEMMA InvalidChainBelow ==
  ASSUME NEW K \in SUBSET Block, ClosedUnderParent(K), NEW ch \in ChainOf(K), NEW b \in Block \ {Genesis}
  PROVE  /\ InvalidChainFound(ch, b) \in ChainOf(K)
         /\ InvalidChainFound(ch, b).tip = ch.tip
         /\ InvalidChainFound(ch, b).finalized # Null =>
              /\ ch.finalized # Null /\ ch.finalized \in Block
              /\ InvalidChainFound(ch, b).finalized \in Ancestors[ch.finalized]
<1> DEFINE new == InvalidChainFound(ch, b)
<1> /\ new \in ChainOf(K) /\ new.tip = ch.tip
    /\ new.finalized = IF ch.finalized # Null /\ b \in Ancestors[ch.finalized] THEN Parent[b] ELSE ch.finalized
  BY InvalidChainFoundIn
<1> ch.finalized # Null => ch.finalized \in Block
  BY DEF ChainOf
<1> HIDE DEF new
<1> ASSUME ch.finalized # Null, b \in Ancestors[ch.finalized]
    PROVE  Parent[b] \in Ancestors[ch.finalized]
  BY AncestorsClosed DEF ClosedUnderParent
<1>4. new.finalized # Null => ch.finalized # Null /\ new.finalized \in Ancestors[ch.finalized]
  BY SelfAncestor
<1> QED
  BY <1>4 DEF new

\* The candidate that FindMostWorkChain chooses does not conflict with
\* finalization: it would be unusable itself.
LEMMA ChosenAgrees ==
  ASSUME Counting, Shape, Final, NEW b \in Block, b = chain.tip \/ b \notin Ancestors[chain.tip],
         Unusable(Examined(b), b) = {}
  PROVE  ~Conflicts(b) /\ (chain.finalized # Null => chain.finalized \in Ancestors[b])
<1>1. chain.tip \in Block /\ chain.finalized \in Block \cup {Null}
  BY ShapeFacts
<1> chain.finalized # Null => chain.finalized \in Ancestors[chain.tip]
  BY DEF Final
<1> CASE b = chain.tip
  BY DEF Conflicts, AreOnTheSameFork
<1> CASE b # chain.tip
  <2> b \notin Ancestors[chain.tip] /\ b \in PathTo(b)
    BY SelfAncestor DEF PathTo
  <2>2. ~IsInvalid(Examined(b), b)
    BY DEF Unusable
  <2>3. Conflicts(b) => FAILED \in Examined(b).flags[b]
    BY ExaminedEffect, FlagsDiffer DEF Looked
  <2> ~Conflicts(b)
    BY <2>2, <2>3, FlagsDiffer DEF IsInvalid
  <2>5. chain.finalized # Null => chain.finalized \in Ancestors[b] \/ b \in Ancestors[chain.finalized]
    BY DEF Conflicts, AreOnTheSameFork
  <2>6. chain.finalized # Null => Ancestors[chain.finalized] \subseteq Ancestors[chain.tip]
    BY <1>1, AncestorsTransitive
  <2> QED
    BY <2>5, <2>6
<1> QED
  OBVIOUS

\* What FindMostWorkChain chooses.
LEMMA FindFacts ==
  ASSUME Counting, Shape, FindMostWorkChain
  PROVE  \/ abc' = Idle /\ UNCHANGED <<index, chain>>
         \/ \E b \in Block :
              /\ b \in index.linked /\ (b = chain.tip \/ b \notin Ancestors[chain.tip])
              /\ Unusable(Examined(b), b) = {} /\ index' = Examined(b)
              /\ chain' = IF Conflicts(b) THEN InvalidChainFound(chain, b) ELSE chain
              /\ abc'.mostWork = IF b = chain.tip THEN Null ELSE b
<1> CASE index.cand = {}
  BY DEF FindMostWorkChain
<1> CASE index.cand # {}
  <2> DEFINE b == BestCandidate(index)
  <2>1. b \in Block /\ b \in index.linked /\ (b = chain.tip \/ b \notin Ancestors[chain.tip])
    BY BestCandidateAbove
  <2> /\ Unusable(Examined(b), b) = {} /\ index' = Examined(b)
      /\ chain' = IF Conflicts(b) THEN InvalidChainFound(chain, b) ELSE chain
      /\ abc' = IF b = chain.tip THEN Idle ELSE BeginStep(abc, chain.tip, b)
    BY DEF FindMostWorkChain
  <2> HIDE DEF b
  <2>3. Idle.mostWork = Null
    BY DEF Idle
  <2>4. BeginStep(abc, chain.tip, b).mostWork = b
    BY ShapeFacts DEF BeginStep, Activating
  <2>5. abc'.mostWork = IF b = chain.tip THEN Null ELSE b
    BY <2>3, <2>4
  <2> QED
    BY <2>1, <2>5
<1> QED
  OBVIOUS

LEMMA FinalFind ==
  ASSUME Counting, Shape, Final, FindMostWorkChain
  PROVE  Final'
<1> CASE abc' = Idle /\ UNCHANGED <<index, chain>>
  <2>1. abc'.mostWork = Null
    BY DEF Idle
  <2> QED
    BY <2>1, FinalSame
<1> CASE ~(abc' = Idle /\ UNCHANGED <<index, chain>>)
  <2> PICK b \in Block :
        /\ b = chain.tip \/ b \notin Ancestors[chain.tip]
        /\ Unusable(Examined(b), b) = {}
        /\ chain' = IF Conflicts(b) THEN InvalidChainFound(chain, b) ELSE chain
        /\ abc'.mostWork = IF b = chain.tip THEN Null ELSE b
    BY FindFacts
  <2> ~Conflicts(b) /\ (chain.finalized # Null => chain.finalized \in Ancestors[b])
    BY ChosenAgrees
  <2>3. chain' = chain
    OBVIOUS
  <2> QED
    BY <2>3 DEF Final
<1> QED
  OBVIOUS

LEMMA FinalStepDown ==
  ASSUME Counting, Shape, Final, ActivateBestChainStep_DisconnectTip
  PROVE  Final' /\ (chain.finalized # Null => chain'.finalized = chain.finalized)
<1> /\ abc.pc = "step" /\ chain.tip \notin Ancestors[abc.mostWork]
    /\ chain' = Disconnected(chain) /\ abc' = abc
  BY DEF ActivateBestChainStep_DisconnectTip
<1> abc.mostWork \in Block /\ abc.mostWork # Null
  BY NullOutside DEF Shape, InHand
<1> chain.tip \in Block /\ chain.tip # Genesis
  BY ShapeFacts, GenesisInAncestors
<1> /\ chain'.tip = Parent[chain.tip]
    /\ chain'.finalized = IF chain.finalized = chain.tip THEN Parent[chain.tip] ELSE chain.finalized
  BY ShapeFacts, DisconnectedIn
<1> CASE chain.finalized = Null
  <2>1. chain'.finalized = Null
    BY NullOutside
  <2> QED
    BY <2>1 DEF Final
<1> CASE chain.finalized # Null
  <2> chain.finalized \in Ancestors[chain.tip] /\ chain.finalized \in Ancestors[abc.mostWork]
    BY DEF Final
  <2>2. chain.finalized # chain.tip
    OBVIOUS
  <2>3. chain'.finalized = chain.finalized /\ chain.finalized \in Ancestors[Parent[chain.tip]]
    BY <2>2, AncestorsOfParent
  <2> QED
    BY <2>3 DEF Final
<1> QED
  OBVIOUS

LEMMA FinalConnect ==
  ASSUME Counting, Shape, Final, NEW b \in Block, ConnectTip(b)
  PROVE  Final' /\ (chain.finalized # Null => chain.finalized \in Ancestors[chain'.tip])
<1> /\ abc.mostWork \in Block /\ abc.mostWork # Null /\ b \in Ancestors[abc.mostWork]
    /\ b # Genesis /\ Parent[b] = chain.tip /\ b \in Known(index) /\ abc.start \in Block
    /\ abc.mostWork = b \/ abc.mostWork \notin Ancestors[b]
  BY ToConnectFacts DEF ConnectTip
<1> Ancestors[chain.tip] \subseteq Ancestors[b] /\ Ancestors[b] \subseteq Ancestors[abc.mostWork]
  BY AncestorsOfParent, AncestorsTransitive
<1>3. abc'.mostWork \in {abc.mostWork, Null}
  <2> /\ abc.mostWork \in index.linked /\ abc \in Activating /\ index.linked \in SUBSET Block
    BY ShapeFacts, ToConnectFacts DEF ConnectTip
  <2>2. EndStep(abc, index, b, abc.mostWork).mostWork \in {abc.mostWork, Null}
    BY EndStepInHand
  <2>3. [abc EXCEPT !.low = NextTowards(b, abc.mostWork)].mostWork = abc.mostWork
    BY DEF Activating
  <2> QED
    BY <2>2, <2>3 DEF ConnectTip
<1>4. PICK f \in FindBlockToFinalize(chain, b) :
        /\ f # Null => CanFinalize(index, chain, f)
        /\ chain' = [(IF f = Null THEN chain ELSE FinalizeBlockInternal(chain, f)) EXCEPT !.tip = b]
  BY DEF ConnectTip
<1> chain \in ChainOf(Known(index)) /\ ClosedUnderParent(Known(index)) /\ Known(index) \in SUBSET Block
  BY ShapeFacts
<1> f # Null => f \in Ancestors[b]
  BY <1>4 DEF FindBlockToFinalize
<1> chain'.tip = b /\ (chain'.finalized = chain.finalized \/ (f # Null /\ chain'.finalized = f))
  <2>1. CASE f = Null
    <3>1. chain' = [chain EXCEPT !.tip = b]
      BY <1>4, <2>1
    <3> QED
      BY <3>1, SetTip, SMTT(30)
  <2> CASE f # Null
    <3>1. f \in Known(index)
      BY ChainInClosed
    <3> DEFINE ch == FinalizeBlockInternal(chain, f)
    <3>2. ch \in ChainOf(Known(index)) /\ (ch.finalized = chain.finalized \/ ch.finalized = f)
      BY <3>1, FinalizeBlockInternalIn, SMTT(30)
    <3>3. chain' = [ch EXCEPT !.tip = b]
      BY <1>4
    <3> HIDE DEF ch
    <3> QED
      BY <3>2, <3>3, SetTip, SMTT(30)
  <2> QED
    BY <2>1
<1> chain.finalized # Null => chain.finalized \in Ancestors[b]
  BY DEF Final
<1>9. chain'.finalized # Null => chain'.finalized \in Ancestors[b]
  OBVIOUS
<1> QED
  BY <1>3, <1>9 DEF Final

LEMMA FinalConnectFails ==
  ASSUME Counting, Shape, Final, NEW b \in Block, ConnectTip_Invalid(b) \/ ConnectTip_CannotFinalize(b)
  PROVE  Final'
<1> /\ b # Genesis /\ abc.low \in Block \ {Genesis} /\ abc.start \in Block
  BY ToConnectFacts DEF ConnectTip_Invalid, ConnectTip_CannotFinalize
<1> abc'.mostWork = Null
  <2>1. abc' = EndStep(abc, index, chain.tip, Null)
    BY DEF ConnectTip_Invalid, ConnectTip_CannotFinalize
  <2>2. EndStep(abc, index, chain.tip, Null).mostWork = Null
    <3>1. abc \in Activating
      BY ShapeFacts
    <3> QED
      BY <3>1 DEF EndStep, Idle, Activating
  <2> QED
    BY <2>1, <2>2
<1> CASE ConnectTip_CannotFinalize(b)
  BY FinalSame DEF ConnectTip_CannotFinalize
<1> CASE ConnectTip_Invalid(b)
  <2> DEFINE K == Known(index)
             mid == InvalidChainFound(chain, b)
  <2> K \in SUBSET Block /\ ClosedUnderParent(K) /\ chain \in ChainOf(K)
    BY ShapeFacts
  <2> HIDE DEF K
  <2> /\ mid \in ChainOf(K) /\ mid.tip = chain.tip
      /\ mid.finalized # Null => /\ chain.finalized # Null /\ chain.finalized \in Block
                                 /\ mid.finalized \in Ancestors[chain.finalized]
    BY InvalidChainBelow
  <2>3. chain' = InvalidChainFound(mid, abc.low)
    BY DEF ConnectTip_Invalid
  <2> HIDE DEF mid
  <2> /\ chain'.tip = mid.tip
      /\ chain'.finalized # Null => /\ mid.finalized # Null /\ mid.finalized \in Block
                                    /\ chain'.finalized \in Ancestors[mid.finalized]
    BY <2>3, InvalidChainBelow
  <2>5. chain'.finalized # Null => chain.finalized # Null /\ chain'.finalized \in Ancestors[chain.finalized]
    BY AncestorsTransitive
  <2> QED
    BY <2>5, FinalBelow
<1> QED
  OBVIOUS

LEMMA FinalActivation ==
  ASSUME Counting, Shape, Final, Activation
  PROVE  Final'
<1> CASE ActivateBestChain
  <2>1. abc'.mostWork = abc.mostWork
    BY ShapeFacts DEF ActivateBestChain, Activating
  <2> QED
    BY <2>1, FinalSame DEF ActivateBestChain
<1> CASE ActivateBestChain_Lock
  <2>1. abc'.mostWork \in {abc.mostWork, Null}
    BY ShapeFacts DEF ActivateBestChain_Lock, Activating, Idle, BeginStep
  <2> QED
    BY <2>1, FinalSame DEF ActivateBestChain_Lock
<1> CASE FindMostWorkChain_Rejects
  <2>1. PICK b \in Block : chain' = IF Conflicts(b) THEN InvalidChainFound(chain, b) ELSE chain
    BY DropsEffect
  <2>2. chain'.tip = chain.tip /\ chain'.finalized = chain.finalized
    BY <2>1, LookedChain
  <2> QED
    BY <2>2, FinalSame DEF FindMostWorkChain_Rejects
<1> QED
  BY FinalFind, FinalStepDown, FinalConnect, FinalConnectFails DEF Activation

LEMMA FinalUnwinding ==
  ASSUME Counting, Shape, Final, Unwinding
  PROVE  Final'
<1> CASE UnwindBlock_Leave
  BY FinalSame DEF UnwindBlock_Leave
<1> CASE UnwindBlock_Disconnect
  <2> chain.tip \in Block /\ chain.tip # Genesis /\ chain' = Disconnected(chain) /\ abc' = abc
    BY ShapeFacts, UnwoundEffect DEF UnwindBlock_Disconnect
  <2> /\ chain'.tip = Parent[chain.tip]
      /\ chain'.finalized = IF chain.finalized = chain.tip THEN Parent[chain.tip] ELSE chain.finalized
    BY ShapeFacts, DisconnectedIn
  <2> Parent[chain.tip] \in Block /\ Ancestors[chain.tip] = {chain.tip} \cup Ancestors[Parent[chain.tip]]
    BY BlockTreeAssumption, AncestorsOfParent
  <2> chain'.finalized # Null => /\ chain.finalized # Null /\ chain.finalized \in Block
                                 /\ chain'.finalized \in Ancestors[chain.finalized]
    <3>1. chain.finalized \in Block \cup {Null}
      BY ShapeFacts
    <3>2. Parent[chain.tip] \in Ancestors[chain.tip]
      BY SelfAncestor
    <3> QED
      BY <3>1, <3>2, NullOutside, SelfAncestor
  <2> ASSUME chain'.finalized # Null
      PROVE  chain'.finalized \in Ancestors[chain'.tip]
    <3>1. chain.finalized \in Ancestors[chain.tip]
      BY DEF Final
    <3> QED
      BY <3>1, SelfAncestor
  <2> ASSUME chain'.finalized # Null, abc.mostWork # Null
      PROVE  chain'.finalized \in Ancestors[abc.mostWork]
    <3>1. chain.finalized \in Ancestors[abc.mostWork]
      BY DEF Final
    <3>2. abc.mostWork \in Block
      BY ShapeFacts DEF Shape, InHand
    <3> QED
      BY <3>1, <3>2, AncestorsTransitive
  <2> QED
    BY DEF Final
<1> CASE UnwindBlock_Mark
  <2> abc' = abc
    BY DEF UnwindBlock_Mark
  <2>2. chain' = chain \/ chain' = InvalidChainFound(chain, unwind.mark)
    BY DEF UnwindBlock_Mark
  <2>3. unwind.mark \in Block \ {Genesis}
    <3>1. unwind.pc # "idle"
      BY DEF UnwindBlock_Mark
    <3> QED
      BY <3>1, UnwindFacts
  <2> CASE chain' = chain
    BY FinalSame
  <2> CASE chain' = InvalidChainFound(chain, unwind.mark)
    <3>1. /\ chain'.tip = chain.tip
          /\ chain'.finalized # Null => /\ chain.finalized # Null
                                        /\ chain'.finalized \in Ancestors[chain.finalized]
      BY <2>3, ShapeFacts, InvalidChainBelow
    <3> QED
      BY <3>1, FinalBelow
  <2> QED
    BY <2>2
<1> QED
  BY DEF Unwinding

LEMMA FinalOperator ==
  ASSUME Counting, Shape, Final, "finalize" \notin Commands, Operator
  PROVE  Final'
<1> CASE \E b \in Block : \/ \E c \in Commands : UnwindBlock(c, b)
                          \/ Unpark(b) \/ PreciousBlock(b)
  BY FinalSame DEF UnwindBlock, Unpark, PreciousBlock
<1> ASSUME NEW b \in Block, ReconsiderBlock(b)
    PROVE  Final'
  <2> /\ abc' = abc
      /\ chain' = [chain EXCEPT !.finalized = IF @ = Null THEN Null ELSE LastCommonAncestor(b, @)]
    BY DEF ReconsiderBlock
  <2> chain \in ChainOf(Known(index)) /\ chain.finalized \in Block \cup {Null}
    BY ShapeFacts
  <2>3. /\ chain'.tip = chain.tip
        /\ chain'.finalized = IF chain.finalized = Null THEN Null ELSE LastCommonAncestor(b, chain.finalized)
    BY DEF ChainOf
  <2>4. chain.finalized # Null => LastCommonAncestor(b, chain.finalized) \in Ancestors[chain.finalized]
    BY LastCommonAncestorShared
  <2> QED
    BY <2>3, <2>4, FinalBelow
<1>3. \A b \in Block : ~FinalizeBlock(b)
  BY DEF FinalizeBlock, Command
<1> QED
  BY <1>3 DEF Operator

LEMMA FinalStep ==
  ASSUME Counting, Shape, Final, "finalize" \notin Commands, [Next]_vars
  PROVE  Final'
<1> CASE Arrival
  <2>1. \A b \in Block : AcceptBlockHeader(b) => chain'.tip = chain.tip /\ chain'.finalized = chain.finalized
    BY ShapeFacts DEF AcceptBlockHeader, ChainOf
  <2>2. chain'.tip = chain.tip /\ chain'.finalized = chain.finalized /\ abc' = abc
    BY <2>1 DEF Arrival, AcceptBlockHeader, AcceptBlockHeader_Rejects, AcceptBlock,
       AcceptBlock_Fails
  <2> QED
    BY <2>2, FinalSame
<1> CASE FlushBlockIndex \/ UNCHANGED vars
  BY FinalSame DEF FlushBlockIndex, vars
<1> CASE Restart
  <2>1. chain'.finalized = Null
    BY DEF Restart
  <2> QED
    BY <2>1 DEF Final
<1> QED
  BY FinalActivation, FinalOperator, FinalUnwinding DEF Next

\* No step taken under one hold of cs_main by ActivateBestChain takes the
\* finalized block off the chain.
LEMMA FinalizedStaysStep ==
  ASSUME Counting, Shape, Final, [Next]_vars, abc.pc = "step", chain.finalized # Null
  PROVE  chain.finalized \in Ancestors[chain'.tip]
<1> chain.finalized \in Ancestors[chain.tip]
  BY DEF Final
<1> ~CsMainFree /\ abc.pc # "find"
  BY DEF CsMainFree
<1> CASE ActivateBestChainStep_DisconnectTip
  BY FinalStepDown DEF Final
<1> ASSUME NEW b \in Block, ConnectTip_Invalid(b)
    PROVE  chain'.tip = chain.tip
  <2> b # Genesis /\ abc.low \in Block \ {Genesis}
    BY ToConnectFacts DEF ConnectTip_Invalid
  <2>2. chain' = InvalidChainFound(InvalidChainFound(chain, b), abc.low)
    BY DEF ConnectTip_Invalid
  <2> Known(index) \in SUBSET Block /\ ClosedUnderParent(Known(index)) /\ chain \in ChainOf(Known(index))
    BY ShapeFacts
  <2>4. /\ InvalidChainFound(chain, b) \in ChainOf(Known(index))
        /\ InvalidChainFound(chain, b).tip = chain.tip
    BY InvalidChainBelow
  <2> QED
    BY <2>2, <2>4, InvalidChainBelow
<1> ASSUME NEW b \in Block, ConnectTip(b)
    PROVE  chain.finalized \in Ancestors[chain'.tip]
  BY FinalConnect
<1> CASE Activation
  <2>1. ~ActivateBestChain /\ ~ActivateBestChain_Lock
    BY DEF ActivateBestChain, ActivateBestChain_Lock
  <2>2. ~FindMostWorkChain /\ ~FindMostWorkChain_Rejects
    BY DEF FindMostWorkChain, FindMostWorkChain_Rejects
  <2>3. \A b \in Block : ConnectTip_CannotFinalize(b) => chain' = chain
    BY DEF ConnectTip_CannotFinalize
  <2> QED
    BY <2>1, <2>2, <2>3 DEF Activation
<1>7. ~Arrival /\ ~FlushBlockIndex /\ ~Restart
  BY DEF Arrival, AcceptBlockHeader, AcceptBlockHeader_Rejects, AcceptBlock, AcceptBlock_Fails,
     HeaderReaches, BlockReaches, FlushBlockIndex, Restart
<1>8. ~Operator /\ ~Unwinding
  BY DEF Operator, UnwindBlock, ReconsiderBlock, Unpark, PreciousBlock, FinalizeBlock, Command,
     Unwinding, UnwindBlock_Disconnect, UnwindBlock_Leave, UnwindBlock_Mark
<1> CASE UNCHANGED vars
  BY DEF vars
<1> QED
  BY <1>7, <1>8 DEF Next

-----------------------------------------------------------------------------
(* The active chain is valid.                                                *)

\* No block of the chain of t is marked invalid.
Sound(t) == \A x \in Ancestors[t] : ~IsInvalid(index, x)

\* Marks of invalid blocks are added, if at all, off the chains in use.
LEMMA ValidFrom ==
  ASSUME Valid, chain'.tip \in Block, abc'.mostWork # Null => abc'.mostWork \in Block,
         index.failed \in SUBSET Block,
         Sound(chain'.tip), abc'.mostWork # Null => Sound(abc'.mostWork),
         \A x \in Block : \A f \in INVALID_MASK : f \in index.flags[x] => f \in index'.flags[x],
         \A x \in Block : IsInvalid(index', x) =>
           \/ IsInvalid(index, x)
           \/ x \notin Ancestors[chain'.tip] /\ (abc'.mostWork # Null => x \notin Ancestors[abc'.mostWork]),
         index.linked \subseteq index'.linked, index.dirty \subseteq index'.dirty, disk' = disk,
         \A x \in index'.failed : x \in index.failed \/ (x \in index'.linked /\ Durable(index', disk', x)),
         unwind'.pc # "idle" => unwind'.own = PARKED
  PROVE  Valid'
<1>1. \A x \in Ancestors[chain'.tip] : ~IsInvalid(index', x)
  BY AncestorsInBlock DEF Sound
<1>2. abc'.mostWork # Null => \A x \in Ancestors[abc'.mostWork] : ~IsInvalid(index', x)
  BY AncestorsInBlock DEF Sound
<1>3. \A x \in index'.failed : x \in index'.linked /\ Durable(index', disk', x)
  <2>1. \A x \in index.failed : x \in Block /\ x \in index.linked /\ Durable(index, disk, x)
    BY DEF Valid
  <2>2. \A x \in index.failed : x \in index'.linked /\ Durable(index', disk', x)
    BY <2>1, FlagsDiffer DEF Durable
  <2> QED
    BY <2>2
<1>4. \A x \in Block \ index'.dirty : disk'[x].flags \cap INVALID_MASK \subseteq index'.flags[x]
  <2>1. \A x \in Block \ index.dirty : disk[x].flags \cap INVALID_MASK \subseteq index.flags[x]
    BY DEF Valid
  <2> QED
    BY <2>1
<1> QED
  BY <1>1, <1>2, <1>3, <1>4 DEF Valid

\* No mark of an invalid block is added or removed.
LEMMA ValidSame ==
  ASSUME Valid, chain'.tip \in Block, abc'.mostWork # Null => abc'.mostWork \in Block,
         index.failed \in SUBSET Block,
         Sound(chain'.tip), abc'.mostWork # Null => Sound(abc'.mostWork),
         \A x \in Block : \A f \in INVALID_MASK : f \in index'.flags[x] <=> f \in index.flags[x],
         index.linked \subseteq index'.linked, index.dirty \subseteq index'.dirty, disk' = disk,
         index'.failed \subseteq index.failed,
         unwind'.pc # "idle" => unwind'.own = PARKED
  PROVE  Valid'
<1>1. \A x \in Block : IsInvalid(index', x) => IsInvalid(index, x)
  BY DEF IsInvalid
<1> QED
  BY <1>1, ValidFrom

LEMMA ValidFacts ==
  ASSUME Shape, Valid
  PROVE  /\ chain.tip \in Block /\ (abc.mostWork # Null => abc.mostWork \in Block)
         /\ Sound(chain.tip) /\ (abc.mostWork # Null => Sound(abc.mostWork))
         /\ index.failed \in SUBSET Block /\ (unwind.pc # "idle" => unwind.own = PARKED)
<1> chain.tip \in Block /\ index \in BlockIndex
  BY ShapeFacts
<1>2. abc.mostWork # Null => abc.mostWork \in Block
  BY ShapeFacts DEF Shape, InHand
<1>3. index.failed \in SUBSET Block
  BY IndexFields
<1> QED
  BY <1>2, <1>3 DEF Valid, Sound

LEMMA SoundBelow ==
  ASSUME NEW t \in Block, NEW u \in Ancestors[t], Sound(t)
  PROVE  Sound(u)
BY AncestorsTransitive DEF Sound

\* The chains in use consist of linked blocks.
LEMMA ChainsLinked ==
  ASSUME Shape
  PROVE  /\ Ancestors[chain.tip] \subseteq index.linked
         /\ abc.mostWork # Null => Ancestors[abc.mostWork] \subseteq index.linked
<1>1. index.linked \in SUBSET Block /\ chain.tip \in index.linked
  BY ShapeFacts
<1>2. ClosedUnderParent(index.linked)
  BY DEF Shape, Rooted
<1>3. abc.mostWork # Null => abc.mostWork \in index.linked
  BY DEF Shape, InHand
<1> QED
  BY <1>1, <1>2, <1>3, ChainInClosed

LEMMA ValidArrival ==
  ASSUME Counting, Shape, Valid, Arrival
  PROVE  Valid'
<1> /\ chain'.tip = chain.tip /\ UNCHANGED <<abc, unwind, disk>>
  <2>1. \A b \in Block : AcceptBlockHeader(b) => chain'.tip = chain.tip
    BY ShapeFacts DEF AcceptBlockHeader, ChainOf
  <2> QED
    BY <2>1 DEF Arrival, AcceptBlockHeader, AcceptBlockHeader_Rejects, AcceptBlock,
       AcceptBlock_Fails
<1> /\ chain'.tip \in Block /\ (abc'.mostWork # Null => abc'.mostWork \in Block)
    /\ Sound(chain'.tip) /\ (abc'.mostWork # Null => Sound(abc'.mostWork))
    /\ index.failed \in SUBSET Block /\ (unwind'.pc # "idle" => unwind'.own = PARKED)
  BY ValidFacts
<1> ASSUME NEW b \in Block, AcceptBlockHeader(b)
    PROVE  Valid'
  <2>1. /\ index'.flags = index.flags /\ index'.linked = index.linked
        /\ index'.failed = index.failed /\ index'.dirty = index.dirty \cup {b}
    BY ShapeFacts, HeaderEffect
  <2> QED
    BY <2>1, ValidSame
<1> ASSUME NEW b \in Block, AcceptBlockHeader_Rejects(b)
    PROVE  Valid'
  <2> PICK f \in FailedBelow(b) :
        /\ index'.linked = index.linked /\ index'.failed = index.failed
        /\ index.dirty \subseteq index'.dirty
        /\ \A x \in Block : index'.flags[x] = IF x \in Ancestors[Parent[b]] \ Ancestors[f]
                                              THEN index.flags[x] \cup {FAILED_PARENT}
                                              ELSE index.flags[x]
    BY ShapeFacts, RejectsEffect
  <2>2. Parent[b] \in Block
    BY DEF AcceptBlockHeader_Rejects, HeaderReaches, Known
  <2> f \in index.failed /\ f \in Ancestors[Parent[b]]
    BY DEF FailedBelow
  <2>4. IsInvalid(index, f) /\ f \in Block
    BY FlagsDiffer DEF Valid, Durable, IsInvalid
  <2>5. \A x \in Ancestors[Parent[b]] \ Ancestors[f] : f \in Ancestors[x]
    BY <2>2, AncestorsLinear
  <2>6. \A t \in Block : Sound(t) => \A x \in Ancestors[t] : x \notin Ancestors[Parent[b]] \ Ancestors[f]
    BY <2>4, <2>5, AncestorsTransitive DEF Sound
  <2>7. \A x \in Block : IsInvalid(index', x) =>
          \/ IsInvalid(index, x)
          \/ x \notin Ancestors[chain'.tip] /\ (abc'.mostWork # Null => x \notin Ancestors[abc'.mostWork])
    BY <2>6 DEF IsInvalid
  <2>8. \A x \in Block : \A g \in INVALID_MASK : g \in index.flags[x] => g \in index'.flags[x]
    OBVIOUS
  <2> QED
    BY <2>7, <2>8, ValidFrom
<1> ASSUME NEW b \in Block, AcceptBlock(b)
    PROVE  Valid'
  <2> /\ \A x \in Block \ {b} : index'.flags[x] = index.flags[x]
      /\ \E park \in {{}, {PARKED}} : index'.flags[b] = index.flags[b] \cup {DATA} \cup park
      /\ index'.dirty = index.dirty \cup {b} /\ index'.failed = index.failed
      /\ index.linked \subseteq index'.linked
    BY AcceptBlockEffect DEF BlockStored, BlockLinked, BlockWaits
  <2>2. \A g \in INVALID_MASK : g \in index'.flags[b] <=> g \in index.flags[b]
    BY FlagsDiffer
  <2>3. \A x \in Block : \A g \in INVALID_MASK : g \in index'.flags[x] <=> g \in index.flags[x]
    BY <2>2
  <2> QED
    BY <2>3, ValidSame
<1> ASSUME NEW b \in Block, AcceptBlock_Fails(b)
    PROVE  Valid'
  <2> /\ index'.flags = [index.flags EXCEPT ![b] = @ \cup {FAILED}]
      /\ index'.linked = index.linked /\ index'.failed = index.failed
      /\ index'.dirty = index.dirty \cup {b}
    BY ShapeFacts, FailsEffect
  <2> \A x \in Block : index'.flags[x] = IF x = b THEN index.flags[x] \cup {FAILED} ELSE index.flags[x]
    <3>1. index.flags \in [Block -> SUBSET Flag]
      BY ShapeFacts
    <3> QED
      BY <3>1, AddFlag, ZenonT(60)
  <2>3. b \notin index.linked
    BY DEF AcceptBlock_Fails, BlockReaches, Shape, Rooted
  <2>4. b \notin Ancestors[chain'.tip] /\ (abc'.mostWork # Null => b \notin Ancestors[abc'.mostWork])
    BY <2>3, ChainsLinked
  <2>5. \A x \in Block : IsInvalid(index', x) =>
          \/ IsInvalid(index, x)
          \/ x \notin Ancestors[chain'.tip] /\ (abc'.mostWork # Null => x \notin Ancestors[abc'.mostWork])
    BY <2>4 DEF IsInvalid
  <2>6. \A x \in Block : \A g \in INVALID_MASK : g \in index.flags[x] => g \in index'.flags[x]
    OBVIOUS
  <2> QED
    BY <2>5, <2>6, ValidFrom
<1> QED
  BY DEF Arrival

\* The block chosen by FindMostWorkChain has a sound chain.
LEMMA ValidFind ==
  ASSUME Counting, Shape, Final, Valid, FindMostWorkChain
  PROVE  Valid'
<1> UNCHANGED <<unwind, disk>>
  BY DEF FindMostWorkChain
<1> CASE abc' = Idle /\ UNCHANGED <<index, chain>>
  <2>1. abc'.mostWork = Null
    BY DEF Idle
  <2> QED
    BY <2>1, ValidFacts, ValidSame
<1> CASE ~(abc' = Idle /\ UNCHANGED <<index, chain>>)
  <2> PICK b \in Block :
        /\ b = chain.tip \/ b \notin Ancestors[chain.tip]
        /\ Unusable(Examined(b), b) = {} /\ index' = Examined(b)
        /\ chain' = IF Conflicts(b) THEN InvalidChainFound(chain, b) ELSE chain
        /\ abc'.mostWork = IF b = chain.tip THEN Null ELSE b
    BY FindFacts
  <2> ~Conflicts(b) /\ chain' = chain
    BY ChosenAgrees
  <2>3. Looked(index', b)
    BY ExaminedEffect
  <2> /\ index'.linked = index.linked /\ index'.failed \subseteq index.failed
      /\ index.dirty \subseteq index'.dirty
      /\ \A x \in Block : \A f \in INVALID_MASK : f \in index'.flags[x] <=> f \in index.flags[x]
    BY <2>3 DEF Looked, Marks
  <2>5. Sound(b)
    <3>1. \A x \in PathTo(b) : ~IsInvalid(index', x)
      BY DEF Unusable
    <3>2. \A x \in Block : IsInvalid(index, x) => IsInvalid(index', x)
      BY DEF IsInvalid
    <3>3. \A x \in Ancestors[chain.tip] : ~IsInvalid(index, x)
      BY DEF Valid
    <3> QED
      BY <3>1, <3>2, <3>3, AncestorsInBlock DEF Sound, PathTo
  <2> QED
    BY <2>5, ValidFacts, ValidSame
<1> QED
  OBVIOUS

\* What is marked when a candidate is dropped lies above the active chain, and
\* no mark of an invalid block is taken away: those above the highest unusable
\* block have none.
LEMMA DroppedInvalid ==
  ASSUME Counting, Shape, NEW b \in Block, NEW ix, NEW bad, Dropped(ix, b, bad)
  PROVE  /\ \A x \in Block : \A f \in INVALID_MASK : f \in index.flags[x] => f \in index'.flags[x]
         /\ \A x \in Block : IsInvalid(index', x) => IsInvalid(index, x) \/ x \notin Ancestors[chain.tip]
         /\ \A x \in Block : \/ \A f \in INVALID_MASK : f \in index'.flags[x] <=> f \in index.flags[x]
                             \/ x \in Ancestors[b]
<1>1. /\ Looked(ix, b) /\ bad \in PathTo(b)
      /\ \A y \in Unusable(ix, b) : Height[y] <= Height[bad]
      /\ \A x \in Block :
           index'.flags[x] = IF x \in Ancestors[b] \ Ancestors[bad]
                             THEN (ix.flags[x] \ {FAILED_PARENT, PARKED_PARENT})
                                    \cup (IF IsInvalid(ix, bad) THEN {FAILED_PARENT} ELSE {})
                                    \cup (IF IsOnParkedChain(ix, bad) THEN {PARKED_PARENT} ELSE {})
                             ELSE ix.flags[x]
  BY DEF Dropped
<1> chain.tip \in Block /\ bad \in Ancestors[b] /\ bad \in Block /\ bad \notin Ancestors[chain.tip]
  BY <1>1, ShapeFacts, AncestorsInBlock DEF PathTo
<1> b \notin Ancestors[chain.tip] /\ b \in Ancestors[b]
  BY AncestorsTransitive, SelfAncestor
<1> \A x \in Block : \A f \in INVALID_MASK :
      f \in ix.flags[x] <=> f \in index.flags[x] \/ (x = b /\ f = FAILED /\ Conflicts(b))
  BY <1>1 DEF Looked
<1> ASSUME NEW x \in Ancestors[b] \ Ancestors[bad]
    PROVE  x \in Block /\ x \notin Ancestors[chain.tip] /\ ~IsInvalid(ix, x)
  <2> x \in Block /\ bad \in Ancestors[x]
    BY AncestorsLinear, AncestorsInBlock
  <2>2. x \notin Ancestors[chain.tip]
    BY AncestorsTransitive
  <2>3. Height[bad] \in Nat /\ Height[x] \in Nat /\ (bad = x \/ Height[bad] < Height[x])
    BY AncestorsLower
  <2>4. bad # x
    BY SelfAncestor
  <2>5. ~(Height[x] <= Height[bad])
    BY <2>3, <2>4, SMTT(30)
  <2>6. x \notin Unusable(ix, b)
    BY <1>1, <2>5
  <2> QED
    BY <2>2, <2>6 DEF Unusable, PathTo
<1> \A x \in Block : x \notin Ancestors[b] \ Ancestors[bad] => index'.flags[x] = ix.flags[x]
  BY <1>1
<1>7. \A x \in Ancestors[b] \ Ancestors[bad] : \A f \in INVALID_MASK : f \notin index.flags[x]
  BY DEF IsInvalid
<1>8. \A x \in Block : \A f \in INVALID_MASK : f \in index.flags[x] => f \in index'.flags[x]
  BY <1>7
<1>9. \A x \in Block : IsInvalid(index', x) => IsInvalid(index, x) \/ x \notin Ancestors[chain.tip]
  <2> ASSUME NEW x \in Block, x \notin Ancestors[b] \ Ancestors[bad], IsInvalid(index', x)
      PROVE  IsInvalid(index, x) \/ x = b
    BY DEF IsInvalid
  <2> QED
    OBVIOUS
<1>10. \A x \in Block : \/ \A f \in INVALID_MASK : f \in index'.flags[x] <=> f \in index.flags[x]
                        \/ x \in Ancestors[b]
  OBVIOUS
<1> QED
  BY <1>8, <1>9, <1>10

LEMMA ValidDrops ==
  ASSUME Counting, Shape, Valid, FindMostWorkChain_Rejects
  PROVE  Valid'
<1> PICK b, ix, bad : /\ b \in Block /\ Dropped(ix, b, bad)
                      /\ chain' = IF Conflicts(b) THEN InvalidChainFound(chain, b) ELSE chain
  BY DropsEffect
<1> abc.pc = "find" /\ UNCHANGED <<abc, unwind, disk>> /\ chain'.tip = chain.tip
  BY LookedChain DEF FindMostWorkChain_Rejects
<1>3. abc'.mostWork = Null
  BY DEF Shape, InHand
<1>4. /\ index'.linked = index.linked /\ index'.failed \subseteq index.failed
      /\ index.dirty \subseteq index'.dirty
  BY DEF Dropped, Looked, Marks
<1>5. /\ \A x \in Block : \A f \in INVALID_MASK : f \in index.flags[x] => f \in index'.flags[x]
      /\ \A x \in Block : IsInvalid(index', x) => IsInvalid(index, x) \/ x \notin Ancestors[chain.tip]
  BY DroppedInvalid
<1> QED
  BY <1>3, <1>4, <1>5, ValidFacts, ValidFrom

LEMMA ValidConnect ==
  ASSUME Counting, Shape, Valid, NEW b \in Block, ConnectTip(b) \/ ConnectTip_CannotFinalize(b)
  PROVE  Valid'
<1> /\ abc.mostWork \in Block /\ abc.mostWork # Null /\ b \in Ancestors[abc.mostWork]
    /\ abc.start \in Block /\ (abc.mostWork = b \/ abc.mostWork \notin Ancestors[b])
    /\ abc.mostWork \in index.linked
  BY ToConnectFacts DEF ConnectTip, ConnectTip_CannotFinalize
<1>2. Sound(chain.tip) /\ Sound(abc.mostWork) /\ Sound(b)
  BY ValidFacts, SoundBelow
<1>3. abc'.mostWork \in {abc.mostWork, Null}
  <2> /\ abc \in Activating /\ index.linked \in SUBSET Block
    BY ShapeFacts
  <2>2. EndStep(abc, index, b, abc.mostWork).mostWork \in {abc.mostWork, Null}
    BY EndStepInHand
  <2>3. [abc EXCEPT !.low = NextTowards(b, abc.mostWork)].mostWork = abc.mostWork
    BY DEF Activating
  <2>4. EndStep(abc, index, chain.tip, Null).mostWork = Null
    BY DEF EndStep, Idle, Activating
  <2> QED
    BY <2>2, <2>3, <2>4 DEF ConnectTip, ConnectTip_CannotFinalize
<1>4. chain'.tip \in {chain.tip, b}
  <2> CASE ConnectTip(b)
    <3>1. PICK ch, f : /\ chain' = [ch EXCEPT !.tip = b]
                       /\ ch = chain \/ ch = [chain EXCEPT !.finalized = f]
      BY DEF ConnectTip, FinalizeBlockInternal
    <3>2. chain \in ChainOf(Known(index))
      BY ShapeFacts
    <3>3. [chain EXCEPT !.tip = b].tip = b /\ [[chain EXCEPT !.finalized = f] EXCEPT !.tip = b].tip = b
      BY <3>2 DEF ChainOf
    <3> QED
      BY <3>1, <3>3
  <2> CASE ConnectTip_CannotFinalize(b)
    BY DEF ConnectTip_CannotFinalize
  <2> QED
    OBVIOUS
<1>5. /\ index'.flags = index.flags /\ index'.linked = index.linked
      /\ index'.failed = index.failed /\ index.dirty \subseteq index'.dirty
  <2> DEFINE iy == ScriptsValid(index, b)
  <2> /\ iy \in BlockIndex /\ iy.flags = index.flags /\ iy.linked = index.linked
      /\ iy.failed = index.failed /\ index.dirty \subseteq iy.dirty
    BY ShapeFacts, ScriptsValidFields
  <2>2. index' = iy \/ index' = PruneBlockIndexCandidates(iy, b)
    BY DEF ConnectTip, ConnectTip_CannotFinalize
  <2> HIDE DEF iy
  <2>3. LET iz == PruneBlockIndexCandidates(iy, b)
        IN  iz.flags = iy.flags /\ iz.linked = iy.linked /\ iz.failed = iy.failed /\ iz.dirty = iy.dirty
    BY PruneFields
  <2> QED
    BY <2>2, <2>3
<1>6. UNCHANGED <<unwind, disk>>
  BY DEF ConnectTip, ConnectTip_CannotFinalize
<1> QED
  BY <1>2, <1>3, <1>4, <1>5, <1>6, ValidFacts, ValidSame

LEMMA ValidConnectInvalid ==
  ASSUME Counting, Shape, Valid, NEW b \in Block, ConnectTip_Invalid(b)
  PROVE  Valid'
<1>1. b # Genesis /\ abc.low \in Block \ {Genesis} /\ Parent[b] = chain.tip /\ b \in index.linked
  BY ToConnectFacts DEF ConnectTip_Invalid
<1> UNCHANGED <<unwind, disk>> /\ chain' = InvalidChainFound(InvalidChainFound(chain, b), abc.low)
    /\ abc' = EndStep(abc, index, chain.tip, Null) /\ index' = InvalidBlockFound(index, b)
  BY DEF ConnectTip_Invalid
<1>3. chain'.tip = chain.tip
  <2> Known(index) \in SUBSET Block /\ ClosedUnderParent(Known(index)) /\ chain \in ChainOf(Known(index))
    BY ShapeFacts
  <2>2. /\ InvalidChainFound(chain, b) \in ChainOf(Known(index))
        /\ InvalidChainFound(chain, b).tip = chain.tip
    BY <1>1, InvalidChainBelow
  <2> QED
    BY <1>1, <2>2, InvalidChainBelow
<1>4. abc'.mostWork = Null
  <2>1. abc \in Activating
    BY ShapeFacts
  <2> QED
    BY <2>1 DEF EndStep, Idle, Activating
<1>5. /\ index'.flags = [index.flags EXCEPT ![b] = @ \cup {FAILED}]
      /\ index'.linked = index.linked /\ index'.failed = index.failed \cup {b}
      /\ index'.dirty = index.dirty \cup {b}
  BY ShapeFacts, InvalidBlockFoundFields
<1>6. \A x \in Block : index'.flags[x] = IF x = b THEN index.flags[x] \cup {FAILED} ELSE index.flags[x]
  BY <1>5, ShapeFacts, AddFlag
<1>7. b \notin Ancestors[chain.tip]
  <2>1. Height[b] = Height[chain.tip] + 1 /\ Height[b] \in Nat /\ Height[chain.tip] \in Nat
    BY <1>1, ShapeFacts, BlockTreeAssumption
  <2>2. b \in Ancestors[chain.tip] => b = chain.tip \/ Height[b] < Height[chain.tip]
    BY ShapeFacts, AncestorsLower
  <2> QED
    BY <2>1, <2>2, SMTT(30)
<1>8. \A x \in Block : IsInvalid(index', x) => IsInvalid(index, x) \/ x \notin Ancestors[chain.tip]
  BY <1>6, <1>7 DEF IsInvalid
<1>9. \A x \in Block : \A f \in INVALID_MASK : f \in index.flags[x] => f \in index'.flags[x]
  BY <1>6
<1>10. \A x \in index'.failed : x \in index.failed \/ (x \in index'.linked /\ Durable(index', disk', x))
  BY <1>1, <1>5, <1>6 DEF Durable
<1> QED
  BY <1>3, <1>4, <1>5, <1>8, <1>9, <1>10, ValidFacts, ValidFrom

LEMMA ValidActivation ==
  ASSUME Counting, Shape, Final, Valid, Activation
  PROVE  Valid'
<1> CASE ActivateBestChain \/ ActivateBestChain_Lock
  <2>1. abc'.mostWork \in {abc.mostWork, Null}
    <3> abc \in Activating
      BY ShapeFacts
    <3>2. ActivateBestChain => abc'.mostWork = abc.mostWork
      BY DEF ActivateBestChain, Activating
    <3>3. ActivateBestChain_Lock => abc'.mostWork \in {abc.mostWork, Null}
      BY SMTT(30) DEF ActivateBestChain_Lock, Activating, Idle, BeginStep
    <3> QED
      BY <3>2, <3>3
  <2>2. UNCHANGED <<index, chain, unwind, disk>>
    BY DEF ActivateBestChain, ActivateBestChain_Lock
  <2> QED
    BY <2>1, <2>2, ValidFacts, ValidSame
<1> CASE ActivateBestChainStep_DisconnectTip
  <2> /\ abc.pc = "step" /\ chain.tip \notin Ancestors[abc.mostWork]
      /\ chain' = Disconnected(chain) /\ UNCHANGED <<index, abc, unwind, disk>>
    BY DEF ActivateBestChainStep_DisconnectTip
  <2>2. chain.tip # Genesis
    <3>1. abc.mostWork \in Block
      BY DEF Shape, InHand
    <3> QED
      BY <3>1, GenesisInAncestors
  <2> chain'.tip \in Ancestors[chain.tip] /\ chain'.tip \in Block
    BY <2>2, ShapeFacts, DisconnectShape, AncestorsInBlock
  <2>4. Sound(chain'.tip)
    BY ValidFacts, SoundBelow
  <2> QED
    BY <2>4, ValidFacts, ValidSame
<1> QED
  BY ValidFind, ValidDrops, ValidConnect, ValidConnectInvalid DEF Activation

\* Parking leaves the marks of invalid blocks alone.
LEMMA ValidUnwinding ==
  ASSUME Counting, Shape, Valid, Unwinding
  PROVE  Valid'
<1> CASE UnwindBlock_Leave
  <2>1. UNCHANGED <<index, chain, abc, disk>> /\ unwind.pc # "idle"
    BY DEF UnwindBlock_Leave
  <2>2. unwind'.own = unwind.own
    BY DEF UnwindBlock_Leave, Shape, InUnwind
  <2> QED
    BY <2>1, <2>2, ValidFacts, ValidSame
<1> CASE UnwindBlock_Disconnect
  <2>1. unwind.pc # "idle" /\ UNCHANGED <<abc, disk>> /\ chain' = Disconnected(chain)
    BY DEF UnwindBlock_Disconnect
  <2>2. unwind'.own = unwind.own
    BY DEF UnwindBlock_Disconnect, Shape, InUnwind
  <2> unwind.own = PARKED
    BY <2>1, ValidFacts
  <2> /\ Unwound(chain.tip, unwind.mark, PARKED) /\ chain.tip # Genesis
    BY UnwoundEffect
  <2>5. OfParent(PARKED) = PARKED_PARENT
    BY FlagsDiffer DEF OfParent, PARKED, FAILED
  <2>6. /\ index'.linked = index.linked /\ index'.failed = index.failed /\ index.dirty \subseteq index'.dirty
    BY DEF Unwound
  <2>7. \A x \in Block : \/ index'.flags[x] = index.flags[x] \cup {PARKED}
                         \/ index'.flags[x] = (index.flags[x] \ {PARKED}) \cup {PARKED_PARENT}
                         \/ index'.flags[x] = index.flags[x]
    BY <2>5 DEF Unwound
  <2>8. \A x \in Block : \A f \in INVALID_MASK : f \in index'.flags[x] <=> f \in index.flags[x]
    BY <2>7, FlagsDiffer
  <2> chain'.tip \in Ancestors[chain.tip] /\ chain'.tip \in Block
    BY <2>1, ShapeFacts, DisconnectShape, AncestorsInBlock
  <2>10. Sound(chain'.tip)
    BY ValidFacts, SoundBelow
  <2> QED
    BY <2>1, <2>2, <2>6, <2>8, <2>10, ValidFacts, ValidSame
<1> CASE UnwindBlock_Mark
  <2> unwind.pc # "idle" /\ UNCHANGED <<abc, disk>>
    BY DEF UnwindBlock_Mark
  <2> unwind.own = PARKED
    BY ValidFacts
  <2> PARKED # FAILED
    BY FlagsDiffer
  <2> unwind'.pc = "idle"
    BY DEF UnwindBlock_Mark, NotUnwinding
  <2> CASE unwind.mark \in Ancestors[chain.tip]
    <3>1. UNCHANGED <<index, chain>>
      BY DEF UnwindBlock_Mark
    <3> QED
      BY <3>1, ValidFacts, ValidSame
  <2> CASE unwind.mark \notin Ancestors[chain.tip]
    <3>1. chain' = chain
      BY DEF UnwindBlock_Mark
    <3>2. Marked(unwind.mark, PARKED)
      BY MarkedEffect
    <3> /\ index'.linked = index.linked /\ index'.failed = index.failed /\ index.dirty \subseteq index'.dirty
        /\ \A x \in Block : index'.flags[x] = index.flags[x] \cup {PARKED} \/ index'.flags[x] = index.flags[x]
      BY <3>2 DEF Marked
    <3>4. \A x \in Block : \A f \in INVALID_MASK : f \in index'.flags[x] <=> f \in index.flags[x]
      BY FlagsDiffer, ZenonT(60)
    <3> QED
      BY <3>1, <3>4, ValidFacts, ValidSame
  <2> QED
    OBVIOUS
<1> QED
  BY DEF Unwinding

\* The commands of an operator who marks nothing as invalid.
LEMMA HarmlessCommands ==
  ASSUME Commands \subseteq Harmless, Operator
  PROVE  \E b \in Block : UnwindBlock("park", b) \/ Unpark(b) \/ PreciousBlock(b)
<1> \A c \in Commands : c = "park" \/ c = "unpark" \/ c = "precious"
  BY DEF Harmless
<1>2. "reconsider" \notin Commands /\ "finalize" \notin Commands
  OBVIOUS
<1>3. \A b \in Block : ~ReconsiderBlock(b) /\ ~FinalizeBlock(b)
  BY <1>2 DEF ReconsiderBlock, FinalizeBlock, Command
<1> ASSUME NEW b \in Block, NEW c \in Commands, UnwindBlock(c, b)
    PROVE  c = "park"
  <2>1. c = "invalidate" \/ c = "park"
    BY DEF UnwindBlock
  <2> QED
    BY <2>1
<1> QED
  BY <1>3 DEF Operator

LEMMA ValidOperator ==
  ASSUME Counting, Shape, Valid, Commands \subseteq Harmless, Operator
  PROVE  Valid'
<1> index \in BlockIndex /\ chain.tip \in Block
  BY ShapeFacts
<1>1. PICK b \in Block : UnwindBlock("park", b) \/ Unpark(b) \/ PreciousBlock(b)
  BY HarmlessCommands
<1> CASE UnwindBlock("park", b)
  <2>1. UNCHANGED <<index, chain, abc, disk>> /\ unwind'.own = PARKED
    BY DEF UnwindBlock
  <2> QED
    BY <2>1, ValidFacts, ValidSame
<1> CASE Unpark(b)
  <2>1. UNCHANGED <<chain, abc, unwind, disk>>
    BY DEF Unpark
  <2> Updated(index, index', chain.tip, b, PARKED_MASK, PARKED_MASK, {PARKED_PARENT})
    BY ShapeUnpark
  <2>3. \A x \in Block : \A f \in INVALID_MASK : f \in index'.flags[x] <=> f \in index.flags[x]
    BY MasksAreFlags, UnparkKeeps
  <2>4. index'.linked = index.linked /\ index'.failed \subseteq index.failed /\ index.dirty \subseteq index'.dirty
    BY DEF Updated
  <2> QED
    BY <2>1, <2>3, <2>4, ValidFacts, ValidSame
<1> CASE PreciousBlock(b)
  <2>1. UNCHANGED <<chain, abc, unwind, disk>>
    BY DEF PreciousBlock
  <2> PICK i1, i2 \in BlockIndex :
        /\ i1.flags = index.flags /\ i1.linked = index.linked
        /\ i1.failed = index.failed /\ i1.dirty = index.dirty
        /\ Updated(i1, i2, chain.tip, b, PARKED_MASK, {PARKED_PARENT}, {PARKED_PARENT})
        /\ index'.flags = i2.flags /\ index'.linked = i2.linked
        /\ index'.failed = i2.failed /\ index'.dirty = i2.dirty
    BY PreciousEffect
  <2>3. \A x \in Block : \A f \in INVALID_MASK : f \in i2.flags[x] <=> f \in i1.flags[x]
    BY MasksAreFlags, UnparkKeeps
  <2>4. i2.linked = i1.linked /\ i2.failed \subseteq i1.failed /\ i1.dirty \subseteq i2.dirty
    BY DEF Updated
  <2> QED
    BY <2>1, <2>3, <2>4, ValidFacts, ValidSame
<1> QED
  BY <1>1

LEMMA ValidFlush ==
  ASSUME Counting, Shape, Valid, FlushBlockIndex
  PROVE  Valid'
<1> /\ index'.flags = index.flags /\ index'.linked = index.linked /\ index'.failed = index.failed
    /\ index'.dirty = {} /\ disk' = Flushed /\ UNCHANGED <<chain, abc, unwind>>
  BY FlushEffect
<1> \A b \in Block : /\ b \in index.dirty => Flushed[b].flags = index.flags[b]
                     /\ b \notin index.dirty => Flushed[b].flags = disk[b].flags
  BY FlushedFacts
<1>3. index.failed \in SUBSET Block
  BY ValidFacts
<1>4. \A b \in index.failed : b \in index'.linked /\ Durable(index', disk', b)
  BY <1>3 DEF Valid, Durable
<1>5. \A b \in Block : disk'[b].flags \cap INVALID_MASK \subseteq index'.flags[b]
  BY DEF Valid
<1>6. \A b : IsInvalid(index', b) <=> IsInvalid(index, b)
  BY DEF IsInvalid
<1> QED
  BY <1>4, <1>5, <1>6 DEF Valid

\* A restart loses only marks that were never written, and marks no block
\* whose parent is valid.
LEMMA ValidRestart ==
  ASSUME Counting, Shape, Valid, Restart
  PROVE  Valid'
<1>1. PICK orphaned : Reloaded(orphaned)
  BY RestartEffect
<1> disk' = Flushed /\ abc' = Idle /\ unwind' = unwind /\ unwind.pc = "idle"
  BY DEF Restart
<1>3. abc'.mostWork = Null
  BY DEF Idle
<1> /\ index'.failed = {} /\ index'.dirty = orphaned /\ chain'.tip = chain.tip
    /\ \A b \in Block : index'.flags[b] = IF b \in orphaned THEN Flushed[b].flags \cup {FAILED_PARENT}
                                          ELSE Flushed[b].flags
    /\ \A b \in orphaned : FAILED \in Flushed[Parent[b]].flags /\ b \in Block /\ b # Genesis
  BY <1>1 DEF Reloaded, Known
<1> \A b \in Block : Flushed[b].flags \cap INVALID_MASK \subseteq index.flags[b]
  BY FlushedFacts DEF Valid
<1>6. \A b \in orphaned : Parent[b] \in Block /\ IsInvalid(index, Parent[b])
  <2>1. \A b \in orphaned : Parent[b] \in Block
    BY BlockTreeAssumption
  <2> QED
    BY <2>1, FlagsDiffer DEF IsInvalid
<1>7. \A b \in Ancestors[chain.tip] : b \in Block /\ ~IsInvalid(index, b) /\ b \notin orphaned
  <2> chain.tip \in Block
    BY ShapeFacts
  <2>2. \A b \in Ancestors[chain.tip] \ {Genesis} : Parent[b] \in Ancestors[chain.tip]
    BY AncestorsClosed DEF ClosedUnderParent
  <2> QED
    BY <1>6, <2>2, AncestorsInBlock DEF Valid
<1>8. \A b \in Ancestors[chain'.tip] : ~IsInvalid(index', b)
  BY <1>7 DEF IsInvalid
<1>9. \A b \in Block \ index'.dirty : disk'[b].flags \cap INVALID_MASK \subseteq index'.flags[b]
  OBVIOUS
<1> QED
  BY <1>3, <1>8, <1>9 DEF Valid

LEMMA ValidStep ==
  ASSUME Counting, Shape, Final, Valid, Commands \subseteq Harmless, [Next]_vars
  PROVE  Valid'
<1> CASE UNCHANGED vars
  BY ValidFacts, ValidSame DEF vars
<1> QED
  BY ValidArrival, ValidActivation, ValidOperator, ValidUnwinding, ValidFlush, ValidRestart DEF Next

\* m_failed_blocks holds failed blocks only.
LEMMA FailedFromValid ==
  ASSUME Valid
  PROVE  FailedBlocksFailed
BY DEF Valid, Durable, FailedBlocksFailed, FailedBelow

-----------------------------------------------------------------------------
(* Blocks are linked as soon as they can be.                                 *)

\* The lowest block of a chain that is not linked.
LEMMA LowestUnlinked ==
  ASSUME Counting, Shape, NEW b \in Block, b \notin index.linked
  PROVE  \E y \in Ancestors[b] : /\ y \in Block \ {Genesis} /\ y \notin index.linked
                                 /\ Parent[y] \in index.linked
<1> DEFINE S == {x \in Ancestors[b] : x \notin index.linked}
<1>1. S \in SUBSET Ancestors[b] /\ S # {}
  BY SelfAncestor
<1> PICK y \in S : \A x \in S : Height[y] <= Height[x]
  BY <1>1, LowestOnChain
<1> y \in Block /\ y # Genesis
  BY AncestorsInBlock DEF Shape, Rooted
<1>4. Parent[y] \in Ancestors[b]
  BY AncestorsClosed DEF ClosedUnderParent
<1>5. ~(Height[y] <= Height[Parent[y]])
  BY BlockTreeAssumption, SMTT(30)
<1> QED
  BY <1>4, <1>5

LEMMA StuckAbove ==
  ASSUME NEW ix, NEW d, NEW x \in Block, NEW y \in Ancestors[x], Stuck(ix, d, y)
  PROVE  Stuck(ix, d, x)
BY AncestorsTransitive DEF Stuck

\* A block that is not linked misses the data of an ancestor.
LEMMA NotLinkedMisses ==
  ASSUME Counting, Shape, Linking, NEW b \in Block
  PROVE  b \in index.linked <=> \A a \in Ancestors[b] : DATA \in index.flags[a]
<1> ASSUME b \in index.linked
    PROVE  \A a \in Ancestors[b] : DATA \in index.flags[a]
  <2>1. Ancestors[b] \subseteq index.linked
    BY ShapeFacts, ChainInClosed DEF Shape, Rooted
  <2> QED
    BY <2>1 DEF Shape, Rooted
<1> ASSUME b \notin index.linked
    PROVE  \E a \in Ancestors[b] : DATA \notin index.flags[a]
  <2> PICK y \in Ancestors[b] : y \in Block \ {Genesis} /\ y \notin index.linked /\ Parent[y] \in index.linked
    BY LowestUnlinked
  <2> CASE DATA \notin index.flags[y]
    OBVIOUS
  <2> CASE DATA \in index.flags[y]
    <3>1. y \notin index.unlinked
      BY DEF Linking
    <3>2. Stuck(index, disk, y)
      BY <3>1 DEF Linking
    <3> QED
      BY <3>2, AncestorsTransitive DEF Stuck
  <2> QED
    OBVIOUS
<1> QED
  OBVIOUS

LEMMA StuckKept ==
  ASSUME \A x \in Block : DATA \notin index.flags[x] /\ IsInvalid(index, x)
                            => DATA \notin index'.flags[x] /\ IsInvalid(index', x),
         \A x \in Block : Durable(index, disk, x) => Durable(index', disk', x),
         NEW b \in Block, Stuck(index, disk, b)
  PROVE  Stuck(index', disk', b)
<1> PICK a \in Ancestors[b] : /\ DATA \notin index.flags[a] /\ IsInvalid(index, a)
                              /\ \E c \in Ancestors[a] : Durable(index, disk, c)
  BY DEF Stuck
<1> a \in Block
  BY AncestorsInBlock
<1>3. \E c \in Ancestors[a] : Durable(index', disk', c)
  BY AncestorsInBlock
<1> QED
  BY <1>3 DEF Stuck

\* What an operation on linked blocks and on the marks of parked chains leaves
\* to be shown.
LEMMA LinkingSame ==
  ASSUME Linking, index'.linked = index.linked, index'.unlinked = index.unlinked,
         \A x \in Block : \A f \in INVALID_MASK : f \in index.flags[x] => f \in index'.flags[x],
         \A x \in Block : DATA \in index'.flags[x] <=> DATA \in index.flags[x],
         \A x \in Block \ index.linked : /\ IsInvalid(index', x) => IsInvalid(index, x)
                                         /\ index'.flags[x] = index.flags[x] \/ x \in index'.dirty
                                         /\ index'.seq[x] = index.seq[x] \/ index'.seq[x] <= 0,
         index.dirty \subseteq index'.dirty, disk' = disk, ids'.reverse < 0
  PROVE  Linking'
<1>1. \A x \in Block : DATA \notin index.flags[x] /\ IsInvalid(index, x)
                         => DATA \notin index'.flags[x] /\ IsInvalid(index', x)
  BY DEF IsInvalid
<1>2. \A x \in Block : Durable(index, disk, x) => Durable(index', disk', x)
  BY FlagsDiffer DEF Durable
<1>3. \A x \in Block : Stuck(index, disk, x) => Stuck(index', disk', x)
  BY <1>1, <1>2, StuckKept
<1>4. ASSUME NEW x \in Block \ index'.linked
      PROVE  /\ DATA \in index'.flags[x] => x \in index'.unlinked \/ Stuck(index', disk', x)
             /\ IsInvalid(index', x) => Stuck(index', disk', x)
             /\ x \notin index'.dirty => disk'[x].flags = index'.flags[x]
             /\ index'.seq[x] <= 0
  <2> x \in Block /\ x \in Block \ index.linked
    OBVIOUS
  <2>2. /\ DATA \in index.flags[x] => x \in index.unlinked \/ Stuck(index, disk, x)
        /\ IsInvalid(index, x) => Stuck(index, disk, x)
        /\ x \notin index.dirty => disk[x].flags = index.flags[x]
        /\ index.seq[x] <= 0
    BY DEF Linking
  <2> QED
    BY <1>3, <2>2
<1> QED
  BY <1>4 DEF Linking

LEMMA LinkingRejects ==
  ASSUME Counting, Shape, Valid, Linking, NEW b \in Block, AcceptBlockHeader_Rejects(b)
  PROVE  Linking'
<1> PICK f \in FailedBelow(b) :
      /\ index'.seq = index.seq /\ index'.linked = index.linked /\ index'.unlinked = index.unlinked
      /\ index'.dirty = index.dirty \cup (Ancestors[Parent[b]] \ Ancestors[f])
      /\ \A x \in Block : index'.flags[x] = IF x \in Ancestors[Parent[b]] \ Ancestors[f]
                                            THEN index.flags[x] \cup {FAILED_PARENT}
                                            ELSE index.flags[x]
  BY ShapeFacts, RejectsEffect
<1> DEFINE between == Ancestors[Parent[b]] \ Ancestors[f]
<1> Parent[b] \in Block /\ UNCHANGED <<ids, disk>>
  BY DEF AcceptBlockHeader_Rejects, HeaderReaches, Known
<1> f \in index.linked /\ Durable(index, disk, f) /\ f \in Ancestors[Parent[b]] /\ f \in Block
  BY AncestorsInBlock DEF FailedBelow, Valid
<1> /\ \A x \in Block : DATA \in index'.flags[x] <=> DATA \in index.flags[x]
    /\ \A x \in Block : \A g \in INVALID_MASK : g \in index.flags[x] => g \in index'.flags[x]
    /\ \A x \in between : x \in Block /\ IsInvalid(index', x) /\ x \in index'.dirty
  <2>1. \A x \in between : x \in Block
    BY AncestorsInBlock
  <2> QED
    BY <2>1, FlagsDiffer DEF IsInvalid
<1> \A x \in Block : x \notin between => index'.flags[x] = index.flags[x]
  OBVIOUS
<1> \A x \in Block : Durable(index, disk, x) => Durable(index', disk', x)
  BY FlagsDiffer DEF Durable
<1> \A x \in Block : Stuck(index, disk, x) => Stuck(index', disk', x)
  <2>1. \A x \in Block : DATA \notin index.flags[x] /\ IsInvalid(index, x)
                           => DATA \notin index'.flags[x] /\ IsInvalid(index', x)
    BY DEF IsInvalid
  <2> QED
    BY <2>1, StuckKept
<1> ASSUME NEW x \in between, x \notin index.linked
    PROVE  Stuck(index', disk', x)
  <2> x \in Block
    OBVIOUS
  <2> PICK y \in Ancestors[x] : y \in Block \ {Genesis} /\ y \notin index.linked /\ Parent[y] \in index.linked
    BY LowestUnlinked
  <2> CASE DATA \in index.flags[y]
    <3>1. Stuck(index, disk, y)
      BY DEF Linking
    <3> QED
      BY <3>1, StuckAbove
  <2> CASE DATA \notin index.flags[y]
    <3> y \in Ancestors[Parent[b]]
      BY AncestorsTransitive
    <3> y \notin Ancestors[f]
      BY ShapeFacts, ChainInClosed DEF Shape, Rooted
    <3>3. f \in Ancestors[y]
      BY AncestorsLinear
    <3>4. DATA \notin index'.flags[y] /\ IsInvalid(index', y) /\ Durable(index', disk', f)
      OBVIOUS
    <3> QED
      BY <3>3, <3>4 DEF Stuck
  <2> QED
    OBVIOUS
<1> HIDE DEF between
<1>9. ASSUME NEW x \in Block \ index'.linked
      PROVE  /\ DATA \in index'.flags[x] => x \in index'.unlinked \/ Stuck(index', disk', x)
             /\ IsInvalid(index', x) => Stuck(index', disk', x)
             /\ x \notin index'.dirty => disk'[x].flags = index'.flags[x]
             /\ index'.seq[x] <= 0
  <2> x \in Block /\ x \notin index.linked
    OBVIOUS
  <2> /\ DATA \in index.flags[x] => x \in index.unlinked \/ Stuck(index, disk, x)
      /\ IsInvalid(index, x) => Stuck(index, disk, x)
      /\ x \notin index.dirty => disk[x].flags = index.flags[x]
      /\ index.seq[x] <= 0
    BY DEF Linking
  <2>3. DATA \in index'.flags[x] => x \in index'.unlinked \/ Stuck(index', disk', x)
    OBVIOUS
  <2>4. IsInvalid(index', x) => Stuck(index', disk', x)
    BY DEF IsInvalid
  <2>5. x \notin index'.dirty => disk'[x].flags = index'.flags[x]
    OBVIOUS
  <2> QED
    BY <2>3, <2>4, <2>5
<1> QED
  BY <1>9 DEF Linking

LEMMA LinkingFails ==
  ASSUME Counting, Shape, Linking, NEW b \in Block, AcceptBlock_Fails(b)
  PROVE  Linking'
<1> /\ index'.flags = [index.flags EXCEPT ![b] = @ \cup {FAILED}] /\ index'.seq = index.seq
    /\ index'.linked = index.linked /\ index'.unlinked = index.unlinked
    /\ index'.dirty = index.dirty \cup {b}
  BY ShapeFacts, FailsEffect
<1> UNCHANGED <<ids, disk>> /\ DATA \notin index.flags[b]
  BY DEF AcceptBlock_Fails, BlockReaches
<1> \A x \in Block : index'.flags[x] = IF x = b THEN index.flags[x] \cup {FAILED} ELSE index.flags[x]
  BY ShapeFacts, AddFlag, ZenonT(60)
<1> /\ \A x \in Block : DATA \in index'.flags[x] <=> DATA \in index.flags[x]
    /\ \A x \in Block : \A g \in INVALID_MASK : g \in index.flags[x] => g \in index'.flags[x]
  BY FlagsDiffer
<1>5. \A x \in Block : Durable(index, disk, x) => Durable(index', disk', x)
  BY FlagsDiffer DEF Durable
<1> \A x \in Block : Stuck(index, disk, x) => Stuck(index', disk', x)
  <2>1. \A x \in Block : DATA \notin index.flags[x] /\ IsInvalid(index, x)
                           => DATA \notin index'.flags[x] /\ IsInvalid(index', x)
    BY DEF IsInvalid
  <2> QED
    BY <1>5, <2>1, StuckKept
<1>7. Stuck(index', disk', b)
  <2> FAILED \in index'.flags[b] /\ DATA \notin index'.flags[b] /\ b \in index'.dirty
    OBVIOUS
  <2>2. IsInvalid(index', b) /\ Durable(index', disk', b)
    BY FlagsDiffer DEF IsInvalid, Durable
  <2> QED
    BY <2>2, SelfAncestor DEF Stuck
<1>8. ASSUME NEW x \in Block \ index'.linked
      PROVE  /\ DATA \in index'.flags[x] => x \in index'.unlinked \/ Stuck(index', disk', x)
             /\ IsInvalid(index', x) => Stuck(index', disk', x)
             /\ x \notin index'.dirty => disk'[x].flags = index'.flags[x]
             /\ index'.seq[x] <= 0
  <2> /\ DATA \in index.flags[x] => x \in index.unlinked \/ Stuck(index, disk, x)
      /\ IsInvalid(index, x) => Stuck(index, disk, x)
      /\ x \notin index.dirty => disk[x].flags = index.flags[x]
      /\ index.seq[x] <= 0
    BY DEF Linking
  <2> x = b \/ index'.flags[x] = index.flags[x]
    OBVIOUS
  <2>3. IsInvalid(index', x) => Stuck(index', disk', x)
    BY <1>7 DEF IsInvalid
  <2> QED
    BY <2>3
<1> QED
  BY <1>8 DEF Linking

\* A block that waits for a block of LinkedWith(b) is in LinkedWith(b).
LEMMA LinkedWithChildren ==
  ASSUME NEW b \in Block, NEW x \in index.unlinked, x \in Block, x # Genesis,
         Parent[x] \in LinkedWith(b), index.unlinked \in SUBSET Block
  PROVE  x \in LinkedWith(b)
<1>1. Parent[x] \in Block /\ Ancestors[x] = {x} \cup Ancestors[Parent[x]]
  BY AncestorsOfParent DEF LinkedWith
<1>2. b \in Ancestors[Parent[x]] /\ Ancestors[Parent[x]] \ Ancestors[b] \subseteq index.unlinked
  BY SelfAncestor DEF LinkedWith
<1>3. b \in Ancestors[x] /\ Ancestors[x] \ Ancestors[b] \subseteq index.unlinked
  BY <1>1, <1>2
<1> QED
  BY <1>3 DEF LinkedWith

LEMMA LinkingBlock ==
  ASSUME Counting, Shape, Linking, NEW b \in Block, AcceptBlock(b)
  PROVE  Linking'
<1> /\ b \in Known(index) /\ DATA \notin index.flags[b] /\ ~IsInvalid(index, b) /\ disk' = disk
  BY DEF AcceptBlock, BlockReaches
<1> BlockStored(b) /\ (BlockLinked(b) \/ BlockWaits(b)) /\ ids'.reverse = ids.reverse
  BY AcceptBlockEffect
<1> /\ b # Genesis
    /\ \A x \in Block \ {b} : index'.flags[x] = index.flags[x]
    /\ \A g \in INVALID_MASK : g \in index'.flags[b] <=> g \in index.flags[b]
    /\ index'.dirty = index.dirty \cup {b}
  BY FlagsDiffer DEF BlockStored
<1>4. ~IsInvalid(index', b)
  BY DEF IsInvalid
<1> \A x \in Block : Stuck(index, disk, x) => Stuck(index', disk', x)
  <2>1. \A x \in Block : DATA \notin index.flags[x] /\ IsInvalid(index, x)
                           => DATA \notin index'.flags[x] /\ IsInvalid(index', x)
    BY DEF IsInvalid
  <2>2. \A x \in Block : Durable(index, disk, x) => Durable(index', disk', x)
    BY FlagsDiffer DEF Durable
  <2> QED
    BY <2>1, <2>2, StuckKept
<1> ASSUME NEW x \in Block \ index'.linked, x # b, x \notin index.linked,
           x \in index.unlinked => x \in index'.unlinked, index'.seq[x] = index.seq[x]
    PROVE  /\ DATA \in index'.flags[x] => x \in index'.unlinked \/ Stuck(index', disk', x)
           /\ IsInvalid(index', x) => Stuck(index', disk', x)
           /\ x \notin index'.dirty => disk'[x].flags = index'.flags[x]
           /\ index'.seq[x] <= 0
  <2> /\ DATA \in index.flags[x] => x \in index.unlinked \/ Stuck(index, disk, x)
      /\ IsInvalid(index, x) => Stuck(index, disk, x)
      /\ x \notin index.dirty => disk[x].flags = index.flags[x]
      /\ index.seq[x] <= 0
    BY DEF Linking
  <2> index'.flags[x] = index.flags[x]
    OBVIOUS
  <2>3. IsInvalid(index', x) => Stuck(index', disk', x)
    BY DEF IsInvalid
  <2> QED
    BY <2>3
<1> index.unlinked \in SUBSET Block
  BY ShapeFacts, IndexFields
<1> CASE BlockLinked(b)
  <2> /\ index'.linked = index.linked \cup LinkedWith(b)
      /\ index'.unlinked = index.unlinked \ LinkedWith(b)
      /\ \A x \in Block \ LinkedWith(b) : index'.seq[x] = index.seq[x]
    BY DEF BlockLinked
  <2>2. b \in LinkedWith(b)
    BY DEF LinkedWith
  <2>3. ASSUME NEW x \in index'.unlinked
        PROVE  x # Genesis /\ Parent[x] \notin index'.linked
    <3> x \in index.unlinked /\ x \notin LinkedWith(b) /\ x \in Block
      OBVIOUS
    <3> x # Genesis /\ Parent[x] \notin index.linked
      BY DEF Linking
    <3>3. Parent[x] \notin LinkedWith(b)
      BY LinkedWithChildren
    <3> QED
      BY <3>3
  <2>4. \A x \in Block \ index'.linked : /\ x # b /\ x \notin index.linked
                                         /\ x \in index.unlinked => x \in index'.unlinked
                                         /\ index'.seq[x] = index.seq[x]
    BY <2>2
  <2>5. ids'.reverse < 0
    BY DEF Linking
  <2> QED
    BY <2>3, <2>4, <2>5 DEF Linking
<1> CASE BlockWaits(b)
  <2> /\ Parent[b] \notin index.linked /\ index'.linked = index.linked /\ index'.seq = index.seq
      /\ index'.unlinked = index.unlinked \cup (IF IsValid(index, Parent[b], TREE) THEN {b} ELSE {})
    BY DEF BlockWaits
  <2> Parent[b] \in Block /\ Parent[b] \in Known(index)
    BY ShapeFacts DEF ClosedUnderParent
  <2>3. b \in index'.unlinked \/ Stuck(index', disk', b)
    <3> CASE IsValid(index, Parent[b], TREE)
      OBVIOUS
    <3> CASE ~IsValid(index, Parent[b], TREE)
      <4>1. index.validity[Parent[b]] \in Validity /\ index.validity[Parent[b]] # UNKNOWN
        BY ShapeFacts, IndexFields, ZenonT(60) DEF Known
      <4>2. index.validity[Parent[b]] >= TREE
        BY <4>1, SMTT(30) DEF Validity, UNKNOWN, TREE, TRANSACTIONS, SCRIPTS
      <4>3. IsInvalid(index, Parent[b])
        BY <4>2 DEF IsValid
      <4>4. Stuck(index, disk, Parent[b])
        BY <4>3 DEF Linking
      <4>5. Parent[b] \in Ancestors[b]
        BY AncestorsOfParent, SelfAncestor
      <4> QED
        BY <4>4, <4>5, StuckAbove
    <3> QED
      OBVIOUS
  <2>4. b \notin index.linked
    BY DEF Shape, Rooted
  <2>5. index.seq[b] <= 0
    BY <2>4 DEF Linking
  <2>6. ids'.reverse < 0
    BY DEF Linking
  <2>7. \A x \in index'.unlinked : x # Genesis /\ Parent[x] \notin index'.linked
    BY DEF Linking
  <2>8. ASSUME NEW x \in Block \ index'.linked
        PROVE  /\ DATA \in index'.flags[x] => x \in index'.unlinked \/ Stuck(index', disk', x)
               /\ IsInvalid(index', x) => Stuck(index', disk', x)
               /\ x \notin index'.dirty => disk'[x].flags = index'.flags[x]
               /\ index'.seq[x] <= 0
    <3> CASE x = b
      BY <1>4, <2>3, <2>5
    <3> CASE x # b
      OBVIOUS
    <3> QED
      OBVIOUS
  <2> QED
    BY <2>6, <2>7, <2>8 DEF Linking
<1> QED
  OBVIOUS

LEMMA LinkingActivation ==
  ASSUME Counting, Shape, Final, Linking, Activation
  PROVE  Linking'
<1> /\ index \in BlockIndex /\ UNCHANGED <<ids, disk>> /\ ids'.reverse < 0
  BY ShapeFacts DEF Linking, Activation, ActivateBestChain, ActivateBestChain_Lock,
     FindMostWorkChain, FindMostWorkChain_Rejects, ActivateBestChainStep_DisconnectTip,
     ConnectTip, ConnectTip_Invalid, ConnectTip_CannotFinalize
<1> CASE index' = index
  BY LinkingSame
<1> CASE FindMostWorkChain
  <2> CASE abc' = Idle /\ UNCHANGED <<index, chain>>
    OBVIOUS
  <2> CASE ~(abc' = Idle /\ UNCHANGED <<index, chain>>)
    <3> PICK b \in Block :
          /\ b = chain.tip \/ b \notin Ancestors[chain.tip]
          /\ Unusable(Examined(b), b) = {} /\ index' = Examined(b)
      BY FindFacts
    <3>2. ~Conflicts(b)
      BY ChosenAgrees
    <3>3. Looked(index', b)
      BY ExaminedEffect
    <3> /\ index'.linked = index.linked /\ index'.unlinked = index.unlinked /\ index'.seq = index.seq
        /\ index.dirty \subseteq index'.dirty
        /\ \A x \in Block : DATA \in index'.flags[x] <=> DATA \in index.flags[x]
        /\ \A x \in Block : \A f \in INVALID_MASK : f \in index'.flags[x] <=> f \in index.flags[x]
        /\ \A x \in Block : index'.flags[x] = index.flags[x] \/ x \in index'.dirty
      BY <3>2, <3>3 DEF Looked, Marks
    <3>5. \A x \in Block : IsInvalid(index', x) => IsInvalid(index, x)
      BY DEF IsInvalid
    <3> QED
      BY <3>5, LinkingSame
  <2> QED
    OBVIOUS
<1> CASE FindMostWorkChain_Rejects
  <2> PICK b, ix, bad : b \in Block /\ b \in index.linked /\ Dropped(ix, b, bad)
    BY DropsEffect
  <2> Ancestors[b] \subseteq index.linked
    BY ShapeFacts, ChainInClosed DEF Shape, Rooted
  <2>3. Marks(index, index')
    BY DroppedMarks
  <2> /\ \A x \in Block : \A f \in INVALID_MASK : f \in index.flags[x] => f \in index'.flags[x]
      /\ \A x \in Block : \/ \A f \in INVALID_MASK : f \in index'.flags[x] <=> f \in index.flags[x]
                          \/ x \in Ancestors[b]
    BY DroppedInvalid
  <2>5. \A x \in Block \ index.linked : IsInvalid(index', x) => IsInvalid(index, x)
    BY DEF IsInvalid
  <2>6. \A x \in Block \ index.linked : index'.flags[x] = ix.flags[x] /\ x # b
    BY DEF Dropped
  <2> /\ index'.linked = index.linked /\ index'.unlinked = index.unlinked /\ index'.seq = index.seq
      /\ index.dirty \subseteq index'.dirty /\ index'.dirty = ix.dirty
      /\ \A x \in Block : DATA \in index'.flags[x] <=> DATA \in index.flags[x]
    BY <2>3 DEF Dropped, Looked, Marks
  <2>8. \A x \in Block \ index.linked : index'.flags[x] = index.flags[x] \/ x \in index'.dirty
    BY <2>6 DEF Dropped, Looked
  <2> QED
    BY <2>5, <2>8, LinkingSame
<1> ASSUME NEW b \in Block, ConnectTip(b) \/ ConnectTip_CannotFinalize(b)
    PROVE  Linking'
  <2> DEFINE iy == ScriptsValid(index, b)
  <2> /\ iy \in BlockIndex /\ iy.flags = index.flags /\ iy.linked = index.linked /\ iy.seq = index.seq
      /\ iy.unlinked = index.unlinked /\ index.dirty \subseteq iy.dirty
    BY ScriptsValidFields
  <2>2. index' = iy \/ index' = PruneBlockIndexCandidates(iy, b)
    BY DEF ConnectTip, ConnectTip_CannotFinalize
  <2> HIDE DEF iy
  <2>3. LET iz == PruneBlockIndexCandidates(iy, b)
        IN  /\ iz.flags = iy.flags /\ iz.linked = iy.linked /\ iz.seq = iy.seq
            /\ iz.unlinked = iy.unlinked /\ iz.dirty = iy.dirty
    BY PruneFields
  <2> /\ index'.flags = index.flags /\ index'.linked = index.linked /\ index'.seq = index.seq
      /\ index'.unlinked = index.unlinked /\ index.dirty \subseteq index'.dirty
    BY <2>2, <2>3
  <2>5. \A x \in Block : IsInvalid(index', x) => IsInvalid(index, x)
    BY DEF IsInvalid
  <2> QED
    BY <2>5, LinkingSame
<1> ASSUME NEW b \in Block, ConnectTip_Invalid(b)
    PROVE  Linking'
  <2> /\ index'.flags = [index.flags EXCEPT ![b] = @ \cup {FAILED}] /\ index'.seq = index.seq
      /\ index'.linked = index.linked /\ index'.unlinked = index.unlinked
      /\ index'.dirty = index.dirty \cup {b}
    BY InvalidBlockFoundFields DEF ConnectTip_Invalid
  <2> \A x \in Block : index'.flags[x] = IF x = b THEN index.flags[x] \cup {FAILED} ELSE index.flags[x]
    BY ShapeFacts, AddFlag, ZenonT(60)
  <2>3. b \in index.linked
    BY ToConnectFacts DEF ConnectTip_Invalid
  <2> \A x \in Block \ index.linked : index'.flags[x] = index.flags[x]
    BY <2>3
  <2>5. \A x \in Block \ index.linked : IsInvalid(index', x) => IsInvalid(index, x)
    BY DEF IsInvalid
  <2>6. /\ \A x \in Block : \A f \in INVALID_MASK : f \in index.flags[x] => f \in index'.flags[x]
        /\ \A x \in Block : DATA \in index'.flags[x] <=> DATA \in index.flags[x]
    BY FlagsDiffer
  <2> QED
    BY <2>5, <2>6, LinkingSame
<1> QED
  BY DEF Activation, ActivateBestChain, ActivateBestChain_Lock, ActivateBestChainStep_DisconnectTip

LEMMA LinkingUnwinding ==
  ASSUME Counting, Shape, Valid, Linking, Unwinding
  PROVE  Linking'
<1> UNCHANGED <<ids, disk>> /\ ids'.reverse < 0
  BY DEF Linking, Unwinding, UnwindBlock_Leave, UnwindBlock_Disconnect, UnwindBlock_Mark
<1> CASE index' = index
  BY LinkingSame
<1> CASE UnwindBlock_Disconnect
  <2>1. unwind.pc # "idle"
    BY DEF UnwindBlock_Disconnect
  <2> Unwound(chain.tip, unwind.mark, PARKED) /\ Marks(index, index')
    BY <2>1, UnwoundEffect, ShapeUnwound, ValidFacts
  <2>3. OfParent(PARKED) = PARKED_PARENT
    BY DEF OfParent, PARKED, FAILED
  <2>4. \A x \in Block : \/ index'.flags[x] = index.flags[x] \cup {PARKED}
                         \/ index'.flags[x] = (index.flags[x] \ {PARKED}) \cup {PARKED_PARENT}
                         \/ index'.flags[x] = index.flags[x]
    BY <2>3 DEF Unwound
  <2> \A x \in Block : \A f \in INVALID_MASK : f \in index'.flags[x] <=> f \in index.flags[x]
    BY <2>4, FlagsDiffer
  <2>6. \A x \in Block : index'.flags[x] = index.flags[x] \/ x \in index'.dirty
    BY DEF Unwound
  <2>7. \A x \in Block : IsInvalid(index', x) => IsInvalid(index, x)
    BY DEF IsInvalid
  <2>8. /\ index'.seq = index.seq /\ index'.linked = index.linked /\ index'.unlinked = index.unlinked
        /\ index.dirty \subseteq index'.dirty
        /\ \A x \in Block : DATA \in index'.flags[x] <=> DATA \in index.flags[x]
    BY DEF Unwound, Marks
  <2> QED
    BY <2>6, <2>7, <2>8, LinkingSame
<1> CASE UnwindBlock_Mark /\ unwind.mark \notin Ancestors[chain.tip]
  <2>1. unwind.pc # "idle"
    BY DEF UnwindBlock_Mark
  <2>2. Marked(unwind.mark, PARKED)
    BY <2>1, MarkedEffect, ValidFacts
  <2> /\ index'.seq = index.seq /\ index'.linked = index.linked /\ index'.unlinked = index.unlinked
      /\ index.dirty \subseteq index'.dirty
      /\ \A x \in Block : index'.flags[x] = index.flags[x] \cup {PARKED} \/ index'.flags[x] = index.flags[x]
      /\ \A x \in Block : index'.flags[x] = index.flags[x] \/ x \in index'.dirty
    BY <2>2 DEF Marked
  <2> /\ \A x \in Block : \A f \in INVALID_MASK : f \in index'.flags[x] <=> f \in index.flags[x]
      /\ \A x \in Block : DATA \in index'.flags[x] <=> DATA \in index.flags[x]
    BY FlagsDiffer
  <2>5. \A x \in Block : IsInvalid(index', x) => IsInvalid(index, x)
    BY DEF IsInvalid
  <2> QED
    BY <2>5, LinkingSame
<1> QED
  BY DEF Unwinding, UnwindBlock_Leave, UnwindBlock_Mark

LEMMA LinkingOperator ==
  ASSUME Counting, Shape, Linking, Commands \subseteq Harmless, Operator
  PROVE  Linking'
<1> index \in BlockIndex /\ chain.tip \in Block
  BY ShapeFacts
<1>1. PICK b \in Block : UnwindBlock("park", b) \/ Unpark(b) \/ PreciousBlock(b)
  BY HarmlessCommands
<1> disk' = disk
  BY <1>1 DEF UnwindBlock, Unpark, PreciousBlock
<1>3. CASE UnwindBlock("park", b)
  <2>1. UNCHANGED <<index, ids>> /\ ids'.reverse < 0
    BY <1>3 DEF UnwindBlock, Linking
  <2> QED
    BY <2>1, LinkingSame
<1>4. CASE Unpark(b)
  <2>1. ids'.reverse < 0
    BY <1>4 DEF Unpark, Linking
  <2> /\ Updated(index, index', chain.tip, b, PARKED_MASK, PARKED_MASK, {PARKED_PARENT})
      /\ Marks(index, index')
    BY <1>4, ShapeUnpark
  <2> \A x \in Block : \A f \in INVALID_MASK : f \in index'.flags[x] <=> f \in index.flags[x]
    BY MasksAreFlags, UnparkKeeps
  <2>4. /\ index'.linked = index.linked /\ index'.unlinked = index.unlinked /\ index'.seq = index.seq
        /\ index.dirty \subseteq index'.dirty
        /\ \A x \in Block : index'.flags[x] = index.flags[x] \/ x \in index'.dirty
        /\ \A x \in Block : DATA \in index'.flags[x] <=> DATA \in index.flags[x]
    BY DEF Updated, Marks
  <2>5. \A x \in Block : IsInvalid(index', x) => IsInvalid(index, x)
    BY DEF IsInvalid
  <2> QED
    BY <2>1, <2>4, <2>5, LinkingSame
<1> CASE PreciousBlock(b)
  <2> ids.reverse < 0 /\ ids \in [seq: Nat, reverse: Int, lastPrecious: Nat]
    BY DEF Linking, Shape, Types
  <2>2. ids'.reverse < 0
    BY SMTT(30) DEF PreciousBlock
  <2> PICK i1, i2 \in BlockIndex :
        /\ i1.flags = index.flags /\ i1.linked = index.linked /\ i1.unlinked = index.unlinked
        /\ i1.dirty = index.dirty
        /\ \A x \in Block : i1.seq[x] = index.seq[x] \/ i1.seq[x] \in {-1, ids.reverse}
        /\ Updated(i1, i2, chain.tip, b, PARKED_MASK, {PARKED_PARENT}, {PARKED_PARENT})
        /\ index'.flags = i2.flags /\ index'.linked = i2.linked /\ index'.unlinked = i2.unlinked
        /\ index'.dirty = i2.dirty /\ index'.seq = i2.seq
    BY PreciousEffect, ZenonT(60)
  <2>4. \A x \in Block : \A f \in INVALID_MASK : f \in i2.flags[x] <=> f \in i1.flags[x]
    BY MasksAreFlags, UnparkKeeps
  <2>5. /\ i2.linked = i1.linked /\ i2.unlinked = i1.unlinked /\ i2.seq = i1.seq
        /\ i1.dirty \subseteq i2.dirty
        /\ \A x \in Block : i2.flags[x] = i1.flags[x] \/ x \in i2.dirty
    BY DEF Updated
  <2>6. \A x \in Block : i1.seq[x] = index.seq[x] \/ i1.seq[x] <= 0
    BY SMTT(30)
  <2>7. \A x \in Block : DATA \in index'.flags[x] <=> DATA \in index.flags[x]
    BY ShapePrecious DEF Marks
  <2> /\ index'.linked = index.linked /\ index'.unlinked = index.unlinked
      /\ index.dirty \subseteq index'.dirty
      /\ \A x \in Block : index'.flags[x] = index.flags[x] \/ x \in index'.dirty
      /\ \A x \in Block : index'.seq[x] = index.seq[x] \/ index'.seq[x] <= 0
      /\ \A x \in Block : \A f \in INVALID_MASK : f \in index'.flags[x] <=> f \in index.flags[x]
    BY <2>4, <2>5, <2>6
  <2>9. \A x \in Block : IsInvalid(index', x) => IsInvalid(index, x)
    BY DEF IsInvalid
  <2> QED
    BY <2>2, <2>7, <2>9, LinkingSame
<1> QED
  BY <1>1, <1>3, <1>4

LEMMA LinkingFlush ==
  ASSUME Counting, Shape, Linking, FlushBlockIndex
  PROVE  Linking'
<1> /\ index'.flags = index.flags /\ index'.linked = index.linked /\ index'.unlinked = index.unlinked
    /\ index'.seq = index.seq /\ index'.dirty = {} /\ disk' = Flushed /\ ids' = ids
  BY FlushEffect
<1> \A b \in Block : /\ b \in index.dirty => Flushed[b].flags = index.flags[b]
                     /\ b \notin index.dirty => Flushed[b].flags = disk[b].flags
  BY FlushedFacts
<1> \A x : IsInvalid(index', x) <=> IsInvalid(index, x)
  BY DEF IsInvalid
<1>4. \A x \in Block : Durable(index, disk, x) => Durable(index', disk', x)
  BY DEF Durable
<1>5. \A x \in Block : Stuck(index, disk, x) => Stuck(index', disk', x)
  BY <1>4, StuckKept
<1>6. ASSUME NEW x \in Block \ index'.linked
      PROVE  /\ DATA \in index'.flags[x] => x \in index'.unlinked \/ Stuck(index', disk', x)
             /\ IsInvalid(index', x) => Stuck(index', disk', x)
             /\ x \notin index'.dirty => disk'[x].flags = index'.flags[x]
             /\ index'.seq[x] <= 0
  <2>1. /\ DATA \in index.flags[x] => x \in index.unlinked \/ Stuck(index, disk, x)
        /\ IsInvalid(index, x) => Stuck(index, disk, x)
        /\ x \notin index.dirty => disk[x].flags = index.flags[x]
        /\ index.seq[x] <= 0
    BY DEF Linking
  <2> QED
    BY <1>5, <2>1
<1> QED
  BY <1>6 DEF Linking

LEMMA LinkingRestart ==
  ASSUME Counting, Shape, Linking, Restart
  PROVE  Linking'
<1>1. PICK orphaned : Reloaded(orphaned)
  BY RestartEffect
<1> disk' = Flushed /\ ids'.reverse < 0
  BY SMTT(30) DEF Restart
<1>3. /\ index'.linked = {b \in Block : \A a \in Ancestors[b] : DATA \in Flushed[a].flags}
      /\ index'.unlinked = {b \in Known(index) \ index'.linked : DATA \in Flushed[b].flags}
      /\ index'.dirty = orphaned /\ index'.validity = index.validity
      /\ \A b \in Block : index'.flags[b] = IF b \in orphaned THEN Flushed[b].flags \cup {FAILED_PARENT}
                                            ELSE Flushed[b].flags
      /\ \A b \in Block : index'.seq[b] = 0
      /\ \A b \in orphaned : FAILED \in Flushed[Parent[b]].flags /\ b \in Block /\ b # Genesis
  BY <1>1 DEF Reloaded, Known
<1>4. \A b \in Block : /\ DATA \in Flushed[b].flags <=> DATA \in index.flags[b]
                       /\ b \in index.dirty => Flushed[b].flags = index.flags[b]
                       /\ b \notin index.dirty => Flushed[b].flags = disk[b].flags
  BY FlushedFacts
<1> index'.linked = index.linked
  <2>1. index.linked \in SUBSET Block
    BY ShapeFacts
  <2>2. \A b \in Block : b \in index'.linked <=> b \in index.linked
    BY <1>3, <1>4, NotLinkedMisses, AncestorsInBlock
  <2> QED
    BY <1>3, <2>1, <2>2
<1>6. \A b \in Block \ index.linked : Flushed[b].flags = index.flags[b]
  BY <1>4 DEF Linking
<1>7. \A b \in Block : DATA \in index'.flags[b] <=> DATA \in index.flags[b]
  <2>1. ASSUME NEW b \in Block
        PROVE  DATA \in index'.flags[b] <=> DATA \in Flushed[b].flags
    <3> CASE b \in orphaned
      <4>1. index'.flags[b] = Flushed[b].flags \cup {FAILED_PARENT}
        BY <1>3
      <4> QED
        BY <4>1, FlagsDiffer
    <3> CASE b \notin orphaned
      <4>1. index'.flags[b] = Flushed[b].flags
        BY <1>3
      <4> QED
        BY <4>1
    <3> QED
      OBVIOUS
  <2> QED
    BY <1>4, <2>1
<1>8. \A x \in Block : FAILED \in Flushed[x].flags => Durable(index', disk', x)
  BY <1>3 DEF Durable
<1>9. \A x \in Block : Stuck(index, disk, x) => Stuck(index', disk', x)
  <2>1. \A x \in Block : Durable(index, disk, x) => Durable(index', disk', x)
    BY <1>4, <1>8 DEF Durable
  <2>2. \A x \in index.linked : DATA \in index.flags[x]
    BY DEF Shape, Rooted
  <2>3. \A x \in Block : DATA \notin index.flags[x] /\ IsInvalid(index, x)
                           => DATA \notin index'.flags[x] /\ IsInvalid(index', x)
    <3>1. \A x \in Block : Flushed[x].flags \subseteq index'.flags[x]
      BY <1>3
    <3> QED
      BY <1>6, <1>7, <2>2, <3>1 DEF IsInvalid
  <2> QED
    BY <2>1, <2>3, StuckKept
<1>10. ASSUME NEW x \in Block, x # Genesis, x \notin index.linked, Parent[x] \in index.linked
       PROVE  DATA \notin index.flags[x]
  <2>1. \A a \in Ancestors[Parent[x]] : DATA \in index.flags[a]
    BY <1>10, ShapeFacts, NotLinkedMisses
  <2> QED
    BY <1>10, <2>1, NotLinkedMisses, AncestorsOfParent
<1>11. ASSUME NEW x \in Block \ index.linked, IsInvalid(index', x)
       PROVE  Stuck(index', disk', x)
  <2>1. CASE x \notin orphaned
    <3>1. IsInvalid(index, x)
      BY <1>3, <1>6, <1>11, <2>1 DEF IsInvalid
    <3> QED
      BY <1>9, <3>1 DEF Linking
  <2>2. CASE x \in orphaned
    <3> FAILED \in Flushed[Parent[x]].flags /\ x # Genesis /\ Parent[x] \in Block
      BY <1>3, <2>2, BlockTreeAssumption
    <3> Parent[x] \in Ancestors[x]
      BY AncestorsOfParent, SelfAncestor
    <3> CASE Parent[x] \in index.linked
      <4>1. DATA \notin index'.flags[x]
        BY <1>7, <1>10
      <4> QED
        BY <1>8, <1>11, <4>1, SelfAncestor DEF Stuck
    <3> CASE Parent[x] \notin index.linked
      <4>1. IsInvalid(index, Parent[x])
        BY <1>6, FlagsDiffer DEF IsInvalid
      <4>2. Stuck(index', disk', Parent[x])
        BY <1>9, <4>1 DEF Linking
      <4> QED
        BY <4>2, StuckAbove
    <3> QED
      OBVIOUS
  <2> QED
    BY <2>1, <2>2
<1> ASSUME NEW x \in Block \ index.linked, DATA \in index'.flags[x]
    PROVE  x \in index'.unlinked
  <2> DATA \in index.flags[x] /\ DATA \in Flushed[x].flags
    BY <1>4, <1>7
  <2>2. index.validity[x] >= TRANSACTIONS
    BY DEF Shape, Rooted
  <2>3. index.validity[x] # UNKNOWN
    BY <2>2, SMTT(30) DEF TRANSACTIONS, UNKNOWN
  <2> QED
    BY <1>3, <2>3 DEF Known
<1>13. ASSUME NEW x \in index'.unlinked
       PROVE  x # Genesis /\ Parent[x] \notin index'.linked
  <2> x \in Block /\ x \notin index.linked /\ DATA \in index.flags[x]
    BY <1>3, <1>4 DEF Known
  <2>2. x # Genesis
    BY DEF Shape, Rooted
  <2> QED
    BY <1>10, <2>2
<1>14. ASSUME NEW x \in Block \ index'.linked
       PROVE  /\ DATA \in index'.flags[x] => x \in index'.unlinked \/ Stuck(index', disk', x)
              /\ IsInvalid(index', x) => Stuck(index', disk', x)
              /\ x \notin index'.dirty => disk'[x].flags = index'.flags[x]
              /\ index'.seq[x] <= 0
  <2>1. index'.seq[x] <= 0
    BY <1>3, SMTT(30)
  <2> QED
    BY <1>3, <1>11, <2>1
<1> QED
  BY <1>13, <1>14 DEF Linking

LEMMA LinkingStep ==
  ASSUME Counting, Shape, Final, Valid, Linking, Commands \subseteq Harmless, [Next]_vars
  PROVE  Linking'
<1> ASSUME NEW b \in Block, AcceptBlockHeader(b)
    PROVE  Linking'
  <2> /\ index'.flags = index.flags /\ index'.linked = index.linked /\ index'.unlinked = index.unlinked
      /\ index'.seq = index.seq /\ index'.dirty = index.dirty \cup {b} /\ disk' = disk /\ ids'.reverse < 0
    BY ShapeFacts, HeaderEffect DEF AcceptBlockHeader, Linking
  <2>2. \A x : IsInvalid(index', x) <=> IsInvalid(index, x)
    BY DEF IsInvalid
  <2> QED
    BY <2>2, LinkingSame
<1> CASE Arrival
  BY LinkingRejects, LinkingBlock, LinkingFails DEF Arrival
<1> CASE UNCHANGED vars
  <2>1. UNCHANGED <<index, disk, ids>> /\ ids'.reverse < 0
    BY DEF vars, Linking
  <2> QED
    BY <2>1, LinkingSame
<1> QED
  BY LinkingActivation, LinkingOperator, LinkingUnwinding, LinkingFlush, LinkingRestart DEF Next

LEMMA InitFacts ==
  ASSUME Init
  PROVE  /\ index.flags[Genesis] = {DATA} /\ (\A b \in Block \ {Genesis} : index.flags[b] = {})
         /\ (\A b \in Block \ {Genesis} : index.seq[b] = 0)
         /\ (\A b \in Block : disk[b].flags = {})
         /\ index.linked = {Genesis} /\ index.unlinked = {} /\ index.failed = {}
         /\ chain.tip = Genesis /\ chain.finalized = Null /\ abc.mostWork = Null
         /\ ids.reverse = -1 /\ unwind.pc = "idle"
<1>1. Genesis \in Block
  BY BlockTreeAssumption
<1> DEFINE fl == [b \in Block |-> IF b = Genesis THEN {DATA} ELSE {}]
           se == [b \in Block |-> IF b = Genesis THEN 1 ELSE 0]
<1>2. /\ fl[Genesis] = {DATA} /\ (\A b \in Block \ {Genesis} : fl[b] = {})
      /\ (\A b \in Block \ {Genesis} : se[b] = 0)
  BY <1>1
<1>3. index.flags = fl /\ index.seq = se
  BY DEF Init
<1> HIDE DEF fl, se
<1>4. index.linked = {Genesis} /\ index.unlinked = {} /\ index.failed = {}
  BY DEF Init
<1>5. \A b \in Block : disk[b].flags = {}
  BY DEF Init
<1>6. /\ chain.tip = Genesis /\ chain.finalized = Null /\ abc.mostWork = Null
      /\ ids.reverse = -1 /\ unwind.pc = "idle"
  BY DEF Init, Idle, NotUnwinding
<1> QED
  BY <1>2, <1>3, <1>4, <1>5, <1>6, ZenonT(60)

LEMMA InitInvariants ==
  ASSUME Init
  PROVE  Causes /\ Final /\ Valid /\ Linking
<1> \A b \in Block : \A f \in INVALID_MASK \cup PARKED_MASK : f \notin index.flags[b]
  BY InitFacts DEF INVALID_MASK, PARKED_MASK, FAILED, FAILED_PARENT, PARKED, PARKED_PARENT, DATA
<1> \A b \in Block : ~IsInvalid(index, b)
  BY DEF IsInvalid
<1>3. Causes
  BY DEF Causes, Caused
<1>4. Final
  BY InitFacts DEF Final
<1>5. Valid
  <2>1. \A b \in Ancestors[chain.tip] : ~IsInvalid(index, b)
    BY InitFacts, BlockTreeAssumption, AncestorsInBlock
  <2> QED
    BY <2>1, InitFacts DEF Valid
<1>6. Linking
  <2>1. ASSUME NEW b \in Block \ index.linked
        PROVE  /\ DATA \notin index.flags[b] /\ ~IsInvalid(index, b)
               /\ disk[b].flags = index.flags[b] /\ index.seq[b] <= 0
    <3>1. b \in Block \ {Genesis}
      BY InitFacts
    <3> index.flags[b] = {} /\ disk[b].flags = {} /\ index.seq[b] = 0
      BY <3>1, InitFacts
    <3>3. index.seq[b] <= 0
      BY SMTT(30)
    <3> QED
      BY <3>3
  <2>2. ids.reverse < 0
    BY InitFacts, SMTT(30)
  <2> QED
    BY <2>1, <2>2, InitFacts DEF Linking
<1> QED
  BY <1>3, <1>4, <1>5, <1>6

LEMMA MarksFromCauses ==
  ASSUME Causes
  PROVE  MarksHaveCause
<1>1. \A b \in Known(index) : b \in Block
  BY DEF Known
<1>2. \A b \in Block : /\ IsInvalid(index, b) => HasFailedAncestor(b)
                       /\ IsOnParkedChain(index, b) => HasParkedAncestor(b)
  BY DEF Causes, Caused, IsInvalid, IsOnParkedChain, HasFailedAncestor, HasParkedAncestor
<1> QED
  BY <1>1, <1>2 DEF MarksHaveCause

LEMMA LinksFromLinking ==
  ASSUME Counting, Shape, Linking
  PROVE  LinkedWhenComplete /\ WaitingBlocksRemembered
<1>1. ASSUME NEW b \in Known(index)
      PROVE  /\ b \in index.linked <=> HasAllData(b)
             /\ b \notin index.linked => index.seq[b] <= 0
             /\ (DATA \in index.flags[b] /\ ~HasAllData(b)) /\ ~HasFailedAncestor(b) => b \in index.unlinked
             /\ b \in index.unlinked => DATA \in index.flags[b] /\ ~HasAllData(b)
  <2> b \in Block
    BY DEF Known
  <2> b \in index.linked <=> HasAllData(b)
    BY NotLinkedMisses DEF HasAllData
  <2>3. b \notin index.linked => index.seq[b] <= 0
    BY DEF Linking
  <2>4. Stuck(index, disk, b) => HasFailedAncestor(b)
    BY AncestorsTransitive DEF Stuck, Durable, HasFailedAncestor
  <2>5. DATA \in index.flags[b] /\ ~HasAllData(b) /\ ~HasFailedAncestor(b) => b \in index.unlinked
    BY <2>4 DEF Linking
  <2>6. b \in index.unlinked => DATA \in index.flags[b] /\ b \notin index.linked
    BY DEF Linking, Shape, Rooted, ClosedUnderParent
  <2> QED
    BY <2>3, <2>5, <2>6
<1> QED
  BY <1>1 DEF LinkedWhenComplete, WaitingBlocksRemembered

-----------------------------------------------------------------------------
(* The library's theorems, which the lemmas above take as a hypothesis.      *)

LOCAL FS == INSTANCE FiniteSetTheorems

LEMMA CountingHolds == Counting
<1> ASSUME NEW T \in SUBSET Nat, T # {}
    PROVE  \E n \in T : \A m \in T : n <= m
  <2> DEFINE R == {p \in Nat \X Nat : p[1] < p[2]}
  <2>1. FS!IsWellFoundedOn(R, Nat)
    BY FS!NatLessThanWellFounded DEF FS!OpToRel
  <2>2. \A n, m \in Nat : <<m, n>> \in R <=> m < n
    OBVIOUS
  <2> HIDE DEF R
  <2>3. PICK n \in T : \A m \in T : ~(<<m, n>> \in R)
    BY <2>1, FS!WFMin
  <2>4. \A m \in T : m \in Nat /\ n \in Nat /\ ~(m < n)
    BY <2>2, <2>3
  <2>5. \A m \in T : n <= m
    BY <2>4, SMTT(30)
  <2> QED
    BY <2>5
<1>2. ASSUME NEW S \in SUBSET Block
      PROVE  Cardinality(S) \in Nat /\ \A x \in S : Cardinality(S \ {x}) = Cardinality(S) - 1
  <2>1. FS!IsFiniteSet(Block)
    BY BlockTreeAssumption DEF IsFiniteSet, FS!IsFiniteSet
  <2>2. \A T : Cardinality(T) = FS!Cardinality(T)
    BY DEF Cardinality, FS!Cardinality
  <2>3. FS!IsFiniteSet(S)
    BY <2>1, FS!FS_Subset, ZenonT(60)
  <2> QED
    BY <2>2, <2>3, FS!FS_CardinalityType, FS!FS_RemoveElement
<1> QED
  BY <1>2 DEF Counting

\* Whatever the operator does and however often the node restarts, the chain
\* that is active and the chain that ActivateBestChain works towards consist of
\* blocks with data, the first no worse than any candidate may be: InHand and
\* EnoughWork, which chain selection relies on between two holds of cs_main.
THEOREM ShapeHolds == Spec => []Shape
<1>1. Init => Shape
  BY ShapeInit
<1>2. Shape /\ [Next]_vars => Shape'
  BY CountingHolds, ShapeStep
<1> QED
  BY <1>1, <1>2, PTL DEF Spec

\* The state has the shape the code gives it (TypeOK, a part of CheckBlockIndex).
THEOREM TypeCorrect == Spec => []TypeOK
<1>1. Shape => TypeOK
  <2> SUFFICES ASSUME Shape PROVE TypeOK
    OBVIOUS
  <2>1. /\ index \in BlockIndex /\ chain.tip \in index.linked
        /\ commands \in 0..MaxCommands /\ restarts \in 0..MaxRestarts
    BY DEF Shape, Types
  <2>2. chain.finalized \in Known(index) \cup {Null} /\ chain.header \in Known(index)
    BY ShapeFacts DEF ChainOf
  <2>3. abc.pc \in {"idle", "unlocked", "find", "step"}
    BY ShapeFacts DEF Activating
  <2>4. abc.mostWork \in index.linked \cup {Null}
    BY DEF Shape, InHand
  <2>5. unwind.pc \in {"idle", "walk", "mark"}
    BY DEF Shape, InUnwind
  <2> QED
    BY <2>1, <2>2, <2>3, <2>4, <2>5 DEF TypeOK
<1> QED
  BY <1>1, ShapeHolds, PTL

\* A mark has a cause (MarksHaveCause): under all commands, as long as the node
\* runs and the assertion in AcceptBlockHeader on m_failed_blocks holds.  After
\* invalidateblock and reconsiderblock it may not (FailedBlocksFailed is refuted),
\* and then a header is marked FAILED_PARENT below blocks that have not failed.
THEOREM MarksCaused ==
  ASSUME MaxRestarts = 0
  PROVE  Spec /\ []FailedBlocksFailed => []MarksHaveCause
<1>1. Init => Causes
  BY InitInvariants
<1>2. Shape /\ Causes /\ FailedBlocksFailed /\ [Next]_vars => Causes'
  BY CountingHolds, CausesStep
<1>3. Causes => MarksHaveCause
  BY MarksFromCauses
<1> QED
  BY <1>1, <1>2, <1>3, ShapeHolds, PTL DEF Spec

\* ActivateBestChain never disconnects the finalized block (FinalizedStays),
\* whatever chains are offered or marked and however often the node restarts,
\* unless finalizeblock moves the finalized block while a chain is chosen.
THEOREM FinalizedBlockStays ==
  ASSUME "finalize" \notin Commands
  PROVE  Spec => FinalizedStays
<1>1. Init => Final
  BY InitInvariants
<1>2. Shape /\ Final /\ [Next]_vars => Final'
  BY CountingHolds, FinalStep
<1>3. Shape /\ Final /\ [Next]_vars =>
        [abc.pc = "step" /\ chain.finalized # Null /\ chain.finalized \in Ancestors[chain.tip]
           => chain.finalized \in Ancestors[chain'.tip]]_vars
  BY CountingHolds, FinalizedStaysStep
<1> QED
  BY <1>1, <1>2, <1>3, ShapeHolds, PTL DEF Spec, FinalizedStays

\* The invariants on failed blocks, if the operator uses only commands that
\* leave the marks of invalid blocks alone.
THEOREM ValidHolds ==
  ASSUME Commands \subseteq Harmless
  PROVE  Spec => [](Shape /\ Final /\ Valid /\ Linking)
<1>1. "finalize" \notin Commands
  BY DEF Harmless
<1>2. Init => Final /\ Valid /\ Linking
  BY InitInvariants
<1>3. Shape /\ Final /\ Valid /\ Linking /\ [Next]_vars => Final' /\ Valid' /\ Linking'
  BY <1>1, CountingHolds, FinalStep, ValidStep, LinkingStep
<1> QED
  BY <1>2, <1>3, ShapeHolds, PTL DEF Spec

\* No block of the active chain is marked invalid (ActiveChainValid), although
\* ActivateBestChain goes on with a chain it chose before it released cs_main.
THEOREM ChainIsValid ==
  ASSUME Commands \subseteq Harmless
  PROVE  Spec => []ActiveChainValid
<1>1. Valid => ActiveChainValid
  BY DEF Valid, ActiveChainValid
<1> QED
  BY <1>1, ValidHolds, PTL

\* Without invalidateblock and reconsiderblock the assertion in
\* AcceptBlockHeader on m_failed_blocks holds, restarts included.
THEOREM FailedHeadersFound ==
  ASSUME Commands \subseteq Harmless
  PROVE  Spec => []FailedBlocksFailed
<1>1. Valid => FailedBlocksFailed
  BY FailedFromValid
<1> QED
  BY <1>1, ValidHolds, PTL

\* Without those commands every mark has a cause as long as the node runs.
THEOREM MarksCausedUnlessInvalidated ==
  ASSUME MaxRestarts = 0, Commands \subseteq Harmless
  PROVE  Spec => []MarksHaveCause
BY MarksCaused, FailedHeadersFound, PTL

\* CheckBlockIndex on links: a block is linked exactly when it and its ancestors
\* have data, and a block with data that waits for an ancestor is in
\* mapBlocksUnlinked unless an ancestor failed, restarts included.
THEOREM LinksHold ==
  ASSUME Commands \subseteq Harmless
  PROVE  Spec => [](LinkedWhenComplete /\ WaitingBlocksRemembered)
<1>1. Shape /\ Linking => LinkedWhenComplete /\ WaitingBlocksRemembered
  BY CountingHolds, LinksFromLinking
<1> QED
  BY <1>1, ValidHolds, PTL
=============================================================================
