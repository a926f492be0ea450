------------------------------ MODULE ChainState ------------------------------
(***************************************************************************)
(* Chain selection: the block index, the set of candidate tips and the      *)
(* active chain of CChainState (src/validation.cpp), as they are changed by *)
(*   - message handlers that accept headers and blocks,                     *)
(*   - the thread in ActivateBestChain, which holds m_cs_chainstate         *)
(*     throughout but releases cs_main between two steps, and               *)
(*   - the operator: invalidateblock, reconsiderblock, parkblock,           *)
(*     unparkblock, preciousblock, finalizeblock, and restarts.             *)
(* Everything done under one hold of cs_main is one action, except inside   *)
(* ActivateBestChain, where each candidate looked at and each block         *)
(* connected or disconnected is an action and cs_main is held in between.   *)
(*                                                                          *)
(* The node does not prune, so a block that had data still has it, and      *)
(* genesis is active.  Coins, undo data and block files are in CoinsFlush;  *)
(* pindexBestInvalid and pindexBestParked only feed warnings and are left   *)
(* out.  Time enters through the choice of the block to finalize.           *)
(***************************************************************************)
EXTENDS BlockTree, Integers

CONSTANTS ChainWork,        \* nChainWork: [Block -> Nat]
          Addr,             \* the order of the CBlockIndex pointers
          BadData,          \* blocks that CheckBlock or ContextualCheckBlock rejects
          BadConnect,       \* blocks that ConnectBlock rejects
          BatchSize,        \* blocks ActivateBestChainStep lists at a time: 32
          MaxReorgDepth,    \* -maxreorgdepth
          MinimumChainWork, \* nMinimumChainWork
          ParkDeepReorg,    \* -parkdeepreorg
          AutomaticUnparking, \* -automaticunparking
          Commands,         \* the commands the operator uses
          MaxCommands,      \* bound on their number
          MaxRestarts,      \* bound on the number of restarts
          Null

ASSUME ChainStateAssumption ==
  /\ ChainWork \in [Block -> Nat]
  /\ \A b \in Block \ {Genesis} : ChainWork[Parent[b]] < ChainWork[b]
  /\ Addr \in [Block -> Nat]
  /\ \A a, b \in Block : Addr[a] = Addr[b] => a = b
  /\ BadData \subseteq Block \ {Genesis}
  /\ BadConnect \subseteq Block \ {Genesis}
  /\ BatchSize \in Nat \ {0}
  /\ MaxReorgDepth \in Nat /\ MinimumChainWork \in Nat
  /\ ParkDeepReorg \in BOOLEAN /\ AutomaticUnparking \in BOOLEAN
  /\ MaxCommands \in Nat /\ MaxRestarts \in Nat
  /\ Null \notin Block

\* BlockValidity, and the flags of BlockStatus.
UNKNOWN == 0
TREE == 2
TRANSACTIONS == 3
SCRIPTS == 5

DATA == "data"
FAILED == "failed"
FAILED_PARENT == "failed parent"
PARKED == "parked"
PARKED_PARENT == "parked parent"
INVALID_MASK == {FAILED, FAILED_PARENT}
PARKED_MASK == {PARKED, PARKED_PARENT}

VARIABLES index,    \* the block index, see BlockIndex
          chain,    \* m_chain.Tip(), pindexFinalized, pindexBestHeader
          ids,      \* the counters behind nSequenceId
          abc,      \* the thread in ActivateBestChain
          wanted,   \* some thread is about to call ActivateBestChain
          unwind,   \* the thread in UnwindBlock
          disk,     \* the block index database
          commands, restarts  \* how many were used

vars == <<index, chain, ids, abc, wanted, unwind, disk, commands, restarts>>

\* Blocks that are not in mapBlockIndex have validity UNKNOWN.
BlockIndex ==
  [validity: [Block -> {UNKNOWN, TREE, TRANSACTIONS, SCRIPTS}],
   flags: [Block -> SUBSET ({DATA} \cup INVALID_MASK \cup PARKED_MASK)],
   seq: [Block -> Int],       \* nSequenceId
   linked: SUBSET Block,      \* nChainTx # 0: HaveTxsDownloaded()
   unlinked: SUBSET Block,    \* second members of mapBlocksUnlinked
   cand: SUBSET Block,        \* setBlockIndexCandidates
   failed: SUBSET Block,      \* m_failed_blocks
   dirty: SUBSET Block]       \* setDirtyBlockIndex

-----------------------------------------------------------------------------
(* The block index.                                                         *)

Known(ix) == {b \in Block : ix.validity[b] # UNKNOWN}
IsInvalid(ix, b) == ix.flags[b] \cap INVALID_MASK # {}
IsOnParkedChain(ix, b) == ix.flags[b] \cap PARKED_MASK # {}
IsValid(ix, b, level) == ~IsInvalid(ix, b) /\ ix.validity[b] >= level

\* RaiseValidity leaves invalid blocks alone.
RaiseValidity(ix, b, level) ==
  IF IsInvalid(ix, b) \/ ix.validity[b] >= level THEN ix
  ELSE [ix EXCEPT !.validity[b] = level]

\* CBlockIndexWorkComparator: a sorts before b.
Worse(ix, a, b) ==
  \/ ChainWork[a] < ChainWork[b]
  \/ /\ ChainWork[a] = ChainWork[b]
     /\ \/ ix.seq[a] > ix.seq[b]
        \/ ix.seq[a] = ix.seq[b] /\ Addr[a] > Addr[b]

BestCandidate(ix) == CHOOSE b \in ix.cand : \A c \in ix.cand \ {b} : Worse(ix, c, b)

MarkFailed(ix, b) == [ix EXCEPT !.flags[b] = @ \cup {FAILED}]

\* Variant of PruneBlockIndexCandidates: the tip itself is removed as well.
Mut_PruneRemovesTip(ix, t) == [ix EXCEPT !.cand = {b \in @ : Worse(ix, t, b)}]

\* Variant: nothing is removed.
Mut_PruneNothing(ix, t) == ix

PruneBlockIndexCandidates(ix, t) == [ix EXCEPT !.cand = {b \in @ : ~Worse(ix, b, t)}]

\* Variant of AddCandidates: the resulting tip's rivals are not looked for.
Mut_AddNoCandidates(ix, t) == ix

\* Valid blocks with all their data that are not worse than the tip.
AddCandidates(ix, t) ==
  [ix EXCEPT !.cand = @ \cup {b \in ix.linked : /\ IsValid(ix, b, TRANSACTIONS)
                                                /\ ~Worse(ix, b, t)}]

\* UpdateFlags: the flags "own" are cleared on b and its ancestors, "child" on
\* the descendants of b, and "below" on the descendants of the lowest block
\* that changed.  UpdateFlagsForBlock forgets the failure of a block that is
\* valid again and makes it a candidate when it beats the tip t.
UpdateFlags(ix, t, b, own, child, below) ==
  LET up == [x \in Block |-> IF x \in Ancestors[b] THEN ix.flags[x] \ own ELSE ix.flags[x]]
      changed == {x \in Ancestors[b] : up[x] # ix.flags[x]}
      deepest == IF changed = {} THEN b
                 ELSE CHOOSE x \in changed : \A y \in changed : Height[x] <= Height[y]
      new == [x \in Block |-> (up[x] \ (IF b \in Ancestors[x] THEN child ELSE {}))
                                     \ (IF deepest \in Ancestors[x] THEN below ELSE {})]
      updated == {x \in Block : new[x] # ix.flags[x]}
      valid == {x \in updated : IsValid([ix EXCEPT !.flags = new], x, TRANSACTIONS)}
  IN  [ix EXCEPT !.flags = new, !.dirty = @ \cup updated, !.failed = @ \ valid,
                 !.cand = @ \cup {x \in valid \cap ix.linked : Worse(ix, t, x)}]

UnparkBlock(ix, t, b) ==
  UpdateFlags(ix, t, b, PARKED_MASK, {PARKED_PARENT}, {PARKED_PARENT})

UnparkBlockAndChildren(ix, t, b) ==
  UpdateFlags(ix, t, b, PARKED_MASK, PARKED_MASK, {PARKED_PARENT})

\* Variant of ResetBlockFailureFlags: descendants keep their marks.
Mut_ResetNotBelow(ix, t, b) == UpdateFlags(ix, t, b, INVALID_MASK, {}, {})

ResetBlockFailureFlags(ix, t, b) ==
  UpdateFlags(ix, t, b, INVALID_MASK, INVALID_MASK, {FAILED_PARENT})

\* The best header falls back to the tip, the finalization point to the parent.
InvalidChainFound(ch, b) ==
  [ch EXCEPT !.header = IF b \in Ancestors[@] THEN ch.tip ELSE @,
             !.finalized = IF @ # Null /\ b \in Ancestors[@] THEN Parent[b] ELSE @]

\* Variant of InvalidBlockFound: the block below is blamed.
Mut_InvalidParentFound(ix, b) ==
  [MarkFailed(ix, Parent[b]) EXCEPT !.failed = @ \cup {Parent[b]}, !.dirty = @ \cup {Parent[b]}]

InvalidBlockFound(ix, b) ==
  [MarkFailed(ix, b) EXCEPT !.failed = @ \cup {b}, !.dirty = @ \cup {b}]

\* The end of ConnectBlock.
ScriptsValid(ix, b) ==
  IF IsValid(ix, b, SCRIPTS) THEN ix
  ELSE [RaiseValidity(ix, b, SCRIPTS) EXCEPT !.dirty = @ \cup {b}]

\* DisconnectTip: a finalized tip moves finalization back with it.
Disconnected(ch) ==
  [ch EXCEPT !.tip = Parent[@], !.finalized = IF @ = ch.tip THEN Parent[@] ELSE @]

-----------------------------------------------------------------------------
(* Finalization.                                                            *)

\* The blocks FindBlockToFinalize may return for the new tip b: it walks down
\* from the block MaxReorgDepth below b to the finalized block and takes the
\* first one whose header is old enough.
FindBlockToFinalize(ch, b) ==
  {Null} \cup {f \in Ancestors[b] :
                 /\ Height[f] + MaxReorgDepth <= Height[b]
                 /\ ~ /\ ch.finalized # Null
                      /\ f \in Ancestors[ch.finalized]
                      /\ ch.finalized \in Ancestors[b]
                      /\ Height[ch.finalized] + MaxReorgDepth <= Height[b]}

CanFinalize(ix, ch, f) ==
  /\ ~IsInvalid(ix, f)
  /\ ch.finalized # Null => AreOnTheSameFork(f, ch.finalized)

FinalizeBlockInternal(ch, f) ==
  IF ch.finalized # Null /\ f \in Ancestors[ch.finalized] THEN ch
  ELSE [ch EXCEPT !.finalized = f]

\* The block that new headers must descend from.
FinalityAnchor ==
  IF chain.finalized # Null THEN chain.finalized
  ELSE IF MinimumChainWork > 0 /\ ChainWork[chain.tip] >= MinimumChainWork
  THEN CHOOSE a \in Ancestors[chain.tip] :
         IF Height[chain.tip] < MaxReorgDepth THEN a = Genesis
         ELSE Height[a] + MaxReorgDepth = Height[chain.tip]
  ELSE Null

-----------------------------------------------------------------------------
(* Headers and blocks arrive: AcceptBlockHeader, AcceptBlock.               *)

\* cs_main is free: ActivateBestChain is not between two of its micro-steps.
CsMainFree == abc.pc \in {"idle", "unlocked"}

\* ContextualCheckBlockHeader: no header that forks below the finality anchor.
DescendsFromAnchor(b) == FinalityAnchor # Null => FinalityAnchor \in Ancestors[b]

\* The failed blocks AcceptBlockHeader finds below a new header.
FailedBelow(b) ==
  IF IsValid(index, Parent[b], SCRIPTS) THEN {} ELSE index.failed \cap Ancestors[Parent[b]]

HeaderReaches(b) ==
  /\ CsMainFree
  /\ b \in Block \ Known(index)
  /\ Parent[b] \in Known(index)
  /\ ~IsInvalid(index, Parent[b])
  /\ DescendsFromAnchor(Parent[b])

\* AddToBlockIndex.
AcceptBlockHeader(b) ==
  /\ HeaderReaches(b)
  /\ FailedBelow(b) = {}
  /\ index' = [index EXCEPT !.validity[b] = TREE, !.dirty = @ \cup {b}]
  /\ chain' = [chain EXCEPT !.header = IF ChainWork[@] < ChainWork[b] THEN b ELSE @]
  /\ UNCHANGED <<ids, abc, wanted, unwind, disk, commands, restarts>>

\* The header is refused, and the blocks above the failed one are marked.
AcceptBlockHeader_Rejects(b) ==
  /\ HeaderReaches(b)
  /\ \E f \in FailedBelow(b) :
       LET between == Ancestors[Parent[b]] \ Ancestors[f]
       IN  index' = [index EXCEPT !.flags = [x \in Block |-> IF x \in between
                                                             THEN @[x] \cup {FAILED_PARENT}
                                                             ELSE @[x]],
                                  !.dirty = @ \cup between]
  /\ UNCHANGED <<chain, ids, abc, wanted, unwind, disk, commands, restarts>>

BlockReaches(b) ==
  /\ CsMainFree
  /\ b \in Known(index)
  /\ DATA \notin index.flags[b]
  /\ ~IsInvalid(index, b)

\* ContextualCheckBlock fails.
AcceptBlock_Fails(b) ==
  /\ BlockReaches(b)
  /\ b \in BadData
  /\ index' = [MarkFailed(index, b) EXCEPT !.dirty = @ \cup {b}]
  /\ UNCHANGED <<chain, ids, abc, wanted, unwind, disk, commands, restarts>>

\* Joining the active chain at b's branch would disconnect two blocks or more.
IsDeepReorg(b) == Height[LastCommonAncestor(b, chain.tip)] + 1 < Height[chain.tip]

\* Variant of LinkedWith: the blocks that waited for b are not looked at.
Mut_LinkedAlone(b) == {b}

\* The unlinked blocks that become connected to genesis with b: the queue in
\* ReceivedBlockTransactions.
LinkedWith(b) ==
  {b} \cup {d \in index.unlinked :
              /\ b \in Ancestors[d]
              /\ Ancestors[d] \ Ancestors[b] \subseteq index.unlinked}

\* Orders in which a queue that starts at the lowest block can serve S.
QueueOrders(S) ==
  {f \in [S -> 0 .. Cardinality(S) - 1] :
     /\ \A x, y \in S : f[x] = f[y] => x = y
     /\ \A x, y \in S : Height[x] < Height[y] => f[x] < f[y]}

\* Variant of ReceivedBlockTransactions: nChainTx is not set.
Mut_ReceivedNotLinked(ix, t, order) ==
  [ix EXCEPT !.cand = @ \cup {x \in DOMAIN order : ~Worse(ix, x, t)}]

ReceivedBlockTransactions(ix, t, order) ==
  LET S == DOMAIN order
      numbered == {x \in S : ix.seq[x] = 0}
      rank(x) == Cardinality({y \in numbered : order[y] < order[x]})
      seq == [x \in Block |-> IF x \in numbered THEN ids.seq + rank(x) ELSE ix.seq[x]]
      new == [ix EXCEPT !.seq = seq, !.linked = @ \cup S, !.unlinked = @ \ S]
  IN  [new EXCEPT !.cand = @ \cup {x \in S : ~Worse(new, x, t)}]

\* The block is parked if it asks for a deep reorganisation, stored, and linked
\* with the blocks that waited for it; ProcessNewBlock then calls
\* ActivateBestChain.
AcceptBlock(b) ==
  /\ BlockReaches(b)
  /\ b \notin BadData
  /\ LET park == IF ParkDeepReorg /\ IsDeepReorg(b) THEN {PARKED} ELSE {}
         stored == RaiseValidity([index EXCEPT !.flags[b] = @ \cup {DATA} \cup park,
                                               !.dirty = @ \cup {b}], b, TRANSACTIONS)
     IN  IF Parent[b] \in index.linked
         THEN \E order \in QueueOrders(LinkedWith(b)) :
                /\ index' = ReceivedBlockTransactions(stored, chain.tip, order)
                /\ ids' = [ids EXCEPT !.seq =
                             @ + Cardinality({x \in LinkedWith(b) : index.seq[x] = 0})]
         ELSE /\ index' = [stored EXCEPT !.unlinked = @ \cup
                             (IF IsValid(index, Parent[b], TREE) THEN {b} ELSE {})]
              /\ ids' = ids
  /\ wanted' = TRUE
  /\ UNCHANGED <<chain, abc, unwind, disk, commands, restarts>>

-----------------------------------------------------------------------------
(* ActivateBestChain.                                                       *)

Idle == [pc |-> "idle", mostWork |-> Null, start |-> Null, old |-> Null, low |-> Null]

\* ActivateBestChainStep begins, with the tip t: "low" is the last element of
\* vpindexToConnect, the lowest block of the batch it connects.
BeginStep(a, t, mostWork) ==
  [a EXCEPT !.pc = "step", !.mostWork = mostWork, !.old = t,
            !.low = NextTowards(LastCommonAncestor(mostWork, t), mostWork)]

\* Variants of EndStep: the call returns after one step; cs_main is released
\* after every step.
Mut_EndStepStops(a, ix, t, mostWork) == Idle
Mut_EndStepReleases(a, ix, t, mostWork) ==
  IF t = mostWork THEN Idle ELSE [Idle EXCEPT !.pc = "unlocked", !.mostWork = mostWork]

\* The conditions of the inner and of the outer loop, after a step that ended
\* with the tip t.
EndStep(a, ix, t, mostWork) ==
  IF t = mostWork THEN Idle
  ELSE IF ~Worse(ix, t, a.start) THEN [Idle EXCEPT !.pc = "unlocked", !.mostWork = mostWork]
  ELSE IF mostWork = Null THEN [a EXCEPT !.pc = "find", !.mostWork = Null]
  ELSE BeginStep(a, t, mostWork)

ActivateBestChain ==
  /\ abc.pc = "idle"
  /\ wanted
  /\ wanted' = FALSE
  /\ abc' = [abc EXCEPT !.pc = "unlocked"]
  /\ UNCHANGED <<index, chain, ids, unwind, disk, commands, restarts>>

\* cs_main is taken; a block found in an earlier round is used again.
ActivateBestChain_Lock ==
  /\ abc.pc = "unlocked"
  /\ LET locked == [abc EXCEPT !.start = chain.tip]
     IN  abc' = IF abc.mostWork = Null THEN [locked EXCEPT !.pc = "find"]
                ELSE IF abc.mostWork = chain.tip THEN Idle
                ELSE BeginStep(locked, chain.tip, abc.mostWork)
  /\ UNCHANGED <<index, chain, ids, wanted, unwind, disk, commands, restarts>>

\* A parked chain is unparked once it has the work of the active chain and a
\* penalty: half a block for a fork up to three blocks deep, then all the work
\* since the fork.
RequiredWork(t, fork) ==
  LET depth == Height[t] - Height[fork]
      extra == IF depth \in {2, 3} THEN Parent[t] ELSE t
      delta == ChainWork[extra] - ChainWork[fork]
  IN  ChainWork[t] + (IF depth \in 1..3 THEN delta \div 2 ELSE delta)

\* Variant of Conflicts: finalization is not consulted.
Mut_NoConflict(b) == FALSE

\* One round of FindMostWorkChain: the best candidate, marked failed if it
\* conflicts with the finalized block and unparked if it has enough work.
Conflicts(b) == chain.finalized # Null /\ ~AreOnTheSameFork(b, chain.finalized)

PathTo(b) == Ancestors[b] \ Ancestors[chain.tip]

\* The walk from b down stops at the first block that is unusable, so only the
\* parked blocks above it are unparked.
Highest(S) == CHOOSE x \in S : \A y \in S : Height[y] <= Height[x]

Examined(b) ==
  LET ix == IF Conflicts(b) THEN MarkFailed(index, b) ELSE index
      enough == /\ AutomaticUnparking
                /\ ChainWork[b] > RequiredWork(chain.tip, LastCommonAncestor(b, chain.tip))
      parked == {x \in PathTo(b) : IsOnParkedChain(ix, x)}
      above == {x \in parked : \A y \in PathTo(b) :
                                 Height[y] > Height[x] => ~IsInvalid(ix, y)}
  IN  IF enough /\ above # {} THEN UnparkBlock(ix, chain.tip, Highest(above)) ELSE ix

\* Variant of Unusable: the blocks on the way are not looked at.
Mut_NothingUnusable(ix, b) == {}

Unusable(ix, b) == {x \in PathTo(b) : IsInvalid(ix, x) \/ IsOnParkedChain(ix, x)}

FindMostWorkChain ==
  /\ abc.pc = "find"
  /\ IF index.cand = {}
     THEN abc' = Idle /\ UNCHANGED <<index, chain>>
     ELSE LET b == BestCandidate(index)
              ix == Examined(b)
          IN  /\ Unusable(ix, b) = {}
              /\ index' = ix
              /\ chain' = IF Conflicts(b) THEN InvalidChainFound(chain, b) ELSE chain
              /\ abc' = IF b = chain.tip THEN Idle ELSE BeginStep(abc, chain.tip, b)
  /\ UNCHANGED <<ids, wanted, unwind, disk, commands, restarts>>

\* The candidate is unusable because of the block "bad": everything above it is
\* marked and, with it, removed from the candidates.
FindMostWorkChain_Rejects ==
  /\ abc.pc = "find"
  /\ index.cand # {}
  /\ LET b == BestCandidate(index)
         ix == Examined(b)
         bad == Highest(Unusable(ix, b))
         above == Ancestors[b] \ Ancestors[bad]
         marks == (IF IsInvalid(ix, bad) THEN {FAILED_PARENT} ELSE {})
                  \cup (IF IsOnParkedChain(ix, bad) THEN {PARKED_PARENT} ELSE {})
     IN  /\ Unusable(ix, b) # {}
         /\ index' = [ix EXCEPT !.flags = [x \in Block |->
                                  IF x \in above
                                  THEN (@[x] \ {FAILED_PARENT, PARKED_PARENT}) \cup marks
                                  ELSE @[x]],
                                !.cand = @ \ (above \cup {bad})]
         /\ chain' = IF Conflicts(b) THEN InvalidChainFound(chain, b) ELSE chain
  /\ UNCHANGED <<ids, abc, wanted, unwind, disk, commands, restarts>>

\* DisconnectTip, while the tip is not on the chain of the chosen block.
ActivateBestChainStep_DisconnectTip ==
  /\ abc.pc = "step"
  /\ chain.tip \notin Ancestors[abc.mostWork]
  /\ chain' = Disconnected(chain)
  /\ UNCHANGED <<index, ids, abc, wanted, unwind, disk, commands, restarts>>

ToConnect(b) ==
  /\ abc.pc = "step"
  /\ chain.tip \in Ancestors[abc.mostWork]
  /\ b = NextTowards(chain.tip, abc.mostWork)

\* ConnectTip, then PruneBlockIndexCandidates.  The step ends when the tip has
\* more work than at its beginning.
ConnectTip(b) ==
  /\ ToConnect(b)
  /\ b \notin BadConnect
  /\ \E f \in FindBlockToFinalize(chain, b) :
       /\ f # Null => CanFinalize(index, chain, f)
       /\ chain' = [(IF f = Null THEN chain ELSE FinalizeBlockInternal(chain, f))
                      EXCEPT !.tip = b]
  /\ index' = PruneBlockIndexCandidates(ScriptsValid(index, b), b)
  /\ abc' = IF ChainWork[b] > ChainWork[abc.old] \/ b = abc.mostWork
            THEN EndStep(abc, index, b, abc.mostWork)
            ELSE IF Height[b] - Height[abc.low] + 1 = BatchSize
            THEN [abc EXCEPT !.low = NextTowards(b, abc.mostWork)]
            ELSE abc
  /\ UNCHANGED <<ids, wanted, unwind, disk, commands, restarts>>

\* ConnectBlock rejects the block: InvalidBlockFound for it, InvalidChainFound
\* for the lowest block of the batch, and the chosen block is forgotten.
ConnectTip_Invalid(b) ==
  /\ ToConnect(b)
  /\ b \in BadConnect
  /\ index' = InvalidBlockFound(index, b)
  /\ chain' = InvalidChainFound(InvalidChainFound(chain, b), abc.low)
  /\ abc' = EndStep(abc, index, chain.tip, Null)
  /\ UNCHANGED <<ids, wanted, unwind, disk, commands, restarts>>

\* ConnectBlock accepts the block, but the block to finalize is refused.
ConnectTip_CannotFinalize(b) ==
  /\ ToConnect(b)
  /\ b \notin BadConnect
  /\ \E f \in FindBlockToFinalize(chain, b) \ {Null} : ~CanFinalize(index, chain, f)
  /\ index' = ScriptsValid(index, b)
  /\ abc' = EndStep(abc, index, chain.tip, Null)
  /\ UNCHANGED <<chain, ids, wanted, unwind, disk, commands, restarts>>

-----------------------------------------------------------------------------
(* The operator's commands.  Every one but preciousblock on a block with too *)
(* little work ends with a call of ActivateBestChain.                        *)

Command(c, b) ==
  /\ CsMainFree
  /\ c \in Commands
  /\ commands < MaxCommands
  /\ b \in Known(index) \ {Genesis}
  /\ commands' = commands + 1

NotUnwinding == [pc |-> "idle", target |-> Null, mark |-> Null, own |-> FAILED]

OfParent(own) == IF own = FAILED THEN FAILED_PARENT ELSE PARKED_PARENT

\* invalidateblock and parkblock enter UnwindBlock.
UnwindBlock(c, b) ==
  /\ Command(c, b)
  /\ c \in {"invalidate", "park"}
  /\ unwind.pc = "idle"
  /\ unwind' = [pc |-> "walk", target |-> b, mark |-> b,
                own |-> IF c = "invalidate" THEN FAILED ELSE PARKED]
  /\ UNCHANGED <<index, chain, ids, abc, wanted, disk, restarts>>

\* One iteration: the tip is disconnected and marked, and the mark of the block
\* disconnected before it is corrected.
UnwindBlock_Disconnect ==
  /\ unwind.pc = "walk"
  /\ CsMainFree
  /\ unwind.target \in Ancestors[chain.tip]
  /\ chain' = Disconnected(chain)
  /\ LET t == chain.tip
         m == unwind.mark
         own == unwind.own
         marked == [index EXCEPT !.flags[t] = @ \cup {own}, !.dirty = @ \cup {t},
                                 !.cand = @ \cup {Parent[t]}]
     IN  index' = IF t = Parent[m] /\ own \in index.flags[m]
                  THEN [marked EXCEPT !.flags[m] = (@ \ {own}) \cup {OfParent(own)},
                                      !.dirty = @ \cup {m}]
                  ELSE marked
  /\ unwind' = [unwind EXCEPT !.mark = chain.tip]
  /\ UNCHANGED <<ids, abc, wanted, disk, commands, restarts>>

\* The loop ends, when the block has left the chain or a shutdown was requested;
\* cs_main is released before the block is marked.
UnwindBlock_Leave ==
  /\ unwind.pc = "walk"
  /\ CsMainFree
  /\ unwind' = [unwind EXCEPT !.pc = "mark"]
  /\ UNCHANGED <<index, chain, ids, abc, wanted, disk, commands, restarts>>

UnwindBlock_Mark ==
  /\ unwind.pc = "mark"
  /\ CsMainFree
  /\ LET m == unwind.mark
         own == unwind.own
         marked == [index EXCEPT !.flags[m] = @ \cup {own}, !.dirty = @ \cup {m},
                                 !.failed = IF own = FAILED THEN @ \cup {m} ELSE @]
     IN  IF m \in Ancestors[chain.tip]
         THEN UNCHANGED <<index, chain>>
         ELSE /\ index' = AddCandidates(marked, chain.tip)
              /\ chain' = IF own = FAILED THEN InvalidChainFound(chain, m) ELSE chain
  /\ unwind' = NotUnwinding
  /\ wanted' = TRUE
  /\ UNCHANGED <<ids, abc, disk, commands, restarts>>

ReconsiderBlock(b) ==
  /\ Command("reconsider", b)
  /\ index' = ResetBlockFailureFlags(index, chain.tip, b)
  /\ chain' = [chain EXCEPT !.finalized = IF @ = Null THEN Null ELSE LastCommonAncestor(b, @)]
  /\ wanted' = TRUE
  /\ UNCHANGED <<ids, abc, unwind, disk, restarts>>

Unpark(b) ==
  /\ Command("unpark", b)
  /\ index' = UnparkBlockAndChildren(index, chain.tip, b)
  /\ wanted' = TRUE
  /\ UNCHANGED <<chain, ids, abc, unwind, disk, restarts>>

\* The block gets a sequence id that beats every other block of equal work.
PreciousBlock(b) ==
  /\ Command("precious", b)
  /\ ChainWork[b] >= ChainWork[chain.tip]
  /\ LET id == IF ChainWork[chain.tip] > ids.lastPrecious THEN -1 ELSE ids.reverse
         ix == UnparkBlock([index EXCEPT !.cand = @ \ {b}, !.seq[b] = id], chain.tip, b)
     IN  /\ ids' = [ids EXCEPT !.reverse = id - 1, !.lastPrecious = ChainWork[chain.tip]]
         /\ index' = IF IsValid(ix, b, TRANSACTIONS) /\ b \in ix.linked
                     THEN PruneBlockIndexCandidates([ix EXCEPT !.cand = @ \cup {b}], chain.tip)
                     ELSE ix
  /\ wanted' = TRUE
  /\ UNCHANGED <<chain, abc, unwind, disk, restarts>>

\* FinalizeBlockAndInvalidate.  The command holds cs_main throughout, so the
\* blocks of the active chain that exclude b are unwound in one step.
FinalizeBlock(b) ==
  /\ Command("finalize", b)
  /\ CanFinalize(index, chain, b)
  /\ LET final == FinalizeBlockInternal(chain, b)
         ix == IF IsOnParkedChain(index, b) THEN UnparkBlock(index, chain.tip, b) ELSE index
         fork == LastCommonAncestor(b, chain.tip)
         low == NextTowards(fork, chain.tip)
         undone == Ancestors[chain.tip] \ Ancestors[fork]
         marked == [ix EXCEPT !.flags = [x \in Block |->
                                IF x \notin undone THEN @[x]
                                ELSE IF x = low THEN @[x] \cup {FAILED}
                                ELSE (@[x] \ {FAILED}) \cup {FAILED_PARENT}],
                              !.dirty = @ \cup undone,
                              !.cand = @ \cup {Parent[x] : x \in undone},
                              !.failed = @ \cup {low}]
     IN  IF undone = {} \/ b \in Ancestors[chain.tip]
         THEN index' = ix /\ chain' = final
         ELSE /\ index' = AddCandidates(marked, fork)
              /\ chain' = InvalidChainFound([final EXCEPT !.tip = fork], low)
  /\ wanted' = TRUE
  /\ UNCHANGED <<ids, abc, unwind, disk, restarts>>

-----------------------------------------------------------------------------
(* Restarts.                                                                *)

Entry(b) == [validity |-> index.validity[b], flags |-> index.flags[b]]

Flushed == [b \in Block |-> IF b \in index.dirty THEN Entry(b) ELSE disk[b]]

\* FlushStateToDisk writes the dirty entries of the block index.
FlushBlockIndex ==
  /\ CsMainFree
  /\ restarts < MaxRestarts
  /\ index.dirty # {}
  /\ disk' = Flushed
  /\ index' = [index EXCEPT !.dirty = {}]
  /\ UNCHANGED <<chain, ids, abc, wanted, unwind, commands, restarts>>

\* LoadBlockIndex: blocks in the order of their height.  A block that has not
\* failed itself is marked when its parent has.
LoadedIndex(db, complete) ==
  LET known == {b \in Block : db[b].validity # UNKNOWN}
      orphaned == {b \in known \ {Genesis} : /\ FAILED \notin db[b].flags
                                             /\ FAILED \in db[Parent[b]].flags}
      ix == [validity |-> [b \in Block |-> db[b].validity],
             flags |-> [b \in Block |-> IF b \in orphaned
                                        THEN db[b].flags \cup {FAILED_PARENT}
                                        ELSE db[b].flags],
             seq |-> [b \in Block |-> 0],
             linked |-> complete,
             unlinked |-> {b \in known \ complete : DATA \in db[b].flags},
             cand |-> {},
             failed |-> {},
             dirty |-> orphaned]
  IN  [ix EXCEPT !.cand = {b \in complete : IsValid(ix, b, TRANSACTIONS)}]

\* Variants of LoadBlockIndex: a block counts as linked when it has data itself;
\* only blocks with validated scripts become candidates.
Mut_LoadLinksAlone(db) == LoadedIndex(db, {b \in Block : DATA \in db[b].flags})
Mut_LoadFewCandidates(db) ==
  [LoadedIndex(db, {b \in Block : \A a \in Ancestors[b] : DATA \in db[a].flags})
     EXCEPT !.cand = {b \in @ : b = Genesis \/ db[b].validity = SCRIPTS}]

LoadBlockIndex(db) == LoadedIndex(db, {b \in Block : \A a \in Ancestors[b] : DATA \in db[a].flags})

\* A clean shutdown writes everything; LoadChainTip finds the tip in the coins
\* database, and the import thread calls ActivateBestChain.
Restart ==
  /\ restarts < MaxRestarts
  /\ restarts' = restarts + 1
  /\ CsMainFree
  /\ unwind.pc = "idle"
  /\ disk' = Flushed
  /\ LET ix == LoadBlockIndex(Flushed)
         headers == {b \in Known(ix) : IsValid(ix, b, TREE)}
     IN  /\ index' = PruneBlockIndexCandidates(ix, chain.tip)
         /\ chain' = [tip |-> chain.tip, finalized |-> Null,
                      header |-> CHOOSE h \in headers : \A b \in headers \ {h} : Worse(ix, b, h)]
  /\ ids' = [seq |-> 1, reverse |-> -1, lastPrecious |-> 0]
  /\ abc' = Idle
  /\ wanted' = TRUE
  /\ UNCHANGED <<unwind, commands>>

-----------------------------------------------------------------------------
(* The specification.                                                       *)

\* LoadGenesisBlock, and the first call of ActivateBestChain.
Init ==
  /\ index = [validity |-> [b \in Block |-> IF b = Genesis THEN TRANSACTIONS ELSE UNKNOWN],
              flags |-> [b \in Block |-> IF b = Genesis THEN {DATA} ELSE {}],
              seq |-> [b \in Block |-> IF b = Genesis THEN 1 ELSE 0],
              linked |-> {Genesis}, unlinked |-> {}, cand |-> {Genesis},
              failed |-> {}, dirty |-> {Genesis}]
  /\ chain = [tip |-> Genesis, finalized |-> Null, header |-> Genesis]
  /\ ids = [seq |-> 2, reverse |-> -1, lastPrecious |-> 0]
  /\ abc = Idle
  /\ wanted = FALSE
  /\ unwind = NotUnwinding
  /\ disk = [b \in Block |-> [validity |-> UNKNOWN, flags |-> {}]]
  /\ commands = 0
  /\ restarts = 0

Arrival ==
  \E b \in Block : \/ AcceptBlockHeader(b)
                   \/ AcceptBlockHeader_Rejects(b)
                   \/ AcceptBlock(b)
                   \/ AcceptBlock_Fails(b)

Activation ==
  \/ ActivateBestChain
  \/ ActivateBestChain_Lock
  \/ FindMostWorkChain
  \/ FindMostWorkChain_Rejects
  \/ ActivateBestChainStep_DisconnectTip
  \/ \E b \in Block : ConnectTip(b) \/ ConnectTip_Invalid(b) \/ ConnectTip_CannotFinalize(b)

Unwinding == UnwindBlock_Disconnect \/ UnwindBlock_Leave \/ UnwindBlock_Mark

Operator ==
  \E b \in Block : \/ \E c \in Commands : UnwindBlock(c, b)
                   \/ ReconsiderBlock(b)
                   \/ Unpark(b)
                   \/ PreciousBlock(b)
                   \/ FinalizeBlock(b)

Next == Arrival \/ Activation \/ Operator \/ Unwinding \/ FlushBlockIndex \/ Restart

Spec == Init /\ [][Next]_vars

\* A thread inside ActivateBestChain or UnwindBlock keeps running.
FairSpec == Spec /\ WF_vars(Activation) /\ WF_vars(Unwinding)

-----------------------------------------------------------------------------
(* Properties.                                                              *)

\* The state has the shape the code gives it: genesis is in the index, the
\* blocks of the active chain are linked, and finalization is in the index.
TypeOK ==
  /\ index \in BlockIndex
  /\ chain.tip \in index.linked
  /\ chain.finalized \in Known(index) \cup {Null}
  /\ chain.header \in Known(index)
  /\ abc.pc \in {"idle", "unlocked", "find", "step"}
  /\ abc.mostWork \in index.linked \cup {Null}
  /\ unwind.pc \in {"idle", "walk", "mark"}
  /\ commands \in 0..MaxCommands /\ restarts \in 0..MaxRestarts

HasFailedAncestor(b) == \E a \in Ancestors[b] : FAILED \in index.flags[a]
HasParkedAncestor(b) == \E a \in Ancestors[b] : PARKED \in index.flags[a]

HasAllData(b) == \A a \in Ancestors[b] : DATA \in index.flags[a]

\* CheckBlockIndex on linking: a block counts as linked exactly when it and all
\* its ancestors have data, and only linked blocks have a positive sequence id.
LinkedWhenComplete ==
  CsMainFree => \A b \in Known(index) : /\ b \in index.linked <=> HasAllData(b)
                                        /\ b \notin index.linked => index.seq[b] <= 0

\* CheckBlockIndex on waiting: "If this block has block data available, some
\* parent was never received, and has no invalid parents, it must be in
\* mapBlocksUnlinked", and only such blocks are.
WaitingBlocksRemembered ==
  CsMainFree =>
    \A b \in Known(index) :
      LET waits == DATA \in index.flags[b] /\ ~HasAllData(b)
      IN  /\ waits /\ ~HasFailedAncestor(b) => b \in index.unlinked
          /\ b \in index.unlinked => waits

\* A block that sorts at least as well as the tip, has all its data and is
\* neither invalid nor parked is a candidate, the tip is one, and no block that
\* is worse than the tip or incomplete is.
CandidatesAgree(ix, t) ==
  \A b \in Known(ix) :
    IF (\A a \in Ancestors[b] : DATA \in ix.flags[a]) /\ ~Worse(ix, b, t)
    THEN (\A a \in Ancestors[b] : FAILED \notin ix.flags[a])
           => b \in ix.cand \/ (IsOnParkedChain(ix, b) /\ b # t)
    ELSE b \notin ix.cand

\* CheckBlockIndex on candidates, whenever cs_main is free: whatever could become
\* the next tip is in setBlockIndexCandidates, and nothing else is.
CandidatesConsistent == CsMainFree => CandidatesAgree(index, chain.tip)

\* The assertions of CheckBlockIndex on the block index, whenever cs_main is free:
\* links, the blocks that wait for a parent, and the candidates agree with the
\* data that was received and with the tip.
CheckBlockIndex == TypeOK /\ LinkedWhenComplete /\ WaitingBlocksRemembered /\ CandidatesConsistent

\* CheckBlockIndex on marks: a block is marked invalid or parked only if it or
\* an ancestor carries the mark itself.
MarksHaveCause ==
  CsMainFree =>
    \A b \in Known(index) :
      /\ IsInvalid(index, b) => HasFailedAncestor(b)
      /\ IsOnParkedChain(index, b) => HasParkedAncestor(b)

\* FindMostWorkChain walks only to the active chain "as we know all blocks in it
\* are valid already": no block of the active chain is marked invalid.
ActiveChainValid ==
  CsMainFree /\ unwind.pc = "idle" => \A b \in Ancestors[chain.tip] : ~IsInvalid(index, b)

\* Blocks that could be the tip: the node has all their data and they break no
\* consensus rule, are not parked or marked invalid, and do not conflict with
\* finalization.
Eligible(b) ==
  /\ b \in index.linked
  /\ Ancestors[b] \cap (BadConnect \cup BadData) = {}
  /\ ~\E a \in Ancestors[b] : IsInvalid(index, a) \/ IsOnParkedChain(index, a)
  /\ ~Conflicts(b)

\* Once no call of ActivateBestChain is pending, the tip is the best block that
\* could be the tip.
TipIsBest ==
  abc.pc = "idle" /\ ~wanted /\ unwind.pc = "idle"
    => \A b \in Block : Eligible(b) => ~Worse(index, chain.tip, b)

\* ActivateBestChain "absolutely may not unlock cs_main until we've made forward
\* progress": when it does, the tip is not worse than when it took cs_main, even
\* if the chain it tried to move to turned out to be invalid.
NoWorkLost ==
  [][abc.pc \in {"find", "step"} /\ abc'.pc \in {"idle", "unlocked"}
       => ~Worse(index', chain'.tip, abc.start)]_vars

\* ActivateBestChain never disconnects the finalized block, which "cannot be
\* reorged in any way, shape or form".
FinalizedStays ==
  [][abc.pc = "step" /\ chain.finalized # Null /\ chain.finalized \in Ancestors[chain.tip]
       => chain.finalized \in Ancestors[chain'.tip]]_vars

\* A call of ActivateBestChain returns, and a wanted one is made.
ActivationEnds == []<>(abc.pc = "idle" /\ ~wanted)

\* AcceptBlockHeader asserts that a block it finds in m_failed_blocks below a
\* new header has failed.
FailedBlocksFailed ==
  \A b \in Block : HeaderReaches(b) => \A f \in FailedBelow(b) : FAILED \in index.flags[f]

-----------------------------------------------------------------------------
(* Statements of the code's comments and help texts that it does not keep;   *)
(* the README gives the instances that refute them.                         *)

\* "Any chain that does not contain this block is invalid" (finalizeblock): the
\* active chain contains the finalized block or is contained in its chain.
TipAgreesWithFinality ==
  CsMainFree /\ chain.finalized # Null => AreOnTheSameFork(chain.tip, chain.finalized)

\* CandidatesConsistent where ActivateBestChain calls CheckBlockIndex, before it
\* releases cs_main; a concurrent UnwindBlock breaks it.
CandidatesAtRelease ==
  [][abc.pc \in {"find", "step"} /\ abc'.pc \in {"idle", "unlocked"}
       => CandidatesAgree(index', chain'.tip)]_vars

\* pindexBestHeader is the "best header we've seen so far": it never has less
\* work than the tip.
HeaderNotBehindTip == CsMainFree => ChainWork[chain.tip] <= ChainWork[chain.header]

\* LoadBlockIndex marks "descendants of invalid blocks as FAILED_CHILD" at
\* startup: after a restart no block below a failed one looks valid.
DescendantsMarkedAtStartup ==
  [][restarts' # restarts
       => \A b \in Known(index') : (\E a \in Ancestors[b] : FAILED \in index'.flags[a])
                                     => IsInvalid(index', b)]_vars
=============================================================================
