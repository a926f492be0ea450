------------------------------- MODULE Mempool -------------------------------
(***************************************************************************)
(* The memory pool (src/txmempool.h, src/txmempool.cpp): the transactions   *)
(* waiting for a block, the maps CTxMemPool keeps over them, their          *)
(* double-spend proofs, and how a reorganization takes them out and puts    *)
(* them back in topological order (DisconnectedBlockTransactions), driven   *)
(* by AcceptToMemoryPool, ActivateBestChainStep and UnwindBlock             *)
(* (src/validation.cpp).                                                    *)
(*                                                                          *)
(* A section under cs_main is a step, or several when it is long: "act" and *)
(* "unwind" say how far the two threads that move the tip are, "atmp" how   *)
(* far the call of AcceptToMemoryPoolWorker is that one of them, or a thread *)
(* with a new transaction, has made.  UnwindBlock does not hold              *)
(* m_cs_chainstate and gives cs_main back between two blocks, so everything  *)
(* else runs in between; periodicCleanup runs between any two steps.        *)
(*                                                                          *)
(* Fees, sizes and times only decide which transactions leave a full pool   *)
(* or expire: the choice is free here.  Memory usage is the number of       *)
(* transactions.  Prioritisation and the rolling minimum fee are left out.  *)
(* LoadMempool is a series of calls of AcceptToMemoryPool.                  *)
(***************************************************************************)
EXTENDS BlockTree, DSProofStorage

CONSTANTS Tx,          \* TxIds: numbers, as std::set and the blocks order them
          Coinbase,    \* the coinbase transactions
          Inputs,      \* [Tx -> set of outpoints]; an outpoint is <<txid, n>>
          NumOutputs,  \* [Tx -> Nat]
          FirstHeight, \* [Tx -> Nat]: the first height at which it is final,
                       \* mature and unlocked
          GoodFlags,   \* [Tx -> set of script flags under which it verifies]
          TxsOf,       \* [Block -> Seq(Tx)]: vtx
          OutPoint,    \* [Proof -> outpoint]: what the proof says is spent twice
          GoodProof,   \* the proofs whose signatures verify
          Flags,       \* [Block -> script flags]: GetNextBlockScriptFlags
          BadConnect,  \* the blocks that ConnectBlock finds invalid
          Unwindable,  \* the blocks invalidateblock and parkblock are called for
          MaxDisconnectPoolBlocks, \* 10 in UnwindBlock
          MaxPool,     \* the limit of TrimToSize
          MaxQueue,    \* maxDynamicUsage of DisconnectedBlockTransactions
          QuietUnwind  \* no transaction arrives between the first block that
                       \* UnwindBlock disconnects and the last

Outputs(t) == {t} \X (0..NumOutputs[t] - 1)

ParentIds(t) == {o[1] : o \in Inputs[t]}

\* A block spends what its chain or the block itself creates, and nothing twice;
\* the transactions after the coinbase are in the order of their ids.
ASSUME MempoolAssumption ==
  /\ Tx \subseteq Nat /\ Coinbase \subseteq Tx
  /\ \A t \in Tx : Inputs[t] \subseteq UNION {Outputs(u) : u \in Tx}
  /\ \A b \in Block : TxsOf[b] \in Seq(Tx)
  /\ BadConnect \subseteq Block \ {Genesis}
  /\ MaxPool \in Nat /\ MaxQueue \in Nat /\ MaxDisconnectPoolBlocks \in Nat

ChainTxs(b) == UNION {ToSet(TxsOf[a]) : a \in Ancestors[b]}

\* pcoinsTip, when the tip is b.
Coins == [b \in Block |-> UNION {Outputs(t) : t \in ChainTxs(b)}
                            \ UNION {Inputs[t] : t \in ChainTxs(b)}]

VARIABLES tip,    \* m_chain.Tip()
          failed, \* the blocks marked failed or parked
          pool,   \* g_mempool
          act,    \* the thread in ActivateBestChainStep
          unwind, \* the thread in UnwindBlock
          atmp,   \* the thread in AcceptToMemoryPoolWorker
          stuck   \* importMempool's temporary object was destroyed non-empty

vars == <<tip, failed, pool, act, unwind, atmp, stuck>>

-----------------------------------------------------------------------------
(* CTxMemPool.  order: mapTx in the order of entry ids.  next: mapNextTx.   *)
(* parents and children: mapLinks, as sets of pairs <<entry, relative>>.    *)
(* dsp: the proofs of entries, as pairs <<entry, proof>>.                   *)

EmptyPool == [order |-> <<>>, next |-> <<>>, parents |-> {}, children |-> {}, dsp |-> {},
              m_dspStorage |-> EmptyStorage]

Entries(p) == ToSet(p.order)

\* The entry goes to the end of the entry_id index and is linked with its parents.
addUnchecked(p, t) ==
  LET setParents == ParentIds(t) \cap Entries(p)
  IN [order |-> Append(p.order, t),
      next |-> [o \in DOMAIN p.next \cup Inputs[t] |->
                  IF o \in DOMAIN p.next THEN p.next[o] ELSE t],
      parents |-> p.parents \cup {<<t, u>> : u \in setParents},
      children |-> p.children \cup {<<u, t>> : u \in setParents},
      dsp |-> p.dsp,
      m_dspStorage |-> p.m_dspStorage]

\* The links of the relatives of the entries are severed, which are found through
\* the links of the entries themselves.
UpdateForRemoveFromMempool(p, stage) ==
  LET Severed(links, other) ==
        {l \in links : ~(l[2] \in stage /\ <<l[2], l[1]>> \in other)}
  IN [p EXCEPT !.parents = Severed(p.parents, p.children),
               !.children = Severed(p.children, p.parents)]

\* The proof of the entry becomes an orphan.
removeUnchecked(p, t) ==
  LET own == {d \in p.dsp : d[1] = t}
  IN [order |-> Remove(p.order, t),
      next |-> [o \in DOMAIN p.next \ Inputs[t] |-> p.next[o]],
      parents |-> {l \in p.parents : l[1] # t},
      children |-> {l \in p.children : l[1] # t},
      dsp |-> p.dsp \ own,
      m_dspStorage |-> IF own = {} THEN p.m_dspStorage
                       ELSE orphanExisting(p.m_dspStorage, (CHOOSE d \in own : TRUE)[2])]

\* setEntries is ordered by TxId.
RemoveStaged(p, stage) ==
  FoldLeft(removeUnchecked, UpdateForRemoveFromMempool(p, stage),
           SortSeq(SelectSeq(p.order, LAMBDA t : t \in stage), <))

\* The entries of "seeds" and what children links lead to from them.
CalculateDescendants(p, seeds) ==
  {t \in Entries(p) :
     \A S \in SUBSET Entries(p) :
       seeds \subseteq S /\ (\A l \in p.children : l[1] \in S => l[2] \in S)
         => t \in S}

\* The transaction, or its children when it is not in the pool itself.
removeRecursive(p, t) ==
  LET txToRemove == IF t \in Entries(p) THEN {t}
                    ELSE {p.next[o] : o \in DOMAIN p.next \cap Outputs(t)}
  IN RemoveStaged(p, CalculateDescendants(p, txToRemove))

removeConflicts(p, t) ==
  RemoveStaged(p, CalculateDescendants(p, {p.next[o] : o \in DOMAIN p.next \cap Inputs[t]} \ {t}))

-----------------------------------------------------------------------------
(* DisconnectedBlockTransactions: queuedTx is a sequence without duplicates. *)

\* A transaction already queued is reinserted at the end.
Reinsert(q, t) == Append(Remove(q, t), t)

\* The loop that moves the queued ancestors of a transaction behind it, the
\* parents of one round making the worklist of the next.
RECURSIVE ReinsertAncestors(_, _)
ReinsertAncestors(q, worklist) ==
  LET found == worklist \cap ToSet(q)
  IN IF found = {} THEN q
     ELSE ReinsertAncestors(FoldLeft(Reinsert, q, SetToSortSeq(found, <)),
                            UNION {ParentIds(t) : t \in found})

\* Mutant of addTransaction: the queued parents stay where they are.
Mut_ParentsNotMoved(q, t) == IF t \in ToSet(q) THEN q ELSE Append(q, t)

addTransaction(q, t) ==
  IF t \in ToSet(q) THEN q ELSE ReinsertAncestors(Append(q, t), ParentIds(t))

\* The transactions of a block in topological order, children first.
Sorted(q, vtx) == FoldLeft(addTransaction, q, Reverse(vtx))

\* The entries above the limit, oldest first.
Excess(q) == SubSeq(q, 1, Len(q) - MaxQueue)
Limited(q) == SubSeq(q, Len(Excess(q)) + 1, Len(q))

\* Queue and pool after addForBlock: a transaction dropped from the queue takes
\* its descendants out of the pool.
addForBlock(q, p, vtx) ==
  LET all == Sorted(q, vtx)
  IN [queue |-> Limited(all), pool |-> FoldLeft(removeRecursive, p, Excess(all))]

\* The pool sorted, in front of the queue.  splice moves the elements that are
\* not in the queue yet.
importMempool(q, p) ==
  Limited(SelectSeq(Sorted(<<>>, p.order), LAMBDA t : t \notin ToSet(q)) \o q)

\* What importMempool leaves of the pool: the proofs, as orphans.
Imported(p) == [EmptyPool EXCEPT !.m_dspStorage = ClearClaimed(orphanAll(p.m_dspStorage))]

\* DisconnectedBlockTransactions::removeForBlock
Dequeue(q, vtx) == SelectSeq(q, LAMBDA t : t \notin ToSet(vtx))

\* Mutant of removeForBlock: conflicts are not looked for.
Mut_ConflictsStay(p, vtx) == RemoveStaged(p, ToSet(vtx) \cap Entries(p))

\* CTxMemPool::removeForBlock: parents first.
removeForBlock(p, vtx) ==
  LET Confirm(r, t) == IF t \in Entries(r) THEN RemoveStaged(r, {t})
                       ELSE removeConflicts(r, t)
  IN FoldLeft(Confirm, p, Reverse(Sorted(<<>>, vtx)))

-----------------------------------------------------------------------------
(* AcceptToMemoryPoolWorker.                                                *)

Final(b, t) == FirstHeight[t] <= Height[b] + 1 /\ Flags[b] \in GoodFlags[t]

\* view.HaveCoin: an output of the pool, or of the chain when the pool does not
\* hold the transaction.
HaveCoin(p, b, o) == IF o[1] \in Entries(p) THEN o \in Outputs(o[1]) ELSE o \in Coins[b]

\* The checks in front of addUnchecked.
Acceptable(p, b, t) ==
  /\ t \notin Coinbase
  /\ t \notin Entries(p)
  /\ Inputs[t] \cap DOMAIN p.next = {}
  /\ \A o \in Inputs[t] : HaveCoin(p, b, o)
  /\ Final(b, t)
  /\ Outputs(t) \cap DOMAIN p.next = {}

addDoubleSpendProof(p, proof, entry) ==
  IF \E d \in p.dsp : d[1] = entry THEN p
  ELSE [p EXCEPT !.m_dspStorage = add(@, proof), !.dsp = @ \cup {<<entry, proof>>}]

\* findOrphans for each input, on the pool before the transaction is added.
RescuedDSPOrphans(p, t) ==
  SelectSeq(p.m_dspStorage.orphans, LAMBDA proof : OutPoint[proof] \in Inputs[t])

\* What a transaction that is refused for a conflict leaves: a proof for the first
\* output that it and an entry spend, unless the entry has one or the transactions
\* are of a kind that has none.
DoubleSpent(p, t) ==
  LET made == {proof \in GoodProof : OutPoint[proof] \in Inputs[t] \cap DOMAIN p.next}
  IN IF t \in Coinbase \cup Entries(p) THEN {p}
     ELSE {p} \cup {addDoubleSpendProof(p, proof, p.next[OutPoint[proof]]) : proof \in made}

\* Expire goes through the entries in the order of their ids and stops at the
\* first that is young enough.
Expire(p) ==
  {RemoveStaged(p, CalculateDescendants(p, ToSet(SubSeq(p.order, 1, k)))) :
     k \in 0..Len(p.order)}

\* TrimToSize removes an entry with its descendants, while there are too many.
TrimToSize(p) ==
  LET Left(S) == Len(p.order) - Cardinality(CalculateDescendants(p, S))
  IN IF Len(p.order) <= MaxPool THEN {p}
     ELSE {RemoveStaged(p, CalculateDescendants(p, S)) :
             S \in {S \in SUBSET Entries(p) :
                      Left(S) <= MaxPool /\ \E t \in S : Left(S \ {t}) > MaxPool}}

LimitSize(p) == UNION {TrimToSize(r) : r \in Expire(p)}

-----------------------------------------------------------------------------
(* DisconnectTip and ConnectTip, on a disconnectpool and the pool.          *)

ChangesRules(b) == Flags[b] # Flags[Parent[b]]

\* splice leaves elements behind, and the destructor of importMempool's temporary
\* object asserts that it does not.
SpliceLeaves(b, q, p) == ChangesRules(b) /\ ToSet(q) \cap Entries(p) # {}

\* "kept": the caller gave a disconnectpool.
DisconnectTip(q, p, b, kept) ==
  LET imported == IF ChangesRules(b) /\ kept THEN importMempool(q, p) ELSE q
      cleared == IF ChangesRules(b) THEN EmptyPool ELSE p
  IN IF kept THEN addForBlock(imported, cleared, TxsOf[b])
     ELSE [queue |-> imported, pool |-> cleared]

\* Mutant of ConnectTip: the pool is not imported when the rules change.
Mut_RulesIgnored(q, p, b) ==
  [queue |-> Dequeue(q, TxsOf[b]), pool |-> removeForBlock(p, TxsOf[b])]

ConnectTip(q, p, b) ==
  LET left == Dequeue(q, TxsOf[b])
      unconfirmed == removeForBlock(p, TxsOf[b])
  IN IF ChangesRules(b)
     THEN [queue |-> importMempool(left, unconfirmed), pool |-> Imported(unconfirmed)]
     ELSE [queue |-> left, pool |-> unconfirmed]

-----------------------------------------------------------------------------
(* The threads.  atmp.stage: behind addUnchecked, LimitSize or the lookup of a *)
(* rescued proof, or between two transactions of updateMempoolForReorg, of     *)
(* which atmp.left are still to come.                                          *)

CsMainFree == act.stage = "idle" /\ unwind.stage # "limit" /\ atmp.stage = "idle"

IdleAtmp == [stage |-> "idle", tx |-> 0, rescued |-> <<>>, left |-> <<>>]

\* The caller goes on.
Return(left) ==
  atmp' = IF left = <<>> THEN IdleAtmp ELSE [IdleAtmp EXCEPT !.stage = "resurrect", !.left = left]

\* The loop over the rescued proofs: the next one, or the end.
Rescue(t, rescued, left) ==
  IF rescued = <<>> THEN Return(left)
  ELSE atmp' = [stage |-> "lookup", tx |-> t, rescued |-> rescued, left |-> left]

\* A transaction arrives from a peer, the wallet, an RPC or mempool.dat: from the
\* first check to addUnchecked.
AcceptToMemoryPool ==
  /\ CsMainFree
  /\ QuietUnwind => ~(unwind.stage = "loop" /\ unwind.mark # unwind.target)
  /\ \E t \in Tx :
       /\ Acceptable(pool, tip, t)
       /\ pool' = addUnchecked(pool, t)
       /\ atmp' = [stage |-> "limit", tx |-> t, rescued |-> RescuedDSPOrphans(pool, t), left |-> <<>>]
  /\ UNCHANGED <<tip, failed, act, unwind, stuck>>

\* The call ends here if the transaction itself is trimmed.
AcceptToMemoryPool_Limits ==
  /\ atmp.stage = "limit"
  /\ pool' \in LimitSize(pool)
  /\ Rescue(atmp.tx, IF atmp.tx \in Entries(pool') THEN atmp.rescued ELSE <<>>, <<>>)
  /\ UNCHANGED <<tip, failed, act, unwind, stuck>>

\* A proof that is no longer stored is looked up as an empty one, which does not
\* validate.  remove takes m_lock again; what expires before it changes nothing.
AcceptToMemoryPool_LooksUp ==
  LET proof == Head(atmp.rescued)
  IN /\ atmp.stage = "lookup"
     /\ IF proof \in Orphans(pool.m_dspStorage) \cap GoodProof
        THEN atmp' = [atmp EXCEPT !.stage = "claim"] /\ UNCHANGED pool
        ELSE /\ pool' = [pool EXCEPT !.m_dspStorage = remove(@, proof)]
             /\ Rescue(atmp.tx, Tail(atmp.rescued), atmp.left)
     /\ UNCHANGED <<tip, failed, act, unwind, stuck>>

\* Mutant of Claimed: the entry gets the proof, which is only unflagged.
Mut_ClaimOrphan(p, proof, t) ==
  [p EXCEPT !.dsp = @ \cup {<<t, proof>>},
            !.m_dspStorage = IF proof \in Orphans(@) THEN add(@, proof) ELSE @]

\* The copy that was validated is added, whether the store still has it or not.
Claimed(p, proof, t) == addDoubleSpendProof(p, proof, t)

\* The proof of the new entry; the rescued proofs behind it are not needed.
AcceptToMemoryPool_Claims ==
  /\ atmp.stage = "claim"
  /\ LET p == Claimed(pool, Head(atmp.rescued), atmp.tx)
     IN pool' = [p EXCEPT !.m_dspStorage = FoldLeft(remove, @, Tail(atmp.rescued))]
  /\ Return(atmp.left)
  /\ UNCHANGED <<tip, failed, act, unwind, stuck>>

\* A transaction that conflicts with an entry.
AcceptToMemoryPool_DoubleSpend ==
  /\ CsMainFree
  /\ \E t \in Tx : pool' \in DoubleSpent(pool, t)
  /\ UNCHANGED <<tip, failed, act, unwind, atmp, stuck>>

\* The next of the resurrected transactions, with bypass_limits.  LimitSize follows
\* the last one.
updateMempoolForReorg ==
  LET t == Head(atmp.left)
  IN /\ atmp.stage = "resurrect"
     /\ IF Acceptable(pool, tip, t)
        THEN pool' = addUnchecked(pool, t) /\ Rescue(t, RescuedDSPOrphans(pool, t), Tail(atmp.left))
        ELSE pool' \in DoubleSpent(pool, t) /\ Return(Tail(atmp.left))
     /\ UNCHANGED <<tip, failed, act, unwind, stuck>>

\* A proof arrives in a DSPROOF message or from dsproofs.dat: MissingUTXO and
\* MissingTransaction make it an orphan; an invalid one leaves no trace.
ReceiveDSProof ==
  /\ CsMainFree
  /\ \E proof \in Proof :
       LET o == OutPoint[proof]
       IN pool' = IF ~HaveCoin(pool, tip, o) \/ o \notin DOMAIN pool.next
                  THEN [pool EXCEPT !.m_dspStorage = addOrphan(@, proof)]
                  ELSE IF proof \in GoodProof
                  THEN addDoubleSpendProof(pool, proof, pool.next[o]) ELSE pool
  /\ UNCHANGED <<tip, failed, act, unwind, atmp, stuck>>

\* A task of the scheduler, which needs no lock but m_lock.
periodicCleanup ==
  /\ \E k \in 1..Len(pool.m_dspStorage.orphans) :
       pool' = [pool EXCEPT !.m_dspStorage = Expired(@, k)]
  /\ UNCHANGED <<tip, failed, act, unwind, atmp, stuck>>

IdleAct == [stage |-> "idle", queue |-> <<>>, disconnected |-> FALSE,
            oldTip |-> Genesis, target |-> Genesis]

\* FindMostWorkChain found a better chain among the blocks that have arrived.
ActivateBestChainStep_Begins ==
  /\ CsMainFree
  /\ \E b \in Block :
       /\ Height[b] > Height[tip] /\ Ancestors[b] \cap failed = {}
       /\ act' = [IdleAct EXCEPT !.stage = "step", !.oldTip = tip, !.target = b]
  /\ UNCHANGED <<tip, failed, pool, unwind, atmp, stuck>>

\* The first DisconnectTip comes after importMempool.
ActivateBestChainStep_Disconnects ==
  /\ act.stage = "step" /\ tip \notin Ancestors[act.target]
  /\ LET q == IF act.disconnected THEN act.queue ELSE importMempool(act.queue, pool)
         p == IF act.disconnected THEN pool ELSE Imported(pool)
         d == DisconnectTip(q, p, tip, TRUE)
     IN /\ act' = [act EXCEPT !.queue = d.queue, !.disconnected = TRUE]
        /\ pool' = d.pool
        /\ stuck' = (stuck \/ SpliceLeaves(tip, q, p))
  /\ tip' = Parent[tip]
  /\ UNCHANGED <<failed, unwind, atmp>>

\* After the loops: is there anything to put back?
AfterLoops(a) == [a EXCEPT !.stage = IF a.disconnected \/ a.queue # <<>> THEN "update" ELSE "idle"]

Settled(a) == IF AfterLoops(a).stage = "idle" THEN IdleAct ELSE AfterLoops(a)

Connecting(b) == /\ act.stage = "step" /\ tip \in Ancestors[act.target]
                 /\ b = NextTowards(tip, act.target)

\* The step ends at the target, or once the new tip is better than the old one.
ActivateBestChainStep_Connects ==
  /\ \E b \in Block \ BadConnect :
       /\ Connecting(b)
       /\ LET c == ConnectTip(act.queue, pool, b)
              a == [act EXCEPT !.queue = c.queue]
          IN /\ pool' = c.pool
             /\ act' = IF b = act.target \/ Height[b] > Height[act.oldTip]
                       THEN Settled(a) ELSE a
             /\ stuck' = (stuck \/ SpliceLeaves(b, act.queue, removeForBlock(pool, TxsOf[b])))
       /\ tip' = b
  /\ UNCHANGED <<failed, unwind, atmp>>

\* fInvalidFound
ActivateBestChainStep_FindsInvalid ==
  /\ \E b \in BadConnect : Connecting(b) /\ failed' = failed \cup {b}
  /\ act' = Settled(act)
  /\ UNCHANGED <<tip, pool, unwind, atmp, stuck>>

\* A block cannot be read: updateMempoolForReorg(config, false).  The shutdown
\* that AbortNode requests does not stop the other threads at once.
ActivateBestChainStep_Fails ==
  /\ act.stage = "step"
  /\ pool' \in IF tip \in Ancestors[act.target] \/ act.disconnected
               THEN LimitSize(pool) ELSE {Imported(pool)}
  /\ act' = IdleAct
  /\ UNCHANGED <<tip, failed, unwind, atmp, stuck>>

ActivateBestChainStep_Updates ==
  /\ act.stage = "update"
  /\ Return(Reverse(act.queue))
  /\ act' = [act EXCEPT !.stage = "limit"]
  /\ UNCHANGED <<tip, failed, pool, unwind, stuck>>

ActivateBestChainStep_Limits ==
  /\ act.stage = "limit" /\ atmp.stage = "idle"
  /\ pool' \in LimitSize(pool)
  /\ act' = IdleAct
  /\ UNCHANGED <<tip, failed, unwind, atmp, stuck>>

IdleUnwind == [stage |-> "idle", queue |-> <<>>, disconnected |-> 0, ret |-> FALSE,
               target |-> Genesis, mark |-> Genesis]

\* invalidateblock or parkblock.
UnwindBlock ==
  /\ unwind.stage = "idle"
  /\ \E b \in Unwindable \ failed :
       unwind' = [IdleUnwind EXCEPT !.stage = "loop", !.target = b, !.mark = b]
  /\ UNCHANGED <<tip, failed, pool, act, atmp, stuck>>

\* A turn of the loop: queue and pool as DisconnectTip finds them.
FirstTurn == unwind.disconnected = 0
UnwindQueue == IF FirstTurn THEN importMempool(<<>>, pool) ELSE unwind.queue
UnwindPool == IF FirstTurn THEN Imported(pool) ELSE pool

UnwindBlock_Disconnects ==
  /\ CsMainFree /\ unwind.stage = "loop" /\ unwind.target \in Ancestors[tip]
  /\ LET kept == unwind.disconnected <= MaxDisconnectPoolBlocks
         d == DisconnectTip(UnwindQueue, UnwindPool, tip, kept)
     IN /\ unwind' = [unwind EXCEPT !.queue = d.queue, !.mark = tip, !.ret = TRUE,
                                    !.disconnected = @ + 1]
        /\ pool' = d.pool
        /\ stuck' = (stuck \/ (kept /\ SpliceLeaves(tip, UnwindQueue, UnwindPool)))
  /\ failed' = failed \cup {tip}
  /\ tip' = Parent[tip]
  /\ UNCHANGED <<act, atmp>>

\* DisconnectTip cannot read the block.
UnwindBlock_Fails ==
  /\ CsMainFree /\ unwind.stage = "loop" /\ unwind.target \in Ancestors[tip]
  /\ pool' = UnwindPool
  /\ unwind' = IF UnwindQueue = <<>> THEN IdleUnwind
               ELSE [unwind EXCEPT !.queue = UnwindQueue, !.ret = FALSE, !.stage = "deferred"]
  /\ UNCHANGED <<tip, failed, act, atmp, stuck>>

\* The block has left the chain, or a shutdown was requested meanwhile.
UnwindBlock_LeavesLoop ==
  /\ CsMainFree /\ unwind.stage = "loop"
  /\ unwind' = [unwind EXCEPT !.stage = IF unwind.queue = <<>> THEN "mark" ELSE "deferred"]
  /\ UNCHANGED <<tip, failed, pool, act, atmp, stuck>>

\* The deferred update: cs_main was free since the last DisconnectTip.
UnwindBlock_Updates ==
  /\ CsMainFree /\ unwind.stage = "deferred"
  /\ Return(IF unwind.ret THEN Reverse(unwind.queue) ELSE <<>>)
  /\ unwind' = [unwind EXCEPT !.stage = "limit"]
  /\ UNCHANGED <<tip, failed, pool, act, stuck>>

UnwindBlock_Limits ==
  /\ unwind.stage = "limit" /\ atmp.stage = "idle"
  /\ pool' \in LimitSize(pool)
  /\ unwind' = IF unwind.ret THEN [unwind EXCEPT !.stage = "mark", !.queue = <<>>]
               ELSE IdleUnwind
  /\ UNCHANGED <<tip, failed, act, atmp, stuck>>

\* The mark, unless something put the block back in the chain.
UnwindBlock_Marks ==
  /\ CsMainFree /\ unwind.stage = "mark"
  /\ failed' = IF unwind.mark \in Ancestors[tip] THEN failed ELSE failed \cup {unwind.mark}
  /\ unwind' = IdleUnwind
  /\ UNCHANGED <<tip, pool, act, atmp, stuck>>

Init ==
  /\ tip = Genesis /\ failed = {} /\ pool = EmptyPool
  /\ act = IdleAct /\ unwind = IdleUnwind /\ atmp = IdleAtmp /\ stuck = FALSE

Next ==
  \/ AcceptToMemoryPool
  \/ AcceptToMemoryPool_Limits
  \/ AcceptToMemoryPool_LooksUp
  \/ AcceptToMemoryPool_Claims
  \/ AcceptToMemoryPool_DoubleSpend
  \/ updateMempoolForReorg
  \/ ReceiveDSProof
  \/ periodicCleanup
  \/ ActivateBestChainStep_Begins
  \/ ActivateBestChainStep_Disconnects
  \/ ActivateBestChainStep_Connects
  \/ ActivateBestChainStep_FindsInvalid
  \/ ActivateBestChainStep_Fails
  \/ ActivateBestChainStep_Updates
  \/ ActivateBestChainStep_Limits
  \/ UnwindBlock
  \/ UnwindBlock_Disconnects
  \/ UnwindBlock_Fails
  \/ UnwindBlock_LeavesLoop
  \/ UnwindBlock_Updates
  \/ UnwindBlock_Limits
  \/ UnwindBlock_Marks

Spec == Init /\ [][Next]_vars

-----------------------------------------------------------------------------
\* Type invariant: no coinbase enters the pool, and mapNextTx, the disconnectpools
\* and the stages of the threads stay well formed.
TypeOK ==
  /\ tip \in Block /\ failed \subseteq Block
  /\ Entries(pool) \subseteq Tx \ Coinbase
  /\ DOMAIN pool.next \subseteq UNION {Outputs(t) : t \in Tx}
  /\ act.stage \in {"idle", "step", "update", "limit"}
  /\ unwind.stage \in {"idle", "loop", "deferred", "limit", "mark"}
  /\ atmp.stage \in {"idle", "limit", "lookup", "claim", "resurrect"}
  /\ ToSet(act.queue) \cup ToSet(unwind.queue) \subseteq Tx
  /\ stuck \in BOOLEAN

\* CTxMemPool::check, every assertion of it but those on sizes.
Check(p, b) ==
  /\ \A i \in 1..Len(p.order) :
       LET t == p.order[i]
       IN /\ \A o \in Inputs[t] :
               /\ IF o[1] \in Entries(p)
                  THEN o \in Outputs(o[1]) /\ \E j \in 1..i - 1 : p.order[j] = o[1]
                  ELSE o \in Coins[b]
               /\ o \in DOMAIN p.next /\ p.next[o] = t
          /\ {l[2] : l \in {l \in p.parents : l[1] = t}} = ParentIds(t) \cap Entries(p)
          /\ {l[2] : l \in {l \in p.children : l[1] = t}}
               = {p.next[o] : o \in Outputs(t) \cap DOMAIN p.next}
  /\ \A o \in DOMAIN p.next : p.next[o] \in Entries(p)

\* Whoever locks cs_main finds a pool that is consistent with the active chain:
\* every input is an unspent coin of the chain or an output of an earlier entry,
\* no two entries spend the same output, and mapNextTx and the links say exactly
\* that (the assertions of check, the first guarantee of txmempool.h).
PoolConsistent == TypeOK /\ (CsMainFree => Check(pool, tip) /\ ~stuck)

\* Every entry could be in the next block: its locks have ended, the coinbases it
\* spends are mature and it verifies under the rules of the next block, also
\* after a reorganization to a lower block or across a change of the rules, which
\* only ATMP checks.
PoolMineable == CsMainFree => \A t \in Entries(pool) : Final(tip, t)

\* When a reorganization or an unwinding has put its transactions back, none of
\* them is left out that the pool could take ("fully populated" in txmempool.h):
\* the queue had them in an order in which no child came before its parent.
NoneLeftOut(q) == \A t \in ToSet(q) : ~Acceptable(pool, tip, t)

ReorgComplete == atmp.stage = "idle" =>
                   /\ act.stage = "limit" => NoneLeftOut(act.queue)
                   /\ unwind.stage = "limit" /\ unwind.ret => NoneLeftOut(unwind.queue)

\* Proofs and entries agree, as listDoubleSpendProofs and getDoubleSpendProof throw
\* when they do not: a proof that is not an orphan belongs to the entry that
\* spends its outpoint, the proof of an entry is in the store, and no orphan waits
\* for an entry that is there (getDoubleSpendProof tells orphans by that).
ProofsAssociated ==
  LET s == pool.m_dspStorage
  IN CsMainFree =>
       /\ s.claimed = {d[2] : d \in pool.dsp}
       /\ \A d \in pool.dsp : /\ OutPoint[d[2]] \in DOMAIN pool.next
                              /\ pool.next[OutPoint[d[2]]] = d[1]
       /\ \A d, e \in pool.dsp : d[1] = e[1] => d = e
       /\ \A proof \in Orphans(s) : OutPoint[proof] \notin DOMAIN pool.next

\* The orphan counter, kept apart from the flags, is the number of orphans, so
\* decrementOrphans does not throw, and it stays within the high-water mark.
OrphansCounted ==
  LET s == pool.m_dspStorage
  IN s.m_numOrphans = Len(s.orphans) /\ s.m_numOrphans <= Max({1, HighWaterMark})
=============================================================================
