------------------------------- MODULE TxIndex -------------------------------
(***************************************************************************)
(* The transaction index: BaseIndex and TxIndex (src/index).  A thread of    *)
(* its own catches up with the active chain; once there, the callbacks       *)
(* BlockConnected and ChainStateFlushed of the notification queue take over. *)
(* The active chain moves meanwhile, the node is stopped or crashes at any   *)
(* moment, and RPC threads ask whether the index has caught up.              *)
(*                                                                          *)
(* The notification queue runs one callback at a time and in order: that is *)
(* SerialQueue, which Notifications implements.  A section under cs_main is *)
(* one step.  A power loss takes back a suffix of the writes to the index   *)
(* database, which leaves it as a crash at that earlier moment does; the    *)
(* coin database can be behind or ahead of it in both cases.  A locator     *)
(* (CChain::GetLocator) is the block it starts from: it lists the last ten  *)
(* blocks down from there one by one.                                       *)
(* Every block of the tree is valid.  MigrateData, which reads the index    *)
(* of versions before 0.17, is not modelled.                                *)
(***************************************************************************)
EXTENDS BlockTree, Sequences

CONSTANTS Tx,
          TxsOf,      \* [Block -> SUBSET Tx]: the transactions that are indexed
          Null,       \* a null pointer, hash or position
          MaxQueue,   \* bound on the callbacks waiting
          MaxRestarts \* bound on the starts of the node after the first

\* The transaction of the genesis block is left out of the index.
ASSUME TxIndexAssumption ==
  /\ Null \notin Block
  /\ TxsOf \in [Block -> SUBSET Tx]
  /\ TxsOf[Genesis] = {}
  /\ MaxQueue \in Nat /\ MaxRestarts \in Nat

BlockOrNull == Block \cup {Null}

VARIABLES tip,        \* ::ChainActive().Tip()
          chainDisk,  \* the block of the coin database: the tip after a crash
          queue,      \* callbacks waiting
          callback,   \* the block BlockConnected has written and not yet made the best
          m_synced,
          m_best_block_index,
          db,         \* the index database
          sync,       \* where ThreadSync is
          pindex,     \* its local variable
          stage,      \* of the node: "running", "interrupted", "crashed"
          restarts

chainVars == <<tip, chainDisk>>
nodeVars == <<stage, restarts>>
vars == <<chainVars, queue, callback, m_synced, m_best_block_index, db,
          sync, pindex, nodeVars>>

Event == [kind: {"BlockConnected", "ChainStateFlushed", "Promise"}, block: Block]

\* pos: the block in which the index locates a transaction.  best: the locator
\* under DB_BEST_BLOCK.  named: see Named below.
Database == [pos: [Tx -> BlockOrNull], best: BlockOrNull, named: SUBSET Block]

AncestorsOf(b) == IF b = Null THEN {} ELSE Ancestors[b]

\* best->GetAncestor(b->nHeight) == b
Contains(best, b) == b \in AncestorsOf(best)

ParentOf(b) == IF b = Genesis THEN Null ELSE Parent[b]

-----------------------------------------------------------------------------
(* The active chain.  cs_main is free unless ThreadSync holds it.  Moves    *)
(* of the load-block thread after the index was unregistered are moves      *)
(* whose callbacks are dropped.                                             *)

CsMainFree == sync # "commit"

\* BlockConnected for the blocks after "from" on the chain of "to", upwards: the
\* set of the one sequence that has them in this order.
ConnectedEvents(from, to) ==
  LET path == AncestorsOf(to) \ AncestorsOf(from)
      n == Cardinality(path)
  IN {e \in [1..n -> [kind: {"BlockConnected"}, block: path]] :
        \A i, j \in 1..n : i < j => Height[e[i].block] < Height[e[j].block]}

FlushedEvent(b) == [kind |-> "ChainStateFlushed", block |-> b]

Enqueue(events) == Len(queue \o events) <= MaxQueue /\ queue' = queue \o events

\* One turn of ActivateBestChain under cs_main: the tip moves to a block with as
\* much work, or to the genesis block when it is the first, and BlockConnected is
\* queued for the blocks on the way at the end of it.  Any ConnectTip or
\* DisconnectTip of the turn may flush the coins; it does so before it moves the
\* tip, so the locator it queues is one block behind, or ahead when
\* disconnecting, and precedes BlockConnected.
ActivateBestChain ==
  /\ stage # "crashed" /\ CsMainFree
  /\ \E b \in Block :
       /\ b \notin AncestorsOf(tip)
       /\ IF tip = Null THEN b = Genesis ELSE Height[b] >= Height[tip]
       /\ tip' = b
       /\ \E connected \in ConnectedEvents(tip, b) :
            \/ Enqueue(connected) /\ UNCHANGED chainDisk
            \/ \E c \in Ancestors[b] \ (AncestorsOf(tip) \cup {Genesis}) :
                 Enqueue(<<FlushedEvent(Parent[c])>> \o connected) /\ chainDisk' = c
            \/ \E d \in AncestorsOf(tip) \ Ancestors[b] :
                 Enqueue(<<FlushedEvent(d)>> \o connected) /\ chainDisk' = Parent[d]
  /\ UNCHANGED <<callback, m_synced, m_best_block_index, db, sync, pindex,
                 nodeVars>>

\* A turn of UnwindBlock (invalidateblock, parkblock), which connects nothing.
UnwindBlock ==
  /\ stage # "crashed" /\ CsMainFree
  /\ tip \notin {Null, Genesis}
  /\ tip' = Parent[tip]
  /\ \/ UNCHANGED <<queue, chainDisk>>
     \/ Enqueue(<<FlushedEvent(tip)>>) /\ chainDisk' = Parent[tip]
  /\ UNCHANGED <<callback, m_synced, m_best_block_index, db, sync, pindex,
                 nodeVars>>

\* A periodic flush.  The coin database is not synced: a power loss may take it
\* back, which is the case where chainDisk stays.
FlushStateToDisk ==
  /\ stage # "crashed" /\ CsMainFree /\ tip # Null
  /\ chainDisk' \in {tip, chainDisk}
  /\ Enqueue(<<FlushedEvent(tip)>>)
  /\ UNCHANGED <<tip, callback, m_synced, m_best_block_index, db, sync, pindex,
                 nodeVars>>

-----------------------------------------------------------------------------
(* The index database.                                                      *)

\* Wrong: the first position is kept.
Mut_WrittenOnce(d, b) ==
  [pos |-> [t \in Tx |-> IF t \in TxsOf[b] /\ d.pos[t] = Null THEN b ELSE d.pos[t]],
   best |-> d.best, named |-> d.named \ {b}]

\* One batch with the position of every transaction of the block.
Written(d, b) ==
  [pos |-> [t \in Tx |-> IF t \in TxsOf[b] THEN b ELSE d.pos[t]],
   best |-> d.best, named |-> d.named \ {b}]

IsIndexed(d, b) == \A t \in TxsOf[b] : d.pos[t] # Null

\* Commit: the locator of a block.  GetLocator(nullptr) is that of the tip.
Committed(d, b) == [d EXCEPT !.best = IF b = Null THEN tip ELSE b]

\* An observation of the run, kept with the database it is about: the blocks
\* whose locator was committed before they were written.
Named(d, S) == [d EXCEPT !.named = d.named \cup {b \in S : ~IsIndexed(d, b)}]

\* FatalError ends in StartShutdown, upon which the main thread calls Interrupt.
\* Stops are bounded as the starts that follow them.
FatalError == restarts < MaxRestarts /\ stage' = "interrupted"

-----------------------------------------------------------------------------
(* ThreadSync.                                                              *)

\* Wrong: without FindFork.
Mut_NextWithoutFork(b) ==
  LET next == {c \in AncestorsOf(tip) : ParentOf(c) = b}
  IN IF next = {} THEN Null ELSE CHOOSE c \in next : TRUE

\* The block after the last one the active chain and b share.
NextSyncBlock(b) ==
  LET shared == AncestorsOf(b) \cap AncestorsOf(tip)
      next == {c \in AncestorsOf(tip) \ shared : ParentOf(c) \in shared \cup {Null}}
  IN IF next = {} THEN Null ELSE CHOOSE c \in next : TRUE

\* The loop is left with a commit of the last block written.  When there is none
\* yet, the commit is that of the tip.
ThreadSync_Interrupted ==
  /\ sync = "loop" /\ stage = "interrupted"
  /\ m_best_block_index' = pindex
  /\ db' = Named(Committed(db, pindex), IF pindex = Null THEN AncestorsOf(tip) ELSE {})
  /\ sync' = "done"
  /\ UNCHANGED <<chainVars, queue, callback, m_synced, pindex, nodeVars>>

ThreadSync_Next ==
  /\ sync = "loop" /\ stage = "running"
  /\ NextSyncBlock(pindex) # Null
  /\ pindex' = NextSyncBlock(pindex)
  /\ sync' = "chosen"
  /\ UNCHANGED <<chainVars, queue, callback, m_synced, m_best_block_index, db,
                 nodeVars>>

\* At the tip: m_synced is set, and then the locator is written, under cs_main.
ThreadSync_CaughtUp ==
  /\ sync = "loop" /\ stage = "running"
  /\ NextSyncBlock(pindex) = Null
  /\ m_best_block_index' = pindex
  /\ m_synced' = TRUE
  /\ sync' = "commit"
  /\ UNCHANGED <<chainVars, queue, callback, db, pindex, nodeVars>>

ThreadSync_Commits ==
  /\ sync = "commit"
  /\ db' = Committed(db, m_best_block_index)
  /\ sync' = "done"
  /\ UNCHANGED <<chainVars, queue, callback, m_synced, m_best_block_index, pindex,
                 nodeVars>>

\* Every 30 seconds the locator of the block about to be written is committed.
ThreadSync_CommitsEarly ==
  /\ sync = "chosen"
  /\ m_best_block_index' = pindex
  /\ db' = Named(Committed(db, pindex), {pindex})
  /\ sync' = "named"
  /\ UNCHANGED <<chainVars, queue, callback, m_synced, pindex, nodeVars>>

ThreadSync_WritesBlock ==
  /\ sync \in {"chosen", "named"}
  /\ db' = Written(db, pindex)
  /\ sync' = "loop"
  /\ UNCHANGED <<chainVars, queue, callback, m_synced, m_best_block_index, pindex,
                 nodeVars>>

\* The block cannot be read, or the database not written.
ThreadSync_Fails ==
  /\ sync \in {"chosen", "named"}
  /\ FatalError
  /\ sync' = "done"
  /\ UNCHANGED <<chainVars, queue, callback, m_synced, m_best_block_index, db, pindex,
                 restarts>>

-----------------------------------------------------------------------------
(* Callbacks.                                                               *)

\* Wrong: without the check.
Mut_ConnectsAnywhere(best, b) == b = Genesis \/ best # Null

\* Wrong: to the best block only.
Mut_ConnectsToBest(best, b) == b = Genesis \/ best = ParentOf(b)

\* The block connects to an ancestor of the best block, or is the first one.
Connects(best, b) == b = Genesis \/ Contains(best, ParentOf(b))

\* The callback at the front of the queue, which is taken out.
Called(kind) ==
  /\ stage # "crashed" /\ callback = Null
  /\ queue # <<>> /\ Head(queue).kind = kind
  /\ queue' = Tail(queue)

BlockConnected_Returns ==
  /\ Called("BlockConnected")
  /\ ~m_synced \/ (m_best_block_index # Null /\ ~Connects(m_best_block_index, Head(queue).block))
  /\ UNCHANGED <<chainVars, callback, m_synced, m_best_block_index, db, sync, pindex, nodeVars>>

BlockConnected_Writes ==
  /\ Called("BlockConnected")
  /\ m_synced /\ Connects(m_best_block_index, Head(queue).block)
  /\ callback' = Head(queue).block
  /\ db' = Written(db, Head(queue).block)
  /\ UNCHANGED <<chainVars, m_synced, m_best_block_index, sync, pindex, nodeVars>>

BlockConnected_SetsBest ==
  /\ callback # Null
  /\ m_best_block_index' = callback
  /\ callback' = Null
  /\ UNCHANGED <<chainVars, queue, m_synced, db, sync, pindex, nodeVars>>

\* The block cannot be written (the genesis block is not), or the first block is
\* not the genesis block.
BlockConnected_Fails ==
  /\ Called("BlockConnected")
  /\ m_synced /\ Head(queue).block # Genesis
  /\ m_best_block_index = Null \/ Connects(m_best_block_index, Head(queue).block)
  /\ FatalError
  /\ UNCHANGED <<chainVars, callback, m_synced, m_best_block_index, db, sync, pindex, restarts>>

\* The locator is written only if the block it was queued for is on the chain
\* of the best block.
ChainStateFlushed ==
  /\ Called("ChainStateFlushed") /\ CsMainFree
  /\ db' = IF m_synced /\ Contains(m_best_block_index, Head(queue).block)
           THEN Committed(db, m_best_block_index) ELSE db
  /\ UNCHANGED <<chainVars, callback, m_synced, m_best_block_index, sync, pindex, nodeVars>>

\* The callback that lets BlockUntilSyncedToCurrentChain return.
Promise ==
  /\ Called("Promise")
  /\ UNCHANGED <<chainVars, callback, m_synced, m_best_block_index, db, sync, pindex, nodeVars>>

-----------------------------------------------------------------------------
(* BlockUntilSyncedToCurrentChain, called by an RPC thread: it returns true *)
(* at once if the best block is known to have the tip on its chain, and      *)
(* otherwise after the callbacks that are queued now.  RPC threads are       *)
(* served once the genesis block is connected, which may be before the       *)
(* callback for it has run: the null pointer is not tested.                 *)

\* Wrong: the promise overtakes the callbacks that are waiting.
Mut_PromiseFirst ==
  /\ stage # "crashed" /\ CsMainFree
  /\ m_synced /\ tip # Null /\ ~Contains(m_best_block_index, tip)
  /\ Len(queue) < MaxQueue
  /\ queue' = <<[kind |-> "Promise", block |-> tip]>> \o queue
  /\ UNCHANGED <<chainVars, callback, m_synced, m_best_block_index, db, sync, pindex, nodeVars>>

BlockUntilSyncedToCurrentChain ==
  /\ stage # "crashed" /\ CsMainFree
  /\ m_synced /\ tip # Null
  /\ \/ /\ m_best_block_index # Null /\ ~Contains(m_best_block_index, tip)
        /\ Enqueue(<<[kind |-> "Promise", block |-> tip]>>) /\ UNCHANGED stage
     \/ /\ m_best_block_index = Null
        /\ stage' = "crashed" /\ UNCHANGED queue
  /\ UNCHANGED <<chainVars, callback, m_synced, m_best_block_index, db, sync, pindex, restarts>>

-----------------------------------------------------------------------------
(* Stopping, crashing, starting.                                            *)

\* StartShutdown, and Interrupt by the main thread.
Interrupt ==
  /\ restarts < MaxRestarts
  /\ stage = "running" /\ stage' = "interrupted"
  /\ UNCHANGED <<chainVars, queue, callback, m_synced, m_best_block_index, db, sync, pindex,
                 restarts>>

\* The last block of the locator's chain that is in the active chain.
FindForkInGlobalIndex(b, t) ==
  IF b = Null \/ t = Null THEN Null ELSE LastCommonAncestor(b, t)

\* Start: Init, and the sync thread if there is something to catch up with.
Starts(d, t) ==
  /\ db' = d /\ tip' = t
  /\ m_best_block_index' = FindForkInGlobalIndex(d.best, t)
  /\ m_synced' = (m_best_block_index' = t)
  /\ pindex' = m_best_block_index'
  /\ sync' = (IF m_synced' THEN "done" ELSE "loop")
  /\ queue' = <<>> /\ callback' = Null
  /\ stage' = "running"

\* Shutdown: RPC threads are joined, Stop unregisters the index and joins the
\* sync thread, callbacks that are still waiting do not reach the index any more,
\* and the last flush is that of the tip.  Then the node is started again.
Shutdown ==
  /\ restarts < MaxRestarts /\ restarts' = restarts + 1
  /\ stage = "interrupted" /\ sync = "done" /\ callback = Null
  /\ \A i \in 1..Len(queue) : queue[i].kind # "Promise"
  /\ chainDisk' = tip
  /\ Starts(db, tip)

Crash ==
  /\ restarts < MaxRestarts /\ restarts' = restarts + 1
  /\ UNCHANGED chainDisk
  /\ Starts(db, chainDisk)

-----------------------------------------------------------------------------
ThreadSync ==
  \/ ThreadSync_Interrupted \/ ThreadSync_Next \/ ThreadSync_CaughtUp
  \/ ThreadSync_Commits \/ ThreadSync_WritesBlock

CallbackStep ==
  \/ BlockConnected_Returns \/ BlockConnected_Writes \/ BlockConnected_SetsBest
  \/ ChainStateFlushed \/ Promise

ChainStep == ActivateBestChain \/ UnwindBlock \/ FlushStateToDisk

NodeStep == Interrupt \/ Shutdown \/ Crash

\* The index is empty at first: a new node, or one whose operator has just
\* switched the index on.
Init ==
  /\ tip \in BlockOrNull /\ chainDisk = tip
  /\ db = [pos |-> [t \in Tx |-> Null], best |-> Null, named |-> {}]
  /\ m_best_block_index = Null /\ pindex = Null
  /\ m_synced = (tip = Null)
  /\ sync = (IF tip = Null THEN "done" ELSE "loop")
  /\ queue = <<>> /\ callback = Null
  /\ stage = "running" /\ restarts = 0

Next ==
  \/ ThreadSync \/ ThreadSync_CommitsEarly \/ ThreadSync_Fails \/ BlockConnected_Fails
  \/ CallbackStep \/ ChainStep \/ BlockUntilSyncedToCurrentChain
  \/ NodeStep

Spec == Init /\ [][Next]_vars

\* The sync thread and the scheduler thread keep running.
FairSpec == Spec /\ WF_vars(ThreadSync) /\ WF_vars(CallbackStep)

-----------------------------------------------------------------------------
\* Type invariant: the chain, the queue, the index database and the places of the
\* sync thread and of the callback stay well formed across stops and crashes.
TypeOK ==
  /\ tip \in BlockOrNull /\ chainDisk \in BlockOrNull
  /\ queue \in Seq(Event)
  /\ callback \in BlockOrNull
  /\ m_synced \in BOOLEAN
  /\ m_best_block_index \in BlockOrNull
  /\ db \in Database
  /\ sync \in {"loop", "chosen", "named", "commit", "done"}
  /\ pindex \in BlockOrNull
  /\ stage \in {"running", "interrupted", "crashed"}
  /\ restarts \in Nat

\* Every block up to b is in the index, but for blocks a locator named too early.
Complete(d, b) == \A a \in AncestorsOf(b) : IsIndexed(d, a) \/ a \in d.named

\* What the index says of itself is true: the transactions of every block up to
\* m_best_block_index, and up to the locator in the database, are in the index,
\* however the sync thread, callbacks of branches long left, reorganisations,
\* stops and crashes follow each other; the only exceptions are blocks that
\* Commit named before they were written.
IndexComplete ==
  /\ Complete(db, m_best_block_index)
  /\ Complete(db, db.best)

\* BaseIndex::DB::WriteBestBlock: the locator on disk is that of a chain the
\* index is in sync with.
LocatorIndexed == \A a \in AncestorsOf(db.best) : IsIndexed(db, a)

\* m_best_block_index after the callbacks in events.
BestAfter(best, events) ==
  LET after[i \in 0..Len(events)] ==
        IF i = 0 THEN best
        ELSE IF events[i].kind = "BlockConnected" /\ Connects(after[i - 1], events[i].block)
        THEN events[i].block ELSE after[i - 1]
  IN after[Len(events)]

\* Nothing gets lost between the sync thread and the callbacks: once m_synced is
\* set, the callbacks already queued, however old the branches they are about,
\* take m_best_block_index to a block that has the current tip on its chain; and
\* ChainStateFlushed, which does not test it, finds that it is not null.
QueueCatchesUp ==
  m_synced =>
    /\ stage = "running" /\ tip # Null =>
         Contains(BestAfter(IF callback = Null THEN m_best_block_index ELSE callback, queue), tip)
    /\ callback = Null /\ queue # <<>> /\ Head(queue).kind = "ChainStateFlushed" =>
         m_best_block_index # Null

\* BlockUntilSyncedToCurrentChain: when the callback it waits for is run, the
\* index is complete up to the tip it found when it was called (unless a failed
\* write is stopping the node).
SyncedOnReturn ==
  stage = "running" /\ callback = Null /\ queue # <<>> /\ Head(queue).kind = "Promise" =>
    Complete(db, Head(queue).block)

\* A transaction is found in the block of the active chain that holds it, not in a
\* block of a branch that was left, once the callbacks have been run; as long as
\* the node has not been restarted.
FoundInActiveChain ==
  restarts = 0 /\ stage = "running" /\ m_synced /\ queue = <<>> /\ callback = Null =>
    \A a \in AncestorsOf(tip) : \A t \in TxsOf[a] : db.pos[t] = a

\* When the chain stops moving and the node keeps running, the index catches up
\* with it and stays there.
CatchesUp ==
  <>[](stage = "running") /\ <>[][FALSE]_tip =>
    <>[](m_synced /\ (tip # Null => Contains(m_best_block_index, tip)))
=============================================================================
