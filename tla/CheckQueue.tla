------------------------------ MODULE CheckQueue ------------------------------
(***************************************************************************)
(* CCheckQueue: the queue through which ConnectBlock hands the script        *)
(* checks of a block to a pool of worker threads.  The master adds checks    *)
(* and then joins the pool, in Wait, until every check is done.  All state   *)
(* is guarded by m_mutex, so one step of a thread is one critical section    *)
(* of Loop, or the execution of a batch outside of it.                       *)
(*                                                                           *)
(* A check is an element of Check and fails when it is in Bad.  The order    *)
(* in which the queue is emptied (last in, first out) does not matter to     *)
(* the code, and a batch is any set of queued checks of the right size.      *)
(***************************************************************************)
EXTENDS Integers, FiniteSets

CONSTANTS Worker, Master, Check, Bad,
          BatchSize,  \* nBatchSize
          MaxRounds,  \* how many blocks are checked
          MaxStarts   \* how often the worker threads are started

ASSUME CheckQueueAssumption ==
  /\ IsFiniteSet(Worker) /\ Worker # {}
  /\ Master \notin Worker
  /\ IsFiniteSet(Check)
  /\ Bad \subseteq Check
  /\ BatchSize \in Nat \ {0}
  /\ MaxRounds \in Nat
  /\ MaxStarts \in Nat

VARIABLES queue,    \* checks that no thread has taken
          nIdle,
          nTotal,
          fAllOk,
          nTodo,
          stop,     \* progress of StopWorkerThreads; m_request_stop
          pc,       \* where each thread is
          batch,    \* vChecks of each thread, until it is accounted for
          fOk,      \* fOk of each thread
          added,    \* what the current CCheckQueueControl was given
          result,   \* what its Wait returned
          rounds,
          starts

vars == <<queue, nIdle, nTotal, fAllOk, nTodo, stop, pc, batch, fOk, added, result, rounds, starts>>

Thread == Worker \cup {Master}

\* "unborn": no such thread; "outside": the master has no control object;
\* "adding": the master has one; then the places of Loop: about to lock for the
\* first time, about to lock after a batch, in cond.wait, notified, executing.
Location == {"unborn", "outside", "adding", "enter", "commit", "waiting", "woken", "execute", "returned"}

m_request_stop == stop # "no"
Waiting(T) == {t \in T : pc[t] = "waiting"}
Unfinished == queue \cup UNION {batch[t] : t \in Thread}

-----------------------------------------------------------------------------
(* The critical section of Loop.  First the clean-up of the last iteration.  *)

AtLock(t) == pc[t] \in {"enter", "commit", "woken"}

\* Wrong: the batch is taken to be full.
Mut_TodoFullBatch(t) == IF pc[t] = "commit" THEN nTodo - BatchSize ELSE nTodo

TodoAfter(t) == IF pc[t] = "commit" THEN nTodo - Cardinality(batch[t]) ELSE nTodo
\* Wrong: the result of the batch is dropped.
Mut_ResultDropped(t) == fAllOk

AllOkAfter(t) == IF pc[t] = "commit" THEN fAllOk /\ fOk[t] ELSE fAllOk
TotalAfter(t) == IF pc[t] = "enter" THEN nTotal + 1 ELSE nTotal
\* Wrong: a thread that stops waiting still counts as idle.
Mut_IdleNotRestored(t) == nIdle

IdleAfter(t) == IF pc[t] = "woken" THEN nIdle - 1 ELSE nIdle

\* Wrong: nobody tells the master.
Mut_MasterNotInformed(t) == FALSE

\* A worker that accounts for the last check notifies the master.
InformsMaster(t) == pc[t] = "commit" /\ t # Master /\ TodoAfter(t) = 0

MovesTo(t, where) ==
  pc' = [u \in Thread |-> IF u = t THEN where
                          ELSE IF u = Master /\ pc[u] = "waiting" /\ InformsMaster(t) THEN "woken"
                          ELSE pc[u]]

\* Wrong: a small queue is shared out in batches of nothing.
Mut_BatchOfZero(size, total, idle) ==
  LET share == size \div (total + idle + 1) IN IF share < BatchSize THEN share ELSE BatchSize

BatchOf(size, total, idle) ==
  LET share == size \div (total + idle + 1)
      upper == IF share < BatchSize THEN share ELSE BatchSize
  IN IF upper < 1 THEN 1 ELSE upper

-----------------------------------------------------------------------------
(* Then the loop: return, wait, or take a batch.                              *)

\* Wrong: the master leaves with batches outstanding.
Mut_MasterLeavesEarly(t) == t = Master

MasterMayLeave(t) == t = Master /\ TodoAfter(t) = 0

Loop_MasterReturns(t) ==
  /\ AtLock(t) /\ queue = {} /\ ~m_request_stop /\ MasterMayLeave(t)
  /\ nTotal' = TotalAfter(t) - 1
  /\ nIdle' = IdleAfter(t)
  /\ nTodo' = TodoAfter(t)
  /\ fAllOk' = TRUE
  /\ result' = (IF AllOkAfter(t) THEN "ok" ELSE "bad")
  /\ batch' = [batch EXCEPT ![t] = {}]
  /\ MovesTo(t, "outside")
  /\ UNCHANGED <<queue, stop, fOk, added, rounds, starts>>

Loop_Waits(t) ==
  /\ AtLock(t) /\ queue = {} /\ ~m_request_stop /\ ~MasterMayLeave(t)
  /\ nTotal' = TotalAfter(t)
  /\ nIdle' = IdleAfter(t) + 1
  /\ nTodo' = TodoAfter(t)
  /\ fAllOk' = AllOkAfter(t)
  /\ batch' = [batch EXCEPT ![t] = {}]
  /\ MovesTo(t, "waiting")
  /\ UNCHANGED <<queue, stop, fOk, added, result, rounds, starts>>

\* No thread but the workers is in the pool when it is stopped.
Loop_Stops(t) ==
  /\ AtLock(t) /\ m_request_stop
  /\ nTotal' = TotalAfter(t)
  /\ nIdle' = IdleAfter(t)
  /\ nTodo' = TodoAfter(t)
  /\ fAllOk' = AllOkAfter(t)
  /\ batch' = [batch EXCEPT ![t] = {}]
  /\ MovesTo(t, "returned")
  /\ UNCHANGED <<queue, stop, fOk, added, result, rounds, starts>>

Loop_TakesBatch(t) ==
  /\ AtLock(t) /\ queue # {} /\ ~m_request_stop
  /\ nTotal' = TotalAfter(t)
  /\ nIdle' = IdleAfter(t)
  /\ nTodo' = TodoAfter(t)
  /\ fAllOk' = AllOkAfter(t)
  /\ \E S \in SUBSET queue :
       /\ Cardinality(S) = BatchOf(Cardinality(queue), nTotal', nIdle')
       /\ queue' = queue \ S
       /\ batch' = [batch EXCEPT ![t] = S]
  /\ fOk' = [fOk EXCEPT ![t] = AllOkAfter(t)]
  /\ MovesTo(t, "execute")
  /\ UNCHANGED <<stop, added, result, rounds, starts>>

\* Checks are run until one fails, and not at all when one has failed already.
Loop_Executes(t) ==
  /\ pc[t] = "execute"
  /\ fOk' = [fOk EXCEPT ![t] = @ /\ batch[t] \cap Bad = {}]
  /\ pc' = [pc EXCEPT ![t] = "commit"]
  /\ UNCHANGED <<queue, nIdle, nTotal, fAllOk, nTodo, stop, batch, added, result, rounds, starts>>

\* A condition variable may wake a thread that nobody notified.
SpuriousWakeup(t) ==
  /\ pc[t] = "waiting"
  /\ pc' = [pc EXCEPT ![t] = "woken"]
  /\ UNCHANGED <<queue, nIdle, nTotal, fAllOk, nTodo, stop, batch, fOk, added, result, rounds, starts>>

-----------------------------------------------------------------------------
(* The master.                                                                *)

\* ConnectBlock makes a CCheckQueueControl, which takes m_control_mutex.
Control ==
  /\ pc[Master] = "outside" /\ rounds < MaxRounds /\ ~m_request_stop
  /\ \A w \in Worker : pc[w] # "unborn"
  /\ pc' = [pc EXCEPT ![Master] = "adding"]
  /\ added' = {} /\ result' = "none" /\ rounds' = rounds + 1
  /\ UNCHANGED <<queue, nIdle, nTotal, fAllOk, nTodo, stop, batch, fOk, starts>>

\* The workers that may be woken when n checks are added: notify_one wakes one
\* of those that wait, notify_all wakes them all.
Notified(n) ==
  IF n > 1 \/ Waiting(Worker) = {} THEN {Waiting(Worker)} ELSE {{w} : w \in Waiting(Worker)}

Wake(T) == pc' = [t \in Thread |-> IF t \in T THEN "woken" ELSE pc[t]]

Add(S) ==
  /\ pc[Master] = "adding" /\ S # {} /\ S \cap added = {}
  /\ queue' = queue \cup S
  /\ nTodo' = nTodo + Cardinality(S)
  /\ added' = added \cup S
  /\ \E T \in Notified(Cardinality(S)) : Wake(T)
  /\ UNCHANGED <<nIdle, nTotal, fAllOk, stop, batch, fOk, result, rounds, starts>>

\* Called by ConnectBlock, or by the destructor of the control object when
\* ConnectBlock returns early.
Wait ==
  /\ pc[Master] = "adding"
  /\ pc' = [pc EXCEPT ![Master] = "enter"]
  /\ UNCHANGED <<queue, nIdle, nTotal, fAllOk, nTodo, stop, batch, fOk, added, result, rounds, starts>>

-----------------------------------------------------------------------------
(* The pool is started at init and stopped at shutdown, when the threads that *)
(* could be the master have been joined.                                      *)

StartWorkerThreads ==
  /\ pc[Master] = "outside" /\ starts < MaxStarts /\ ~m_request_stop
  /\ \A w \in Worker : pc[w] = "unborn"
  /\ nIdle' = 0 /\ nTotal' = 0 /\ fAllOk' = TRUE
  /\ pc' = [t \in Thread |-> IF t \in Worker THEN "enter" ELSE pc[t]]
  /\ starts' = starts + 1
  /\ UNCHANGED <<queue, nTodo, stop, batch, fOk, added, result, rounds>>

StopWorkerThreads ==
  /\ pc[Master] = "outside" /\ stop = "no"
  /\ \A w \in Worker : pc[w] # "unborn"
  /\ stop' = "requested"
  /\ UNCHANGED <<queue, nIdle, nTotal, fAllOk, nTodo, pc, batch, fOk, added, result, rounds, starts>>

\* Wrong: the sleeping workers are not notified of the stop.
Mut_StopNotNotified ==
  /\ stop = "requested" /\ stop' = "notified"
  /\ UNCHANGED <<queue, nIdle, nTotal, fAllOk, nTodo, pc, batch, fOk, added, result, rounds, starts>>

StopWorkerThreads_Notify ==
  /\ stop = "requested" /\ stop' = "notified"
  /\ Wake(Waiting(Worker))
  /\ UNCHANGED <<queue, nIdle, nTotal, fAllOk, nTodo, batch, fOk, added, result, rounds, starts>>

StopWorkerThreads_Join ==
  /\ stop = "notified" /\ stop' = "no"
  /\ \A w \in Worker : pc[w] = "returned"
  /\ pc' = [t \in Thread |-> IF t \in Worker THEN "unborn" ELSE pc[t]]
  /\ UNCHANGED <<queue, nIdle, nTotal, fAllOk, nTodo, batch, fOk, added, result, rounds, starts>>

-----------------------------------------------------------------------------
Init ==
  /\ queue = {} /\ nIdle = 0 /\ nTotal = 0 /\ fAllOk = TRUE /\ nTodo = 0 /\ stop = "no"
  /\ pc = [t \in Thread |-> IF t = Master THEN "outside" ELSE "unborn"]
  /\ batch = [t \in Thread |-> {}]
  /\ fOk = [t \in Thread |-> TRUE]
  /\ added = {} /\ result = "none" /\ rounds = 0 /\ starts = 0

Loop(t) ==
  \/ Loop_MasterReturns(t)
  \/ Loop_Waits(t)
  \/ Loop_Stops(t)
  \/ Loop_TakesBatch(t)
  \/ Loop_Executes(t)

Pool == StartWorkerThreads \/ StopWorkerThreads \/ StopWorkerThreads_Notify \/ StopWorkerThreads_Join

Next ==
  \/ \E t \in Thread : Loop(t) \/ SpuriousWakeup(t)
  \/ Control
  \/ \E S \in SUBSET Check : Add(S)
  \/ Wait
  \/ Pool

Spec == Init /\ [][Next]_vars

\* The operating system runs every thread that can run, the master reaches the
\* end of its control object, and a stop that was begun goes on.  Nothing is
\* assumed of spurious wakeups.
FairSpec ==
  /\ Spec
  /\ \A t \in Thread : WF_vars(Loop(t))
  /\ WF_vars(Wait)
  /\ WF_vars(StopWorkerThreads_Notify)
  /\ WF_vars(StopWorkerThreads_Join)

-----------------------------------------------------------------------------
\* The variables of CCheckQueue and of its threads; the counters are not
\* negative, as their unsigned types demand.
TypeOK ==
  /\ queue \in SUBSET Check
  /\ nIdle \in Nat /\ nTotal \in Nat /\ nTodo \in Nat
  /\ fAllOk \in BOOLEAN
  /\ stop \in {"no", "requested", "notified"}
  /\ pc \in [Thread -> Location]
  /\ batch \in [Thread -> SUBSET Check]
  /\ fOk \in [Thread -> BOOLEAN]
  /\ added \in SUBSET Check
  /\ result \in {"none", "ok", "bad"}
  /\ rounds \in 0..MaxRounds /\ starts \in 0..MaxStarts

\* nTodo counts the checks that are queued or in some thread's batch, none is
\* in two places, and a thread that has a batch is executing it or about to
\* account for it (nTodo is unsigned in the code: it never wraps).
TodoCounts ==
  /\ nTodo = Cardinality(Unfinished)
  /\ \A t \in Thread : batch[t] \cap queue = {}
  /\ \A t, u \in Thread : t # u => batch[t] \cap batch[u] = {}
  /\ \A t \in Thread : (batch[t] # {}) <=> (pc[t] \in {"execute", "commit"})

\* When Wait returns, no thread holds or will take a check of the block: the
\* checks refer to transaction data that ConnectBlock then releases ("guarantees
\* the passed queue is finished before continuing").
FinishedOnReturn == pc[Master] = "outside" => Unfinished = {}

\* Wait returns true exactly when every check that was added succeeds, whatever
\* thread ran it, and the verdict on one block says nothing of the next.
ResultCorrect == result # "none" => ((result = "ok") <=> (added \cap Bad = {}))

\* nIdle counts the threads inside cond.wait and nTotal those inside Loop: the
\* two numbers that divide up the queue.  (Nobody resets nTotal before the next
\* StartWorkerThreads.)
PoolCounts ==
  /\ nIdle = Cardinality({t \in Thread : pc[t] \in {"waiting", "woken"}})
  /\ (\A w \in Worker : pc[w] # "unborn") =>
       nTotal = Cardinality({t \in Thread : pc[t] \notin {"outside", "adding", "enter"}})

\* The counters that CCheckQueue keeps beside its queue and its threads agree
\* with them, although they are updated at several places of Loop.
CountersExact == TodoCounts /\ PoolCounts

\* What ConnectBlock relies on when Wait returns: no check of the block is left
\* in any thread's hands, and the verdict is that of the block's own checks.
WaitSound == FinishedOnReturn /\ ResultCorrect

\* Nothing is waited for in vain: Wait returns, although workers sleep without
\* a timeout and the master is woken only by the last worker.
WaitReturns == (pc[Master] = "enter") ~> (pc[Master] = "outside")

\* StopWorkerThreads joins every worker, also one that was about to wait when
\* the stop was requested.
StopCompletes == m_request_stop ~> ~m_request_stop
=============================================================================
