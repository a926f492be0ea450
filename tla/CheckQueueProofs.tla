-------------------------- MODULE CheckQueueProofs --------------------------
(***************************************************************************)
(* Safety of CCheckQueue for any number of workers and checks, any batch    *)
(* size, and any set of failing checks.                                     *)
(*                                                                          *)
(* TodoCounts, FinishedOnReturn and ResultCorrect are not inductive.  The   *)
(* verdict needs to be followed while it is being put together: what the    *)
(* accounted checks say is in fAllOk, what an executed batch says is in     *)
(* the thread's fOk until it commits (Verdict).  And a stop must find the   *)
(* master outside (Places), or Wait would return before the work is done.   *)
(***************************************************************************)
EXTENDS CheckQueue, FiniteSetTheorems, TLAPS

Places ==
  /\ pc[Master] \notin {"unborn", "returned"}
  /\ \A w \in Worker : pc[w] \notin {"outside", "adding"}
  /\ stop # "no" => pc[Master] = "outside"
  /\ pc[Master] # "outside" => \A w \in Worker : pc[w] # "unborn"

Verdict ==
  /\ Unfinished \subseteq added
  /\ pc[Master] = "outside" => fAllOk
  /\ pc[Master] # "outside" => result = "none"
  /\ ~fAllOk => added \cap Bad # {}
  /\ (pc[Master] # "outside" /\ fAllOk) => (added \ Unfinished) \cap Bad = {}
  /\ \A t \in Thread : (pc[t] \in {"execute", "commit"} /\ ~fOk[t]) => added \cap Bad # {}
  /\ \A t \in Thread : (pc[t] = "commit" /\ fOk[t]) => batch[t] \cap Bad = {}

IInv == TypeOK /\ TodoCounts /\ PoolCounts /\ Places /\ Verdict /\ FinishedOnReturn /\ ResultCorrect

Idle == {t \in Thread : pc[t] \in {"waiting", "woken"}}
InLoop == {t \in Thread : pc[t] \notin {"outside", "adding", "enter"}}
AllBorn == \A w \in Worker : pc[w] # "unborn"

-----------------------------------------------------------------------------
(* Finiteness, and what the clean-up at the head of Loop computes.           *)

\* The threads are finitely many, and so are the checks under way.
LEMMA Finite ==
  ASSUME TypeOK
  PROVE  /\ IsFiniteSet(Unfinished) /\ Unfinished \subseteq Check
         /\ IsFiniteSet(Idle) /\ IsFiniteSet(InLoop)
<1>1. Unfinished \subseteq Check
  BY DEF TypeOK, Unfinished
<1>2. IsFiniteSet(Unfinished)
  BY <1>1, FS_Subset, CheckQueueAssumption
<1>3. IsFiniteSet(Thread)
  BY FS_AddElement, CheckQueueAssumption DEF Thread
<1>4. Idle \in SUBSET Thread /\ InLoop \in SUBSET Thread
  BY DEF Idle, InLoop
<1> QED
  BY <1>1, <1>2, <1>3, <1>4, FS_Subset

\* nTodo after the clean-up of a thread counts what is unfinished without the
\* thread's batch.
LEMMA CleanupTodo ==
  ASSUME TypeOK, TodoCounts, NEW t \in Thread, AtLock(t)
  PROVE  /\ batch[t] \subseteq Unfinished
         /\ TodoAfter(t) = Cardinality(Unfinished \ batch[t])
         /\ TodoAfter(t) \in Nat
         /\ TodoAfter(t) = 0 => Unfinished \ batch[t] = {}
<1>1. batch[t] \subseteq Unfinished
  BY DEF Unfinished
<1>2. IsFiniteSet(Unfinished)
  BY Finite
<1>3. /\ IsFiniteSet(Unfinished \ batch[t])
      /\ Cardinality(Unfinished \ batch[t]) = Cardinality(Unfinished) - Cardinality(Unfinished \cap batch[t])
  BY <1>2, FS_Difference, ZenonT(30)
<1>4. Unfinished \cap batch[t] = batch[t]
  BY <1>1
<1>5. Cardinality(Unfinished \ batch[t]) \in Nat
  BY <1>3, FS_CardinalityType
<1>6. TodoAfter(t) = Cardinality(Unfinished \ batch[t])
  <2>1. CASE pc[t] = "commit"
    BY <2>1, <1>3, <1>4, ZenonT(30) DEF TodoAfter, TodoCounts
  <2>2. CASE pc[t] # "commit"
    <3>1. batch[t] = {}
      BY <2>2 DEF TodoCounts, AtLock
    <3>2. Unfinished \ batch[t] = Unfinished
      BY <3>1
    <3> QED
      BY <2>2, <3>2 DEF TodoAfter, TodoCounts
  <2> QED
    BY <2>1, <2>2
<1>7. TodoAfter(t) = 0 => Unfinished \ batch[t] = {}
  BY <1>3, <1>6, FS_EmptySet
<1> QED
  BY <1>1, <1>5, <1>6, <1>7

\* fAllOk after the clean-up speaks for everything that is then accounted for.
LEMMA CleanupVerdict ==
  ASSUME TypeOK, TodoCounts, Verdict, FinishedOnReturn, NEW t \in Thread, AtLock(t)
  PROVE  /\ AllOkAfter(t) \in BOOLEAN
         /\ ~AllOkAfter(t) => added \cap Bad # {}
         /\ pc[Master] = "outside" => AllOkAfter(t)
         /\ (pc[Master] # "outside" /\ AllOkAfter(t)) => (added \ (Unfinished \ batch[t])) \cap Bad = {}
<1>1. CASE pc[t] = "commit"
  <2>1. AllOkAfter(t) = (fAllOk /\ fOk[t])
    BY <1>1 DEF AllOkAfter
  <2>2. pc[Master] # "outside"
    <3>1. batch[t] # {}
      BY <1>1 DEF TodoCounts
    <3> QED
      BY <3>1 DEF FinishedOnReturn, Unfinished
  <2>3. AllOkAfter(t) \in BOOLEAN
    BY <2>1 DEF TypeOK
  <2>4. ~AllOkAfter(t) => added \cap Bad # {}
    BY <1>1, <2>1, ZenonT(30) DEF Verdict
  <2>5. AllOkAfter(t) => (added \ (Unfinished \ batch[t])) \cap Bad = {}
    <3>1. SUFFICES ASSUME AllOkAfter(t)
                   PROVE  (added \ (Unfinished \ batch[t])) \cap Bad = {}
      OBVIOUS
    <3>2. fAllOk /\ fOk[t]
      BY <2>1, <3>1, ZenonT(30)
    <3>3. (added \ Unfinished) \cap Bad = {} /\ batch[t] \cap Bad = {}
      BY <3>2, <2>2, <1>1 DEF Verdict
    <3> QED
      BY <3>3
  <2> QED
    BY <2>2, <2>3, <2>4, <2>5
<1>2. CASE pc[t] # "commit"
  <2>1. AllOkAfter(t) = fAllOk
    BY <1>2 DEF AllOkAfter
  <2>2. batch[t] = {}
    BY <1>2 DEF TodoCounts, AtLock
  <2>3. Unfinished \ batch[t] = Unfinished
    BY <2>2
  <2> QED
    BY <2>1, <2>3 DEF Verdict, TypeOK
<1> QED
  BY <1>1, <1>2

\* nIdle and nTotal after the clean-up count the threads without, and with, the
\* one that did it.
LEMMA CleanupCounts ==
  ASSUME TypeOK, PoolCounts, NEW t \in Thread, AtLock(t)
  PROVE  /\ IdleAfter(t) \in Nat /\ TotalAfter(t) \in Nat
         /\ IdleAfter(t) = Cardinality(Idle \ {t})
         /\ IdleAfter(t) + 1 = Cardinality(Idle \cup {t})
         /\ AllBorn => TotalAfter(t) = Cardinality(InLoop \cup {t})
         /\ AllBorn => TotalAfter(t) - 1 = Cardinality(InLoop \ {t})
<1>1. IsFiniteSet(Idle) /\ IsFiniteSet(InLoop)
  BY Finite
<1>2. /\ Cardinality(Idle \ {t}) = IF t \in Idle THEN Cardinality(Idle) - 1 ELSE Cardinality(Idle)
      /\ Cardinality(InLoop \ {t}) = IF t \in InLoop THEN Cardinality(InLoop) - 1 ELSE Cardinality(InLoop)
      /\ IsFiniteSet(Idle \ {t})
  BY <1>1, FS_RemoveElement
<1>3. /\ Cardinality(Idle \cup {t}) = IF t \in Idle THEN Cardinality(Idle) ELSE Cardinality(Idle) + 1
      /\ Cardinality(InLoop \cup {t}) = IF t \in InLoop THEN Cardinality(InLoop) ELSE Cardinality(InLoop) + 1
  BY <1>1, FS_AddElement, ZenonT(30)
<1>4. Cardinality(Idle) \in Nat /\ Cardinality(InLoop) \in Nat /\ Cardinality(Idle \ {t}) \in Nat
  BY <1>1, <1>2, FS_CardinalityType
<1>5. nIdle = Cardinality(Idle) /\ (AllBorn => nTotal = Cardinality(InLoop))
  BY DEF PoolCounts, Idle, InLoop, AllBorn
<1>6. (t \in Idle <=> pc[t] = "woken") /\ (t \in InLoop <=> pc[t] # "enter")
  BY DEF AtLock, Idle, InLoop
<1>7. nTotal \in Nat /\ nIdle \in Nat
  BY DEF TypeOK
<1>8. IdleAfter(t) = Cardinality(Idle \ {t})
  BY <1>2, <1>4, <1>5, <1>6 DEF IdleAfter
<1>9. IdleAfter(t) + 1 = Cardinality(Idle \cup {t})
  BY <1>3, <1>4, <1>5, <1>6 DEF IdleAfter
<1>10. AllBorn => TotalAfter(t) = Cardinality(InLoop \cup {t})
  BY <1>3, <1>4, <1>5, <1>6 DEF TotalAfter
<1>11. AllBorn => TotalAfter(t) - 1 = Cardinality(InLoop \ {t})
  BY <1>2, <1>4, <1>5, <1>6 DEF TotalAfter
<1> QED
  BY <1>4, <1>7, <1>8, <1>9, <1>10, <1>11 DEF TotalAfter

-----------------------------------------------------------------------------
(* One critical section.                                                      *)

\* A thread moves, and at most the waiting master moves with it.
LEMMA Moved ==
  ASSUME TypeOK, NEW t \in Thread, NEW where \in Location, MovesTo(t, where)
  PROVE  /\ pc' \in [Thread -> Location]
         /\ pc'[t] = where
         /\ \A u \in Thread \ {t} : \/ pc'[u] = pc[u]
                                    \/ u = Master /\ pc[u] = "waiting" /\ pc'[u] = "woken"
<1>1. Master \in Thread /\ "woken" \in Location
  BY DEF Thread, Location
<1> QED
  BY <1>1 DEF MovesTo, TypeOK

\* nIdle and nTotal still count their threads when the thread that cleaned up
\* goes on to wait, execute or return.
LEMMA CountsAfterMove ==
  ASSUME TypeOK, PoolCounts, NEW t \in Thread, AtLock(t),
         NEW where \in {"waiting", "execute", "returned"}, MovesTo(t, where),
         nTotal' = TotalAfter(t),
         nIdle' = IF where = "waiting" THEN IdleAfter(t) + 1 ELSE IdleAfter(t)
  PROVE  PoolCounts' /\ nIdle' \in Nat /\ nTotal' \in Nat
<1>1. where \in Location
  BY DEF Location
<1>2. /\ pc' \in [Thread -> Location]
      /\ pc'[t] = where
      /\ \A u \in Thread \ {t} : \/ pc'[u] = pc[u]
                                 \/ u = Master /\ pc[u] = "waiting" /\ pc'[u] = "woken"
  BY <1>1, Moved
<1>3. Idle' = IF where = "waiting" THEN Idle \cup {t} ELSE Idle \ {t}
  BY <1>2 DEF Idle
<1>4. InLoop' = InLoop \cup {t}
  BY <1>2 DEF InLoop
<1>5. AllBorn' => AllBorn
  BY <1>2 DEF AllBorn, AtLock, Thread
<1>6. nIdle' = Cardinality(Idle') /\ (AllBorn' => nTotal' = Cardinality(InLoop'))
  BY <1>3, <1>4, <1>5, CleanupCounts, ZenonT(30)
<1>7. nIdle' \in Nat /\ nTotal' \in Nat
  <2>1. IdleAfter(t) \in Nat /\ TotalAfter(t) \in Nat
    BY CleanupCounts, ZenonT(30)
  <2> QED
    BY <2>1
<1> QED
  BY <1>6, <1>7 DEF PoolCounts, Idle, InLoop, AllBorn

\* A critical section in which the thread gives up its batch and takes B, which
\* is empty unless it goes on to execute.
LEMMA CriticalSection ==
  ASSUME IInv, NEW t \in Thread, AtLock(t),
         NEW where \in {"waiting", "execute", "returned"}, MovesTo(t, where),
         where = "returned" => t # Master,
         NEW B \in SUBSET queue, queue' = queue \ B, batch' = [batch EXCEPT ![t] = B],
         (B # {}) <=> (where = "execute"),
         nTodo' = TodoAfter(t), fAllOk' = AllOkAfter(t), nTotal' = TotalAfter(t),
         nIdle' = IF where = "waiting" THEN IdleAfter(t) + 1 ELSE IdleAfter(t),
         fOk' = fOk \/ fOk' = [fOk EXCEPT ![t] = AllOkAfter(t)],
         where = "execute" => fOk' = [fOk EXCEPT ![t] = AllOkAfter(t)],
         UNCHANGED <<stop, added, result, rounds, starts>>
  PROVE  IInv'
<1> USE DEF IInv
<1>1. where \in Location
  BY DEF Location
<1>2. /\ pc' \in [Thread -> Location]
      /\ pc'[t] = where
      /\ \A u \in Thread \ {t} : \/ pc'[u] = pc[u]
                                 \/ u = Master /\ pc[u] = "waiting" /\ pc'[u] = "woken"
  BY <1>1, Moved
<1>3. /\ batch' \in [Thread -> SUBSET Check]
      /\ batch'[t] = B
      /\ \A u \in Thread \ {t} : batch'[u] = batch[u]
  BY DEF TypeOK
<1>4. Unfinished' = Unfinished \ batch[t]
  <2>1. \A u \in Thread \ {t} : batch[u] \cap batch[t] = {}
    BY DEF TodoCounts
  <2>2. queue \cap batch[t] = {}
    BY DEF TodoCounts
  <2> QED
    BY <1>3, <2>1, <2>2 DEF Unfinished
<1>5. nTodo' \in Nat /\ nTodo' = Cardinality(Unfinished')
  BY <1>4, CleanupTodo
<1>6. PoolCounts' /\ nIdle' \in Nat /\ nTotal' \in Nat
  BY CountsAfterMove
<1>7. fOk' \in [Thread -> BOOLEAN] /\ fAllOk' \in BOOLEAN
  BY CleanupVerdict DEF TypeOK
<1>8. TypeOK'
  BY <1>2, <1>3, <1>5, <1>6, <1>7 DEF TypeOK
<1>9. TodoCounts'
  <2>1. \A u \in Thread : batch'[u] \cap queue' = {}
    BY <1>3 DEF TodoCounts
  <2>2. \A u, v \in Thread : u # v => batch'[u] \cap batch'[v] = {}
    BY <1>3 DEF TodoCounts
  <2>3. \A u \in Thread : (batch'[u] # {}) <=> (pc'[u] \in {"execute", "commit"})
    BY <1>2, <1>3 DEF TodoCounts
  <2> QED
    BY <1>5, <2>1, <2>2, <2>3 DEF TodoCounts
<1>10. pc'[Master] = "outside" <=> pc[Master] = "outside"
  BY <1>2 DEF AtLock, Thread
<1>11. Places'
  BY <1>2, <1>10 DEF Places, Thread, AtLock
<1>12. Verdict'
  <2>1. /\ ~fAllOk' => added \cap Bad # {}
        /\ pc[Master] = "outside" => fAllOk'
        /\ (pc[Master] # "outside" /\ fAllOk') => (added \ Unfinished') \cap Bad = {}
    BY <1>4, CleanupVerdict
  <2>2. \A u \in Thread : (pc'[u] \in {"execute", "commit"} /\ ~fOk'[u]) => added \cap Bad # {}
    <3>1. SUFFICES ASSUME NEW u \in Thread, pc'[u] \in {"execute", "commit"}, ~fOk'[u]
                   PROVE  added \cap Bad # {}
      OBVIOUS
    <3>2. CASE u = t
      <4>1. where = "execute"
        BY <1>2, <3>1, <3>2
      <4>2. fOk'[t] = AllOkAfter(t)
        BY <4>1 DEF TypeOK
      <4> QED
        BY <3>1, <3>2, <4>2, CleanupVerdict
    <3>3. CASE u # t
      <4>1. pc'[u] = pc[u] /\ fOk'[u] = fOk[u]
        BY <1>2, <3>1, <3>3 DEF TypeOK
      <4> QED
        BY <3>1, <4>1 DEF Verdict
    <3> QED
      BY <3>2, <3>3
  <2>3. \A u \in Thread : (pc'[u] = "commit" /\ fOk'[u]) => batch'[u] \cap Bad = {}
    <3>1. SUFFICES ASSUME NEW u \in Thread, pc'[u] = "commit", fOk'[u]
                   PROVE  batch'[u] \cap Bad = {}
      OBVIOUS
    <3>2. u # t
      BY <1>2, <3>1
    <3>3. pc'[u] = pc[u] /\ fOk'[u] = fOk[u] /\ batch'[u] = batch[u]
      BY <1>2, <1>3, <3>1, <3>2, ZenonT(30) DEF TypeOK
    <3> QED
      BY <3>1, <3>3 DEF Verdict
  <2>4. Unfinished' \subseteq added /\ (pc'[Master] # "outside" => result' = "none")
    BY <1>4, <1>10 DEF Verdict
  <2> QED
    BY <1>10, <2>1, <2>2, <2>3, <2>4 DEF Verdict
<1>13. FinishedOnReturn' /\ ResultCorrect'
  BY <1>4, <1>10 DEF FinishedOnReturn, ResultCorrect
<1> QED
  BY <1>6, <1>8, <1>9, <1>11, <1>12, <1>13

-----------------------------------------------------------------------------
(* The actions.                                                                *)

\* Loop: a thread that finds no work waits.
LEMMA WaitsPreserves ==
  ASSUME IInv, NEW t \in Thread, Loop_Waits(t)
  PROVE  IInv'
<1>1. /\ AtLock(t) /\ MovesTo(t, "waiting") /\ queue' = queue \ {}
      /\ batch' = [batch EXCEPT ![t] = {}]
      /\ nTodo' = TodoAfter(t) /\ fAllOk' = AllOkAfter(t) /\ nTotal' = TotalAfter(t)
      /\ nIdle' = IdleAfter(t) + 1 /\ fOk' = fOk
      /\ UNCHANGED <<stop, added, result, rounds, starts>>
  BY DEF Loop_Waits
<1> QED
  BY <1>1, CriticalSection, ZenonT(30)

\* Loop: a worker that finds the stop request returns; the master is never there.
LEMMA StopsPreserves ==
  ASSUME IInv, NEW t \in Thread, Loop_Stops(t)
  PROVE  IInv'
<1>1. /\ AtLock(t) /\ MovesTo(t, "returned") /\ queue' = queue \ {}
      /\ batch' = [batch EXCEPT ![t] = {}]
      /\ nTodo' = TodoAfter(t) /\ fAllOk' = AllOkAfter(t) /\ nTotal' = TotalAfter(t)
      /\ nIdle' = IdleAfter(t) /\ fOk' = fOk
      /\ UNCHANGED <<stop, added, result, rounds, starts>>
  BY DEF Loop_Stops
<1>2. t # Master
  BY DEF Loop_Stops, IInv, Places, AtLock, m_request_stop
<1> QED
  BY <1>1, <1>2, CriticalSection, ZenonT(30)

\* A batch is never empty, however many threads share the queue.
LEMMA BatchPositive ==
  ASSUME NEW size \in Nat, NEW total \in Nat, NEW idle \in Nat
  PROVE  BatchOf(size, total, idle) # 0
<1>1. total + idle + 1 \in Nat \ {0}
  OBVIOUS
<1>2. size \div (total + idle + 1) \in Int
  BY <1>1
<1> QED
  BY <1>2, CheckQueueAssumption DEF BatchOf

\* Loop: a thread takes a batch, which is not empty.
LEMMA TakesPreserves ==
  ASSUME IInv, NEW t \in Thread, Loop_TakesBatch(t)
  PROVE  IInv'
<1>1. /\ AtLock(t) /\ MovesTo(t, "execute")
      /\ nTodo' = TodoAfter(t) /\ fAllOk' = AllOkAfter(t) /\ nTotal' = TotalAfter(t)
      /\ nIdle' = IdleAfter(t) /\ fOk' = [fOk EXCEPT ![t] = AllOkAfter(t)]
      /\ UNCHANGED <<stop, added, result, rounds, starts>>
  BY DEF Loop_TakesBatch
<1>2. PICK S \in SUBSET queue :
        /\ Cardinality(S) = BatchOf(Cardinality(queue), nTotal', nIdle')
        /\ queue' = queue \ S
        /\ batch' = [batch EXCEPT ![t] = S]
  BY ZenonT(30) DEF Loop_TakesBatch
<1>3. S # {}
  <2>1. IsFiniteSet(queue)
    BY CheckQueueAssumption, FS_Subset DEF IInv, TypeOK
  <2>2. Cardinality(queue) \in Nat
    BY <2>1, FS_CardinalityType
  <2>3. IdleAfter(t) \in Nat /\ TotalAfter(t) \in Nat
    BY <1>1, CleanupCounts, ZenonT(30) DEF IInv
  <2>4. Cardinality(S) # 0
    BY <1>1, <1>2, <2>2, <2>3, BatchPositive
  <2> QED
    BY <2>4, FS_EmptySet
<1> QED
  BY <1>1, <1>2, <1>3, CriticalSection, ZenonT(30)

\* Loop: the master returns, with nothing left and the right verdict.
LEMMA ReturnsPreserves ==
  ASSUME IInv, NEW t \in Thread, Loop_MasterReturns(t)
  PROVE  IInv'
<1> USE DEF IInv
<1>1. t = Master /\ AtLock(t) /\ TodoAfter(t) = 0 /\ MovesTo(t, "outside") /\ stop = "no"
  BY DEF Loop_MasterReturns, MasterMayLeave, m_request_stop
<1>2. /\ nTotal' = TotalAfter(t) - 1 /\ nIdle' = IdleAfter(t) /\ nTodo' = TodoAfter(t)
      /\ fAllOk' = TRUE /\ result' = (IF AllOkAfter(t) THEN "ok" ELSE "bad")
      /\ batch' = [batch EXCEPT ![t] = {}]
      /\ UNCHANGED <<queue, stop, fOk, added, rounds, starts>>
  BY DEF Loop_MasterReturns
<1>3. /\ pc' \in [Thread -> Location]
      /\ pc'[t] = "outside"
      /\ \A u \in Thread \ {t} : pc'[u] = pc[u]
  <2>1. "outside" \in Location
    BY DEF Location
  <2> QED
    BY <1>1, <2>1, Moved
<1>4. /\ batch' \in [Thread -> SUBSET Check]
      /\ batch'[t] = {}
      /\ \A u \in Thread \ {t} : batch'[u] = batch[u]
  BY <1>2 DEF TypeOK
<1>5. Unfinished \ batch[t] = {}
  BY <1>1, CleanupTodo, ZenonT(30)
<1>6. Unfinished' = {}
  <2>1. \A u \in Thread \ {t} : batch[u] \cap batch[t] = {}
    BY DEF TodoCounts
  <2>2. queue \cap batch[t] = {}
    BY DEF TodoCounts
  <2> QED
    BY <1>2, <1>4, <1>5, <2>1, <2>2 DEF Unfinished
<1>7. nTodo' = 0 /\ Cardinality(Unfinished') = 0
  BY <1>1, <1>2, <1>6, FS_EmptySet
<1>8. PoolCounts'
  <2>1. Idle' = Idle \ {t} /\ InLoop' = InLoop \ {t}
    BY <1>3 DEF Idle, InLoop
  <2>2. AllBorn' <=> AllBorn
    BY <1>1, <1>3, CheckQueueAssumption DEF AllBorn, Thread
  <2>3. nIdle' = Cardinality(Idle') /\ (AllBorn' => nTotal' = Cardinality(InLoop'))
    BY <1>1, <1>2, <2>1, <2>2, CleanupCounts, ZenonT(30)
  <2> QED
    BY <2>3 DEF PoolCounts, Idle, InLoop, AllBorn
<1>9. nIdle' \in Nat /\ nTotal' \in Nat
  <2>1. AllBorn
    BY <1>1 DEF Places, AtLock, AllBorn
  <2>2. IdleAfter(t) \in Nat /\ TotalAfter(t) - 1 = Cardinality(InLoop \ {t})
    BY <1>1, <2>1, CleanupCounts, ZenonT(30)
  <2>3. IsFiniteSet(InLoop \ {t})
    BY Finite, FS_RemoveElement
  <2> QED
    BY <1>2, <2>2, <2>3, FS_CardinalityType
<1>10. TypeOK'
  BY <1>2, <1>3, <1>4, <1>7, <1>9 DEF TypeOK
<1>11. TodoCounts'
  <2>1. \A u \in Thread : batch'[u] = {}
    BY <1>6 DEF Unfinished
  <2>2. \A u \in Thread : pc'[u] \notin {"execute", "commit"}
    BY <1>3, <1>4, <2>1 DEF TodoCounts
  <2> QED
    BY <1>7, <2>1, <2>2, ZenonT(30) DEF TodoCounts
<1>12. Places'
  BY <1>1, <1>2, <1>3, CheckQueueAssumption DEF Places, Thread
<1>13. pc[Master] # "outside"
  BY <1>1 DEF AtLock
<1>14. Verdict'
  <2>1. \A u \in Thread : pc'[u] \notin {"execute", "commit"}
    BY <1>6, <1>11 DEF TodoCounts, Unfinished
  <2> QED
    BY <1>1, <1>2, <1>3, <1>6, <2>1 DEF Verdict
<1>15. FinishedOnReturn'
  BY <1>6 DEF FinishedOnReturn
<1>16. ResultCorrect'
  <2>1. AllOkAfter(t) => added \cap Bad = {}
    BY <1>1, <1>5, <1>13, CleanupVerdict
  <2>2. ~AllOkAfter(t) => added \cap Bad # {}
    BY <1>1, CleanupVerdict
  <2> QED
    BY <1>2, <2>1, <2>2 DEF ResultCorrect
<1> QED
  BY <1>8, <1>10, <1>11, <1>12, <1>14, <1>15, <1>16

\* Loop: a thread runs its batch outside of the lock.
LEMMA ExecutesPreserves ==
  ASSUME IInv, NEW t \in Thread, Loop_Executes(t)
  PROVE  IInv'
<1> USE DEF IInv
<1>1. /\ pc[t] = "execute" /\ pc' = [pc EXCEPT ![t] = "commit"]
      /\ fOk' = [fOk EXCEPT ![t] = fOk[t] /\ batch[t] \cap Bad = {}]
      /\ UNCHANGED <<queue, nIdle, nTotal, fAllOk, nTodo, stop, batch, added, result, rounds, starts>>
  BY DEF Loop_Executes
<1>2. /\ pc' \in [Thread -> Location] /\ pc'[t] = "commit"
      /\ \A u \in Thread \ {t} : pc'[u] = pc[u]
  BY <1>1 DEF TypeOK, Location
<1>3. /\ fOk' \in [Thread -> BOOLEAN] /\ fOk'[t] = (fOk[t] /\ batch[t] \cap Bad = {})
      /\ \A u \in Thread \ {t} : fOk'[u] = fOk[u]
  BY <1>1 DEF TypeOK
<1>4. TypeOK'
  BY <1>1, <1>2, <1>3 DEF TypeOK
<1>5. Unfinished' = Unfinished
  BY <1>1 DEF Unfinished
<1>6. TodoCounts'
  BY <1>1, <1>2, <1>5 DEF TodoCounts
<1>7. PoolCounts'
  <2>1. Idle' = Idle /\ InLoop' = InLoop
    BY <1>1, <1>2 DEF Idle, InLoop
  <2>2. AllBorn' => AllBorn
    BY <1>1, <1>2 DEF AllBorn, Thread
  <2> QED
    BY <1>1, <2>1, <2>2, SMTT(30) DEF PoolCounts, Idle, InLoop, AllBorn
<1>8. Places'
  BY <1>1, <1>2 DEF Places, Thread
<1>9. pc'[Master] = "outside" <=> pc[Master] = "outside"
  BY <1>1, <1>2 DEF Thread
<1>10. batch[t] \subseteq added
  BY DEF Verdict, Unfinished
<1>11. \A u \in Thread : (pc'[u] \in {"execute", "commit"} /\ ~fOk'[u]) => added \cap Bad # {}
  <2>1. SUFFICES ASSUME NEW u \in Thread, pc'[u] \in {"execute", "commit"}, ~fOk'[u]
                 PROVE  added \cap Bad # {}
    OBVIOUS
  <2>2. CASE u = t
    <3>1. ~fOk[t] \/ batch[t] \cap Bad # {}
      BY <1>3, <2>1, <2>2
    <3> QED
      BY <3>1, <1>1, <1>10 DEF Verdict
  <2>3. CASE u # t
    BY <1>2, <1>3, <2>1, <2>3 DEF Verdict
  <2> QED
    BY <2>2, <2>3
<1>12. \A u \in Thread : (pc'[u] = "commit" /\ fOk'[u]) => batch'[u] \cap Bad = {}
  BY <1>1, <1>2, <1>3, ZenonT(30) DEF Verdict
<1>13. Verdict'
  BY <1>1, <1>5, <1>9, <1>11, <1>12, ZenonT(30) DEF Verdict
<1>14. FinishedOnReturn' /\ ResultCorrect'
  BY <1>1, <1>5, <1>9, SMTT(30) DEF FinishedOnReturn, ResultCorrect
<1> QED
  BY <1>4, <1>6, <1>7, <1>8, <1>13, <1>14

-----------------------------------------------------------------------------
(* The steps outside Loop, and the theorems.                                 *)

\* Waking threads that wait, because they were notified or for no reason, and
\* whatever happens to the progress of a stop while the master is outside.
LEMMA WakePreserves ==
  ASSUME IInv, NEW T \in SUBSET Thread, \A u \in T : pc[u] = "waiting", Wake(T),
         stop' \in {"no", "requested", "notified"}, stop' # "no" => pc[Master] = "outside",
         UNCHANGED <<queue, nIdle, nTotal, fAllOk, nTodo, batch, fOk, added, result, rounds, starts>>
  PROVE  IInv'
<1> USE DEF IInv
<1>1. /\ pc' \in [Thread -> Location]
      /\ \A u \in Thread : pc'[u] = pc[u] \/ (pc[u] = "waiting" /\ pc'[u] = "woken")
  BY DEF Wake, TypeOK, Location
<1>2. TypeOK'
  BY <1>1 DEF TypeOK
<1>3. Unfinished' = Unfinished
  BY DEF Unfinished
<1>4. TodoCounts'
  BY <1>1, <1>3 DEF TodoCounts
<1>5. PoolCounts'
  <2>1. Idle' = Idle /\ InLoop' = InLoop
    BY <1>1 DEF Idle, InLoop
  <2>2. AllBorn' => AllBorn
    BY <1>1 DEF AllBorn, Thread
  <2> QED
    BY <2>1, <2>2 DEF PoolCounts, Idle, InLoop, AllBorn
<1>6. pc'[Master] = "outside" <=> pc[Master] = "outside"
  BY <1>1 DEF Thread
<1>7. Places'
  BY <1>1, <1>6 DEF Places, Thread
<1>8. Verdict'
  <2>1. \A u \in Thread : pc'[u] \in {"execute", "commit"} => pc'[u] = pc[u]
    BY <1>1
  <2> QED
    BY <1>3, <1>6, <2>1 DEF Verdict
<1>9. FinishedOnReturn' /\ ResultCorrect'
  BY <1>3, <1>6 DEF FinishedOnReturn, ResultCorrect
<1> QED
  BY <1>2, <1>4, <1>5, <1>7, <1>8, <1>9

\* A condition variable wakes a thread that nobody notified.
LEMMA SpuriousPreserves ==
  ASSUME IInv, NEW t \in Thread, SpuriousWakeup(t)
  PROVE  IInv'
<1>1. Wake({t})
  BY ZenonT(30) DEF SpuriousWakeup, Wake, IInv, TypeOK
<1>2. /\ stop' = stop /\ pc[t] = "waiting"
      /\ UNCHANGED <<queue, nIdle, nTotal, fAllOk, nTodo, batch, fOk, added, result, rounds, starts>>
  BY DEF SpuriousWakeup
<1>3. stop' \in {"no", "requested", "notified"} /\ (stop' # "no" => pc[Master] = "outside")
  BY <1>2 DEF IInv, TypeOK, Places
<1>4. {t} \in SUBSET Thread /\ \A u \in {t} : pc[u] = "waiting"
  BY <1>2
<1> QED
  BY <1>1, <1>2, <1>3, <1>4, WakePreserves

\* StopWorkerThreads requests the stop and notifies the workers.
LEMMA StopPreserves ==
  ASSUME IInv, StopWorkerThreads \/ StopWorkerThreads_Notify
  PROVE  IInv'
<1>1. CASE StopWorkerThreads
  <2>1. Wake({})
    BY <1>1 DEF StopWorkerThreads, Wake, IInv, TypeOK
  <2> QED
    BY <1>1, <2>1, WakePreserves DEF StopWorkerThreads
<1>2. CASE StopWorkerThreads_Notify
  <2>1. Waiting(Worker) \in SUBSET Thread /\ \A u \in Waiting(Worker) : pc[u] = "waiting"
    BY DEF Waiting, Thread
  <2>2. /\ Wake(Waiting(Worker)) /\ stop' = "notified" /\ pc[Master] = "outside"
        /\ UNCHANGED <<queue, nIdle, nTotal, fAllOk, nTodo, batch, fOk, added, result, rounds, starts>>
    BY <1>2 DEF StopWorkerThreads_Notify, IInv, Places
  <2> QED
    BY <2>1, <2>2, WakePreserves
<1> QED
  BY <1>1, <1>2

\* No check is under way when the pool is started or joined: its workers are
\* outside of Loop and so is the master.
LEMMA PoolPreserves ==
  ASSUME IInv, StartWorkerThreads \/ StopWorkerThreads_Join
  PROVE  IInv'
<1> USE DEF IInv
<1>1. /\ pc[Master] = "outside" /\ pc'[Master] = "outside"
      /\ pc' \in [Thread -> Location]
      /\ \A w \in Worker : pc'[w] \in {"enter", "unborn"} /\ pc[w] \in {"unborn", "returned"}
  BY CheckQueueAssumption
     DEF StartWorkerThreads, StopWorkerThreads_Join, Places, Thread, TypeOK, Location, m_request_stop
<1>2. stop' = "no" /\ UNCHANGED <<queue, nTodo, batch, fOk, added, result, rounds>>
  BY DEF StartWorkerThreads, StopWorkerThreads_Join, m_request_stop
<1>3. Unfinished' = {} /\ Unfinished = {}
  BY <1>1, <1>2 DEF Unfinished, FinishedOnReturn
<1>4. fAllOk' = TRUE
  BY <1>1, ZenonT(30) DEF StartWorkerThreads, StopWorkerThreads_Join, Verdict, TypeOK
<1>5. Idle' = {} /\ Cardinality(Idle') = 0 /\ Idle = {} /\ Cardinality(Idle) = 0
  <2>1. Idle' = {} /\ Idle = {}
    BY <1>1 DEF Idle, Thread
  <2> QED
    BY <2>1, FS_EmptySet
<1>6. nIdle' = 0
  BY <1>5 DEF StartWorkerThreads, StopWorkerThreads_Join, PoolCounts, Idle
<1>7. AllBorn' => nTotal' = Cardinality(InLoop')
  <2>1. CASE StartWorkerThreads
    <3>1. InLoop' = {}
      BY <2>1, <1>1 DEF StartWorkerThreads, InLoop, Thread
    <3> QED
      BY <2>1, <3>1, FS_EmptySet DEF StartWorkerThreads
  <2>2. CASE StopWorkerThreads_Join
    <3>1. ~AllBorn'
      BY <2>2, CheckQueueAssumption DEF StopWorkerThreads_Join, AllBorn, Thread
    <3> QED
      BY <3>1
  <2> QED
    BY <2>1, <2>2
<1>8. PoolCounts'
  BY <1>5, <1>6, <1>7 DEF PoolCounts, Idle, InLoop, AllBorn
<1>9. TypeOK'
  <2>1. nTotal' \in Nat /\ starts' \in 0..MaxStarts
    BY CheckQueueAssumption DEF StartWorkerThreads, StopWorkerThreads_Join, TypeOK
  <2> QED
    BY <1>1, <1>2, <1>4, <1>6, <2>1 DEF TypeOK
<1>10. TodoCounts'
  BY <1>1, <1>2, <1>3 DEF TodoCounts, Unfinished, Thread
<1>11. Places'
  BY <1>1, <1>2 DEF Places
<1>12. Verdict'
  <2>1. \A u \in Thread : pc'[u] \notin {"execute", "commit"}
    BY <1>1 DEF Thread
  <2> QED
    BY <1>1, <1>2, <1>3, <1>4, <2>1 DEF Verdict
<1>13. FinishedOnReturn' /\ ResultCorrect'
  BY <1>2, <1>3 DEF FinishedOnReturn, ResultCorrect
<1> QED
  BY <1>8, <1>9, <1>10, <1>11, <1>12, <1>13

\* The master takes up a block, or is done adding and goes to Loop.
LEMMA MasterPreserves ==
  ASSUME IInv, Control \/ Wait
  PROVE  IInv'
<1> USE DEF IInv
<1>1. /\ pc[Master] \in {"outside", "adding"} /\ pc'[Master] \in {"adding", "enter"}
      /\ pc' \in [Thread -> Location]
      /\ \A w \in Worker : pc'[w] = pc[w]
  BY CheckQueueAssumption DEF Control, Wait, TypeOK, Location, Thread
<1>2. UNCHANGED <<queue, nIdle, nTotal, fAllOk, nTodo, stop, batch, fOk, starts>>
  BY DEF Control, Wait
<1>3. Unfinished' = Unfinished
  BY <1>2 DEF Unfinished
<1>4. TypeOK'
  BY <1>1, <1>2, CheckQueueAssumption DEF TypeOK, Control, Wait
<1>5. TodoCounts'
  BY <1>1, <1>2, <1>3, ZenonT(30) DEF TodoCounts, Thread
<1>6. PoolCounts'
  <2>1. Idle' = Idle /\ InLoop' = InLoop
    BY <1>1 DEF Idle, InLoop, Thread
  <2>2. AllBorn' => AllBorn
    BY <1>1 DEF AllBorn
  <2> QED
    BY <1>2, <2>1, <2>2 DEF PoolCounts, Idle, InLoop, AllBorn
<1>7. Places'
  BY <1>1, <1>2 DEF Places, Control, Wait, m_request_stop
<1>8. \A u \in Thread : pc'[u] \in {"execute", "commit"} => pc'[u] = pc[u]
  BY <1>1 DEF Thread
<1>9. CASE Control
  <2>1. added' = {} /\ result' = "none" /\ Unfinished = {} /\ fAllOk
    BY <1>9 DEF Control, FinishedOnReturn, Verdict
  <2>2. \A u \in Thread : batch[u] = {}
    BY <2>1 DEF Unfinished
  <2>3. \A u \in Thread : pc'[u] \notin {"execute", "commit"}
    BY <1>8, <2>2 DEF TodoCounts
  <2>4. Verdict'
    BY <1>1, <1>2, <1>3, <2>1, <2>3 DEF Verdict
  <2> QED
    BY <1>1, <1>4, <1>5, <1>6, <1>7, <2>1, <2>4, ZenonT(30) DEF FinishedOnReturn, ResultCorrect
<1>10. CASE Wait
  <2>1. UNCHANGED <<added, result>> /\ pc[Master] = "adding"
    BY <1>10 DEF Wait
  <2>2. Verdict'
    BY <1>1, <1>2, <1>3, <1>8, <2>1 DEF Verdict
  <2> QED
    BY <1>1, <1>4, <1>5, <1>6, <1>7, <2>1, <2>2 DEF FinishedOnReturn, ResultCorrect
<1> QED
  BY <1>9, <1>10

\* CCheckQueue::Add queues new checks and wakes workers.
LEMMA AddPreserves ==
  ASSUME IInv, NEW S \in SUBSET Check, Add(S)
  PROVE  IInv'
<1> USE DEF IInv
<1>1. /\ pc[Master] = "adding" /\ S \cap added = {}
      /\ queue' = queue \cup S /\ nTodo' = nTodo + Cardinality(S) /\ added' = added \cup S
      /\ UNCHANGED <<nIdle, nTotal, fAllOk, stop, batch, fOk, result, rounds, starts>>
  BY DEF Add
<1>2. PICK T \in Notified(Cardinality(S)) : Wake(T)
  BY DEF Add
<1>3. \A u \in T : u \in Worker /\ pc[u] = "waiting"
  BY DEF Notified, Waiting
<1>4. /\ pc' \in [Thread -> Location]
      /\ \A u \in Thread : pc'[u] = pc[u] \/ (pc[u] = "waiting" /\ pc'[u] = "woken")
      /\ pc'[Master] = "adding"
  BY <1>1, <1>2, <1>3, ZenonT(30) DEF Wake, TypeOK, Location, Thread
<1>5. Unfinished' = Unfinished \cup S /\ Unfinished \cap S = {}
  BY <1>1 DEF Unfinished, Verdict
<1>6. nTodo' = Cardinality(Unfinished') /\ nTodo' \in Nat
  <2>1. IsFiniteSet(Unfinished) /\ IsFiniteSet(S)
    BY Finite, CheckQueueAssumption, FS_Subset
  <2>2. Cardinality(Unfinished \cup S) = Cardinality(Unfinished) + Cardinality(S) - Cardinality(Unfinished \cap S)
    BY <2>1, FS_Union
  <2>3. Cardinality(Unfinished \cap S) = 0
    BY <1>5, FS_EmptySet
  <2>4. Cardinality(Unfinished) \in Nat /\ Cardinality(S) \in Nat
    BY <2>1, FS_CardinalityType
  <2>5. nTodo = Cardinality(Unfinished)
    BY DEF TodoCounts
  <2> QED
    BY <1>1, <1>5, <2>2, <2>3, <2>4, <2>5
<1>7. TypeOK'
  BY <1>1, <1>4, <1>6 DEF TypeOK
<1>8. TodoCounts'
  <2>1. \A u \in Thread : batch'[u] \cap queue' = {}
    BY <1>1, <1>5 DEF TodoCounts, Unfinished
  <2>2. \A u \in Thread : (batch'[u] # {}) <=> (pc'[u] \in {"execute", "commit"})
    BY <1>1, <1>4 DEF TodoCounts
  <2> QED
    BY <1>1, <1>6, <2>1, <2>2 DEF TodoCounts
<1>9. PoolCounts'
  <2>1. Idle' = Idle /\ InLoop' = InLoop
    BY <1>4 DEF Idle, InLoop
  <2>2. AllBorn' => AllBorn
    BY <1>4 DEF AllBorn, Thread
  <2> QED
    BY <1>1, <2>1, <2>2, SMTT(30) DEF PoolCounts, Idle, InLoop, AllBorn
<1>10. Places'
  BY <1>1, <1>4, ZenonT(30) DEF Places, Thread
<1>11. Verdict'
  <2>1. \A u \in Thread : pc'[u] \in {"execute", "commit"} => pc'[u] = pc[u]
    BY <1>4
  <2>2. added' \ Unfinished' \subseteq added \ Unfinished
    BY <1>1, <1>5
  <2> QED
    BY <1>1, <1>4, <1>5, <2>1, <2>2 DEF Verdict
<1>12. FinishedOnReturn' /\ ResultCorrect'
  BY <1>1, <1>4 DEF FinishedOnReturn, ResultCorrect, Verdict
<1> QED
  BY <1>7, <1>8, <1>9, <1>10, <1>11, <1>12

-----------------------------------------------------------------------------
(* The theorems.                                                              *)

\* The invariant holds when the queue has been constructed.
LEMMA InitIInv ==
  ASSUME Init
  PROVE  IInv
<1>1. TypeOK
  BY CheckQueueAssumption DEF Init, TypeOK, Location
<1>2. Unfinished = {}
  BY DEF Init, Unfinished
<1>3. TodoCounts
  BY <1>2, FS_EmptySet DEF Init, TodoCounts
<1>4. PoolCounts
  <2>1. Idle = {}
    BY DEF Init, Idle
  <2>2. ~AllBorn
    BY CheckQueueAssumption DEF Init, AllBorn, Thread
  <2> QED
    BY <2>1, <2>2, FS_EmptySet DEF Init, PoolCounts, Idle, AllBorn
<1>5. Places
  BY CheckQueueAssumption DEF Init, Places, Thread
<1>6. Verdict
  BY <1>2 DEF Init, Verdict, Thread
<1>7. FinishedOnReturn /\ ResultCorrect
  BY <1>2 DEF Init, FinishedOnReturn, ResultCorrect
<1> QED
  BY <1>1, <1>3, <1>4, <1>5, <1>6, <1>7 DEF IInv

\* Every step preserves the invariant.
LEMMA NextIInv ==
  ASSUME IInv, [Next]_vars
  PROVE  IInv'
<1>1. ASSUME NEW t \in Thread, Loop(t) \/ SpuriousWakeup(t) PROVE IInv'
  BY <1>1, ReturnsPreserves, WaitsPreserves, StopsPreserves, TakesPreserves, ExecutesPreserves,
     SpuriousPreserves DEF Loop
<1>2. CASE Control \/ Wait
  BY <1>2, MasterPreserves
<1>3. ASSUME NEW S \in SUBSET Check, Add(S) PROVE IInv'
  BY <1>3, AddPreserves
<1>4. CASE Pool
  BY <1>4, PoolPreserves, StopPreserves DEF Pool
<1>5. CASE UNCHANGED vars
  <2>1. UNCHANGED <<queue, nIdle, nTotal, fAllOk, nTodo, stop, pc, batch, fOk, added, result, rounds, starts>>
    BY <1>5 DEF vars
  <2>2. TypeOK'
    BY <2>1, ZenonT(30) DEF IInv, TypeOK
  <2>3. TodoCounts' /\ FinishedOnReturn'
    BY <2>1, ZenonT(30) DEF IInv, TodoCounts, FinishedOnReturn, Unfinished
  <2>4. PoolCounts'
    BY <2>1, ZenonT(30) DEF IInv, PoolCounts
  <2>5. Places' /\ ResultCorrect'
    BY <2>1, ZenonT(30) DEF IInv, Places, ResultCorrect
  <2>6. Verdict'
    BY <2>1, ZenonT(30) DEF IInv, Verdict, Unfinished
  <2> QED
    BY <2>2, <2>3, <2>4, <2>5, <2>6, ZenonT(30) DEF IInv
<1> QED
  BY <1>1, <1>2, <1>3, <1>4, <1>5 DEF Next

\* The strengthened invariant holds throughout.
THEOREM Inductive == Spec => []IInv
<1>1. Init => IInv
  BY InitIInv
<1>2. IInv /\ [Next]_vars => IInv'
  BY NextIInv
<1> QED
  BY <1>1, <1>2, PTL DEF Spec

\* The variables of CCheckQueue keep their types; no counter becomes negative.
THEOREM TypeCorrect == Spec => []TypeOK
<1>1. IInv => TypeOK
  BY DEF IInv
<1> QED
  BY <1>1, Inductive, PTL

\* nTodo of CCheckQueue counts the checks that are queued or in a batch.
THEOREM TodoAlwaysCounts == Spec => []TodoCounts
<1>1. IInv => TodoCounts
  BY DEF IInv
<1> QED
  BY <1>1, Inductive, PTL

\* CCheckQueue::Wait returns only when every check is done.
THEOREM NothingLeftOnReturn == Spec => []FinishedOnReturn
<1>1. IInv => FinishedOnReturn
  BY DEF IInv
<1> QED
  BY <1>1, Inductive, PTL

\* CCheckQueue::Wait returns the conjunction of all checks.
THEOREM ResultAlwaysCorrect == Spec => []ResultCorrect
<1>1. IInv => ResultCorrect
  BY DEF IInv
<1> QED
  BY <1>1, Inductive, PTL

\* nIdle and nTotal count the threads that wait and the threads of the pool.
THEOREM PoolAlwaysCounts == Spec => []PoolCounts
<1>1. IInv => PoolCounts
  BY DEF IInv
<1> QED
  BY <1>1, Inductive, PTL

\* nTodo, nIdle and nTotal agree with the queue and the threads.
THEOREM CountersAlwaysExact == Spec => []CountersExact
<1>1. TodoCounts /\ PoolCounts => CountersExact
  BY DEF CountersExact
<1> QED
  BY <1>1, TodoAlwaysCounts, PoolAlwaysCounts, PTL

\* CCheckQueue::Wait returns when every check is done, with their conjunction.
THEOREM WaitAlwaysSound == Spec => []WaitSound
<1>1. FinishedOnReturn /\ ResultCorrect => WaitSound
  BY DEF WaitSound
<1> QED
  BY <1>1, NothingLeftOnReturn, ResultAlwaysCorrect, PTL
=============================================================================
