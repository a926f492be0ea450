---------------------------- MODULE Notifications ----------------------------
(***************************************************************************)
(* How validation tells the rest of the node what it did: CScheduler, the   *)
(* SingleThreadedSchedulerClient of CMainSignals on top of it, the threads  *)
(* that queue notifications or wait for the queue to drain, and the order    *)
(* in which Shutdown takes all of it down.                                  *)
(*                                                                          *)
(* A step is one critical section of newTaskMutex or of                     *)
(* m_cs_callbacks_pending, or what a thread does between two of them.  Time  *)
(* is relative: a task carries the time left until it is due.               *)
(***************************************************************************)
EXTENDS Integers, Sequences, FiniteSets

CONSTANTS SchedulerThread,  \* threads running serviceQueue
          ServerThread,     \* the message handler and the RPC threads
          LoadBlockThread,  \* ThreadImport
          Main,             \* the thread that runs Shutdown
          Timer,            \* the tasks of scheduleEvery
          Interval,         \* deltaMilliSeconds of scheduleEvery
          CallbackLimit,    \* 10 in ActivateBestChain
          MaxPending,       \* bounds: nothing new is begun when so many callbacks wait
          MaxTasks,         \* or so many tasks are scheduled
          None

Validator == ServerThread \cup LoadBlockThread
Thread == SchedulerThread \cup Validator \cup {Main}

\* A callback is a signal, or fulfils the promise of the thread that queued it.
Callback == [by : Thread, kind : {"signal", "sync"}]

ASSUME NotificationsAssumption ==
  /\ SchedulerThread \cap Validator = {}
  /\ ServerThread \cap LoadBlockThread = {}
  /\ Main \notin SchedulerThread \cup Validator
  /\ None \notin Thread
  /\ IsFiniteSet(Timer) /\ "ProcessQueue" \notin Timer
  /\ Interval \in Nat \ {0}
  /\ CallbackLimit \in Nat
  /\ MaxPending \in Nat
  /\ MaxTasks \in Nat

\* Where a thread is: in serviceQueue, running a task, in ProcessQueue and
\* MaybeScheduleProcessQueue, in Sync..., in ActivateBestChain, in Shutdown.
Place == {"top", "entropy", "wait", "wokeWait", "until", "wokeUntil", "timedOut", "timer", "exited",
          "process", "callback", "called", "maybe", "schedule", "sync", "await",
          "idle", "limit", "connect", "emitted", "stepped",
          "joinPeers", "joinScheduler", "joinLoadBlock", "empty", "done"}

VARIABLES taskQueue,      \* in the order of the multimap
          stopRequested,
          deadline,       \* timeToWaitFor of each scheduler thread
          task,           \* the task each scheduler thread has taken
          m_callbacks_pending,
          m_are_callbacks_running,
          callback,       \* local to ProcessQueue
          promise,        \* of SyncWithValidationInterfaceQueue
          cs_main,        \* its holder, between steps
          m_cs_chainstate,
          shutdownRequested,
          pc

schedulerVars == <<taskQueue, stopRequested, deadline, task>>
clientVars == <<m_callbacks_pending, m_are_callbacks_running, callback>>
lockVars == <<cs_main, m_cs_chainstate>>
vars == <<schedulerVars, clientVars, promise, lockVars, shutdownRequested, pc>>

Init ==
  /\ \E s \in [1..Cardinality(Timer) -> Timer] :
       /\ \A i, j \in DOMAIN s : i # j => s[i] # s[j]
       /\ taskQueue = [i \in DOMAIN s |-> [what |-> s[i], left |-> Interval]]
  /\ stopRequested = FALSE
  /\ deadline = [t \in SchedulerThread |-> 0]
  /\ task = [t \in SchedulerThread |-> None]
  /\ m_callbacks_pending = <<>>
  /\ m_are_callbacks_running = FALSE
  /\ callback = [t \in SchedulerThread \cup {Main} |-> None]
  /\ promise = [t \in Validator |-> "none"]
  /\ cs_main = None
  /\ m_cs_chainstate = None
  /\ shutdownRequested = FALSE
  /\ pc = [t \in Thread |-> IF t \in SchedulerThread THEN "top" ELSE "idle"]

-----------------------------------------------------------------------------
(* CScheduler.                                                               *)

Waiting(p) == {w \in SchedulerThread : p[w] \in {"wait", "until"}}

\* wait_until reports a timeout whenever the time has come, notified or not.
Wake(p, w) == [p EXCEPT ![w] = IF p[w] = "wait" THEN "wokeWait"
                               ELSE IF deadline[w] = 0 THEN "timedOut" ELSE "wokeUntil"]

\* newTaskScheduled.notify_one(): the places of the threads after it.
NotifyOne(p) == IF Waiting(p) = {} THEN {p} ELSE {Wake(p, w) : w \in Waiting(p)}
NotifyAll(p) == [w \in Thread |-> IF w \in Waiting(p) THEN Wake(p, w)[w] ELSE p[w]]

\* Wrong: in front of the tasks that are due at the same time.
Mut_scheduleInFront(what, left) ==
  \E i \in 0..Len(taskQueue) :
    /\ \A k \in 1..Len(taskQueue) : k <= i <=> taskQueue[k].left < left
    /\ taskQueue' = [k \in 1..Len(taskQueue) + 1 |->
                       IF k <= i THEN taskQueue[k]
                       ELSE IF k = i + 1 THEN [what |-> what, left |-> left]
                       ELSE taskQueue[k - 1]]

\* multimap::emplace: behind every task that is due no later.
schedule(what, left) ==
  \E i \in 0..Len(taskQueue) :
    /\ \A k \in 1..Len(taskQueue) : k <= i <=> taskQueue[k].left <= left
    /\ taskQueue' = [k \in 1..Len(taskQueue) + 1 |->
                       IF k <= i THEN taskQueue[k]
                       ELSE IF k = i + 1 THEN [what |-> what, left |-> left]
                       ELSE taskQueue[k - 1]]

AtQueue(w) == pc[w] \in {"top", "entropy", "wokeWait", "wokeUntil", "timedOut"}

serviceQueue_Exits(w) ==
  /\ AtQueue(w) /\ stopRequested
  /\ pc' \in NotifyOne([pc EXCEPT ![w] = "exited"])
  /\ UNCHANGED <<schedulerVars, clientVars, promise, lockVars, shutdownRequested>>

\* The loop starts with RandAddSeedSleep, outside of the lock.
serviceQueue_FindsNothing(w) ==
  /\ AtQueue(w) /\ ~stopRequested /\ taskQueue = <<>>
  /\ pc' = [pc EXCEPT ![w] = IF pc[w] \in {"entropy", "wokeWait"} THEN "wait" ELSE "entropy"]
  /\ UNCHANGED <<schedulerVars, clientVars, promise, lockVars, shutdownRequested>>

\* wait_until, which releases the lock even when the time has come.
serviceQueue_WaitsUntil(w) ==
  /\ AtQueue(w) /\ pc[w] # "timedOut" /\ ~stopRequested /\ taskQueue # <<>>
  /\ deadline' = [deadline EXCEPT ![w] = Head(taskQueue).left]
  /\ pc' = [pc EXCEPT ![w] = "until"]
  /\ UNCHANGED <<taskQueue, stopRequested, task, clientVars, promise, lockVars, shutdownRequested>>

serviceQueue_TimesOut(w) ==
  /\ pc[w] = "until" /\ deadline[w] = 0
  /\ pc' = [pc EXCEPT ![w] = "timedOut"]
  /\ UNCHANGED <<schedulerVars, clientVars, promise, lockVars, shutdownRequested>>

serviceQueue_TakesTask(w) ==
  /\ pc[w] = "timedOut" /\ ~stopRequested /\ taskQueue # <<>>
  /\ task' = [task EXCEPT ![w] = Head(taskQueue).what]
  /\ taskQueue' = Tail(taskQueue)
  /\ pc' = [pc EXCEPT ![w] = IF Head(taskQueue).what = "ProcessQueue" THEN "process" ELSE "timer"]
  /\ UNCHANGED <<stopRequested, deadline, clientVars, promise, lockVars, shutdownRequested>>

\* The function made by scheduleEvery; the predicates of the node return true.
scheduleEvery_Runs(w) ==
  /\ pc[w] = "timer"
  /\ schedule(task[w], Interval)
  /\ task' = [task EXCEPT ![w] = None]
  /\ pc' \in NotifyOne([pc EXCEPT ![w] = "top"])
  /\ UNCHANGED <<stopRequested, deadline, clientVars, promise, lockVars, shutdownRequested>>

\* A condition variable may wake without having been notified.
SpuriousWakeup(w) ==
  /\ w \in Waiting(pc)
  /\ pc' = Wake(pc, w)
  /\ UNCHANGED <<schedulerVars, clientVars, promise, lockVars, shutdownRequested>>

Sooner(n) == IF n = 0 THEN 0 ELSE n - 1

Tick ==
  /\ \/ \E i \in DOMAIN taskQueue : taskQueue[i].left > 0
     \/ \E w \in SchedulerThread : pc[w] = "until" /\ deadline[w] > 0
  /\ taskQueue' = [i \in DOMAIN taskQueue |-> [taskQueue[i] EXCEPT !.left = Sooner(@)]]
  /\ deadline' = [w \in SchedulerThread |-> Sooner(deadline[w])]
  /\ UNCHANGED <<stopRequested, task, clientVars, promise, lockVars, shutdownRequested, pc>>

-----------------------------------------------------------------------------
(* SingleThreadedSchedulerClient.                                            *)

\* Where a thread goes on after MaybeScheduleProcessQueue or ProcessQueue.
ReturnTo(t) ==
  IF t \in SchedulerThread THEN "top"
  ELSE IF t = Main THEN "empty"
  ELSE IF promise[t] = "none" THEN "emitted" ELSE "await"

\* Wrong: the flag is not looked at.
Mut_FlagIgnored == m_callbacks_pending = <<>>

NothingToProcess == m_are_callbacks_running \/ m_callbacks_pending = <<>>

\* AddToProcessQueue, up to its call of MaybeScheduleProcessQueue.
Push(t, kind) ==
  /\ m_callbacks_pending' = Append(m_callbacks_pending, [by |-> t, kind |-> kind])
  /\ pc' = [pc EXCEPT ![t] = "maybe"]
  /\ UNCHANGED <<m_are_callbacks_running, callback>>

MaybeScheduleProcessQueue(t) ==
  /\ pc[t] = "maybe"
  /\ pc' = [pc EXCEPT ![t] = IF NothingToProcess THEN ReturnTo(t) ELSE "schedule"]
  /\ UNCHANGED <<schedulerVars, clientVars, promise, lockVars, shutdownRequested>>

MaybeScheduleProcessQueue_Schedules(t) ==
  /\ pc[t] = "schedule"
  /\ schedule("ProcessQueue", 0)
  /\ pc' \in NotifyOne([pc EXCEPT ![t] = ReturnTo(t)])
  /\ UNCHANGED <<stopRequested, deadline, task, clientVars, promise, lockVars, shutdownRequested>>

ProcessQueue_Returns(t) ==
  /\ pc[t] = "process" /\ NothingToProcess
  /\ pc' = [pc EXCEPT ![t] = ReturnTo(t)]
  /\ UNCHANGED <<schedulerVars, clientVars, promise, lockVars, shutdownRequested>>

ProcessQueue_TakesCallback(t) ==
  /\ pc[t] = "process" /\ ~NothingToProcess
  /\ m_are_callbacks_running' = TRUE
  /\ callback' = [callback EXCEPT ![t] = Head(m_callbacks_pending)]
  /\ m_callbacks_pending' = Tail(m_callbacks_pending)
  /\ pc' = [pc EXCEPT ![t] = "callback"]
  /\ UNCHANGED <<schedulerVars, promise, lockVars, shutdownRequested>>

\* callback(): subscribers take cs_main and release it before they return.
ProcessQueue_Calls(t) ==
  /\ pc[t] = "callback"
  /\ LET c == callback[t] IN
       IF c.kind = "sync"
       THEN promise' = [promise EXCEPT ![c.by] = "set"] /\ UNCHANGED cs_main
       ELSE cs_main = None /\ UNCHANGED <<promise, cs_main>>
  /\ callback' = [callback EXCEPT ![t] = None]
  /\ pc' = [pc EXCEPT ![t] = "called"]
  /\ UNCHANGED <<schedulerVars, m_callbacks_pending, m_are_callbacks_running, m_cs_chainstate, shutdownRequested>>

\* Wrong: the flag is cleared and the rest of the queue is not scheduled.
Mut_RestNotScheduled(t) ==
  /\ pc[t] = "called"
  /\ m_are_callbacks_running' = FALSE
  /\ pc' = [pc EXCEPT ![t] = ReturnTo(t)]
  /\ UNCHANGED <<schedulerVars, m_callbacks_pending, callback, promise, lockVars, shutdownRequested>>

\* The deferred part: the flag first, then MaybeScheduleProcessQueue.
ProcessQueue_Finishes(t) ==
  /\ pc[t] = "called"
  /\ m_are_callbacks_running' = FALSE
  /\ pc' = [pc EXCEPT ![t] = "maybe"]
  /\ UNCHANGED <<schedulerVars, m_callbacks_pending, callback, promise, lockVars, shutdownRequested>>

-----------------------------------------------------------------------------
(* The threads that use the queue.                                           *)

\* The bounds of the instance, asked of whoever begins something.
Room == Len(m_callbacks_pending) < MaxPending /\ Len(taskQueue) < MaxTasks

SyncWithValidationInterfaceQueue(t) ==
  /\ \/ pc[t] = "sync"
     \/ t \in ServerThread /\ pc[t] = "idle" /\ ~shutdownRequested /\ Room
  /\ promise' = [promise EXCEPT ![t] = "unset"]
  /\ Push(t, "sync")
  /\ UNCHANGED <<schedulerVars, lockVars, shutdownRequested>>

SyncWithValidationInterfaceQueue_Returns(t) ==
  /\ pc[t] = "await" /\ promise[t] = "set"
  /\ promise' = [promise EXCEPT ![t] = "none"]
  /\ pc' = [pc EXCEPT ![t] = IF m_cs_chainstate = t THEN "connect" ELSE "idle"]
  /\ UNCHANGED <<schedulerVars, clientVars, lockVars, shutdownRequested>>

ActivateBestChain(t) ==
  /\ pc[t] = "idle" /\ ~shutdownRequested /\ Room /\ m_cs_chainstate = None
  /\ m_cs_chainstate' = t
  /\ pc' = [pc EXCEPT ![t] = "limit"]
  /\ UNCHANGED <<schedulerVars, clientVars, promise, cs_main, shutdownRequested>>

ActivateBestChain_Limits(t) ==
  /\ pc[t] = "limit"
  /\ pc' = [pc EXCEPT ![t] = IF Len(m_callbacks_pending) > CallbackLimit THEN "sync" ELSE "connect"]
  /\ UNCHANGED <<schedulerVars, clientVars, promise, lockVars, shutdownRequested>>

\* cs_main is held while blocks are connected and their signals are queued.
ActivateBestChain_Connects(t) ==
  /\ pc[t] = "connect" /\ cs_main = None
  /\ cs_main' = t
  /\ Push(t, "signal")
  /\ UNCHANGED <<schedulerVars, promise, m_cs_chainstate, shutdownRequested>>

\* TransactionAddedToMempool, which CallbackLimit does not hold back.
AcceptToMemoryPool(t) ==
  /\ t \in ServerThread
  /\ pc[t] = "idle" /\ ~shutdownRequested /\ Room /\ cs_main = None
  /\ cs_main' = t
  /\ Push(t, "signal")
  /\ UNCHANGED <<schedulerVars, promise, m_cs_chainstate, shutdownRequested>>

\* BlockConnected of the next block, or UpdatedBlockTip.
ActivateBestChain_EmitsMore(t) ==
  /\ pc[t] = "emitted" /\ m_cs_chainstate = t /\ Room
  /\ Push(t, "signal")
  /\ UNCHANGED <<schedulerVars, promise, lockVars, shutdownRequested>>

\* Wrong: cs_main is kept from one step of ActivateBestChain to the next.
Mut_MainKept(t) ==
  /\ pc[t] = "emitted"
  /\ cs_main' = (IF m_cs_chainstate = t THEN cs_main ELSE None)
  /\ pc' = [pc EXCEPT ![t] = IF m_cs_chainstate = t THEN "stepped" ELSE "idle"]
  /\ UNCHANGED <<schedulerVars, clientVars, promise, m_cs_chainstate, shutdownRequested>>

ReleaseMain(t) ==
  /\ pc[t] = "emitted"
  /\ cs_main' = None
  /\ pc' = [pc EXCEPT ![t] = IF m_cs_chainstate = t THEN "stepped" ELSE "idle"]
  /\ UNCHANGED <<schedulerVars, clientVars, promise, m_cs_chainstate, shutdownRequested>>

\* Wrong: ActivateBestChain does not look at ShutdownRequested.
Mut_ShutdownIgnored(t) ==
  /\ pc[t] = "stepped" /\ Room
  /\ pc' = [pc EXCEPT ![t] = "limit"]
  /\ UNCHANGED <<schedulerVars, clientVars, promise, lockVars, shutdownRequested>>

ActivateBestChain_GoesOn(t) ==
  /\ pc[t] = "stepped" /\ ~shutdownRequested /\ Room
  /\ pc' = [pc EXCEPT ![t] = "limit"]
  /\ UNCHANGED <<schedulerVars, clientVars, promise, lockVars, shutdownRequested>>

ActivateBestChain_Returns(t) ==
  /\ pc[t] = "stepped"
  /\ m_cs_chainstate' = None
  /\ pc' = [pc EXCEPT ![t] = "idle"]
  /\ UNCHANGED <<schedulerVars, clientVars, promise, cs_main, shutdownRequested>>

-----------------------------------------------------------------------------
(* Shutdown, in its order.                                                   *)

StartShutdown ==
  /\ pc[Main] = "idle"
  /\ shutdownRequested' = TRUE
  /\ pc' = [pc EXCEPT ![Main] = "joinPeers"]
  /\ UNCHANGED <<schedulerVars, clientVars, promise, lockVars>>

\* StopHTTPServer and g_connman->Stop have joined their threads; scheduler.stop().
Shutdown_StopsScheduler ==
  /\ pc[Main] = "joinPeers"
  /\ \A t \in ServerThread : pc[t] = "idle"
  /\ stopRequested' = TRUE
  /\ pc' = NotifyAll([pc EXCEPT ![Main] = "joinScheduler"])
  /\ UNCHANGED <<taskQueue, deadline, task, clientVars, promise, lockVars, shutdownRequested>>

Shutdown_JoinsScheduler ==
  /\ pc[Main] = "joinScheduler"
  /\ \A t \in SchedulerThread : pc[t] = "exited"
  /\ pc' = [pc EXCEPT ![Main] = "joinLoadBlock"]
  /\ UNCHANGED <<schedulerVars, clientVars, promise, lockVars, shutdownRequested>>

\* loadBlockThread.join(); FlushStateToDisk queues ChainStateFlushed.
Shutdown_FlushesState ==
  /\ pc[Main] = "joinLoadBlock"
  /\ \A t \in LoadBlockThread : pc[t] = "idle"
  /\ Push(Main, "signal")
  /\ UNCHANGED <<schedulerVars, promise, lockVars, shutdownRequested>>

\* FlushBackgroundCallbacks
EmptyQueue ==
  /\ pc[Main] = "empty"
  /\ pc' = [pc EXCEPT ![Main] = IF m_callbacks_pending = <<>> THEN "done" ELSE "process"]
  /\ UNCHANGED <<schedulerVars, clientVars, promise, lockVars, shutdownRequested>>

-----------------------------------------------------------------------------

\* What a thread that has begun something does next.
ServiceStep(w) ==
  \/ serviceQueue_Exits(w)
  \/ serviceQueue_FindsNothing(w)
  \/ serviceQueue_WaitsUntil(w)
  \/ serviceQueue_TimesOut(w)
  \/ serviceQueue_TakesTask(w)
  \/ scheduleEvery_Runs(w)

ProcessStep(t) ==
  \/ ProcessQueue_Returns(t)
  \/ ProcessQueue_TakesCallback(t)
  \/ ProcessQueue_Finishes(t)

ScheduleStep(t) ==
  \/ MaybeScheduleProcessQueue(t)
  \/ MaybeScheduleProcessQueue_Schedules(t)

ValidatorStep(t) ==
  \/ ActivateBestChain_Limits(t)
  \/ ReleaseMain(t)
  \/ ActivateBestChain_Returns(t)

ValidatorChoice(t) ==
  \/ ActivateBestChain(t)
  \/ ActivateBestChain_EmitsMore(t)
  \/ ActivateBestChain_GoesOn(t)
  \/ AcceptToMemoryPool(t)

ShutdownStep ==
  \/ Shutdown_StopsScheduler
  \/ Shutdown_JoinsScheduler
  \/ Shutdown_FlushesState
  \/ EmptyQueue

Next ==
  \/ \E w \in SchedulerThread : ServiceStep(w) \/ SpuriousWakeup(w)
  \/ \E t \in SchedulerThread \cup {Main} : ProcessStep(t) \/ ProcessQueue_Calls(t)
  \/ \E t \in Thread : ScheduleStep(t)
  \/ \E t \in Validator :
       SyncWithValidationInterfaceQueue(t) \/ SyncWithValidationInterfaceQueue_Returns(t)
  \/ \E t \in Validator : ValidatorStep(t) \/ ActivateBestChain_Connects(t) \/ ValidatorChoice(t)
  \/ StartShutdown
  \/ ShutdownStep
  \/ Tick

Spec == Init /\ [][Next]_vars

\* What a thread does without a choice of its own; what needs cs_main apart.
ThreadStep(t) ==
  \/ t \in SchedulerThread /\ ServiceStep(t)
  \/ t \in SchedulerThread \cup {Main} /\ ProcessStep(t)
  \/ ScheduleStep(t)
  \/ t \in Validator /\ ValidatorStep(t)
  \/ pc[t] = "sync" /\ SyncWithValidationInterfaceQueue(t)
  \/ pc[t] = "await" /\ SyncWithValidationInterfaceQueue_Returns(t)
  \/ t = Main /\ ShutdownStep

\* Every thread runs, and a thread that wants cs_main gets it in the end.
FairSpec ==
  /\ Spec
  /\ \A t \in Thread : WF_vars(ThreadStep(t))
  /\ SF_vars(\E t \in SchedulerThread \cup {Main} : ProcessQueue_Calls(t))
  /\ \A t \in Validator : SF_vars(ActivateBestChain_Connects(t))
  /\ WF_vars(Tick)

-----------------------------------------------------------------------------

\* Type invariant: the task queue, the callbacks, the promises, the two locks and
\* the places of the threads stay well formed.
TypeOK ==
  /\ taskQueue \in Seq([what : Timer \cup {"ProcessQueue"}, left : 0..Interval])
  /\ stopRequested \in BOOLEAN
  /\ deadline \in [SchedulerThread -> 0..Interval]
  /\ task \in [SchedulerThread -> Timer \cup {"ProcessQueue", None}]
  /\ m_callbacks_pending \in Seq(Callback)
  /\ m_are_callbacks_running \in BOOLEAN
  /\ callback \in [SchedulerThread \cup {Main} -> Callback \cup {None}]
  /\ promise \in [Validator -> {"none", "unset", "set"}]
  /\ cs_main \in Validator \cup {None}
  /\ m_cs_chainstate \in Validator \cup {None}
  /\ shutdownRequested \in BOOLEAN
  /\ pc \in [Thread -> Place]

\* A thread that is going to call ProcessQueue, to schedule it, or to look
\* whether it must; the end of Shutdown is.
Responsible(t) ==
  \/ pc[t] \in {"maybe", "schedule", "process"}
  \/ t = Main /\ pc[t] \in {"joinScheduler", "joinLoadBlock", "empty"}

\* MaybeScheduleProcessQueue decides under m_cs_callbacks_pending and schedules
\* after releasing it, and ProcessQueue gives up when another thread is at it:
\* a callback is nevertheless never left in the queue with nobody to run it,
\* neither while the scheduler works nor when Shutdown has stopped it.
NoCallbackForgotten ==
  m_callbacks_pending # <<>> /\ ~m_are_callbacks_running =>
    \/ ~stopRequested /\ \E i \in DOMAIN taskQueue : taskQueue[i].what = "ProcessQueue"
    \/ \E t \in Thread : Responsible(t)

Executing == {t \in SchedulerThread \cup {Main} : pc[t] = "callback"}

Serial == INSTANCE SerialQueue WITH queue <- m_callbacks_pending,
                                    running <- {callback[t] : t \in Executing}

\* The client keeps what scheduler.h promises, for any number of scheduler
\* threads: callbacks run one at a time, in the order they were queued, and
\* each one is run, those left at shutdown included.
ImplementsSerialQueue == Serial!FairSpec

\* SyncWithValidationInterfaceQueue returns, whoever calls it and whatever
\* happens meanwhile.
SyncReturns == \A t \in Validator : pc[t] = "await" ~> pc[t] # "await"

\* A task of scheduleEvery runs again and again until the scheduler stops,
\* however many notifications are processed in between.
TimersKeepRunning ==
  \A x \in Timer : []<>(stopRequested \/ \E w \in SchedulerThread : task[w] = x)

\* Shutdown joins every thread and ends.
ShutdownCompletes == shutdownRequested ~> pc[Main] = "done"
=============================================================================
